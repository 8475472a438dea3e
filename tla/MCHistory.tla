----------------------------- MODULE MCHistory -----------------------------
(* What a profile keeps from one turn to the next: the chat history, the    *)
(* session store's tables, the tool-call carryover store, the rendering of  *)
(* what is carried, and the skills.  A behaviour takes the steps of one     *)
(* part; the others keep their initial state, so the state spaces add up.   *)
EXTENDS FeishuTurn, SessionStore, ToolCarry, CarryBudget, SkillHub, TLC

CONSTANTS Parts, c1, c2, h1, h2, h3, h4, msg, content,
          k1, k2, r1, r2, p1, p2, a, b, Counts, Names, Outs, q1, q2

VARIABLE part

OwnHist == (c1 :> h1) @@ (c2 :> h2)

\* The defaults scaled down: a day is 4 ticks, the content TTL is 1.
DefaultTtl == (msg :> 4) @@ (content :> 1)

\* A turn whose entries are alike.
AlikeShapes ==
    {[n |-> n, name |-> m, kind |-> k, out |-> o, arg |-> g, argKind |-> "cjk",
      cut |-> IF o = MaxOutput THEN 7 ELSE 0] :
        n \in Counts, m \in Names, k \in Kinds \ {"cjk"}, o \in Outs, g \in {200, 2000}}

Sent(item, type, status, users, pkg) ==
    [item |-> item, type |-> type, status |-> status, explicit |-> type = "status",
     users |-> users, pkg |-> pkg]

\* Snapshots, grants, switches on and off, an update, an event of a type not known.
Bodies ==
    {Sent("plugin", "full", "active", {q2}, TRUE),
     Sent("plugin", "status", "active", {}, FALSE),
     Sent("plugin", "status", "inactive", {}, FALSE),
     Sent("plugin", "grant", "active", {q1}, FALSE),
     Sent("plugin", "other", "active", {q2}, TRUE),
     Sent("plugin", "unknown", "pending", {}, TRUE),
     Sent("skill", "full", "active", {q2}, TRUE),
     Sent("skill", "status", "inactive", {}, FALSE)}

HistoryInit ==
    /\ part \in Parts
    /\ TurnInit /\ Init /\ CarryInit /\ BudgetInit /\ HubInit
    /\ part # "turn" => ~strict /\ ~streaming
    /\ part # "budget" => input = CHOOSE load \in Loads : TRUE
    /\ \A q \in Homes : spot[q] = "own" => part = "skills" /\ q = q2

HistoryNext ==
    /\ UNCHANGED part
    /\ \/ part = "turn" /\ TurnNext /\ UNCHANGED <<vars, carryVars, budgetVars, hubVars>>
       \/ part = "events" /\ EventStep /\ UNCHANGED <<turnVars, carryVars, budgetVars, hubVars>>
       \/ part = "messages" /\ MessageStep /\ UNCHANGED <<turnVars, carryVars, budgetVars, hubVars>>
       \/ part = "carry" /\ CarryNext /\ UNCHANGED <<turnVars, vars, budgetVars, hubVars>>
       \/ part = "budget" /\ BudgetNext /\ UNCHANGED <<turnVars, vars, carryVars, hubVars>>
       \/ part = "skills" /\ HubNext /\ UNCHANGED <<turnVars, vars, carryVars, budgetVars>>

HistorySpec ==
    HistoryInit /\ [][HistoryNext]_<<part, turnVars, vars, carryVars, budgetVars, hubVars>>

Symm ==
    Permutations(Runs) \cup Permutations(Prompts) \cup Permutations(Calls) \cup Permutations(CarryKeys)
=============================================================================
