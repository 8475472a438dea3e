---------------------------- MODULE CarryBudget ----------------------------
(***************************************************************************)
(* turn_tool_context.py, grade .. render_budgeted: the tool calls of       *)
(* earlier turns are graded into tiers by age and degraded, the cheapest   *)
(* information first, until the rendered block fits the token budget.  One *)
(* action is one pass of one of the two loops.  A turn is abstracted to    *)
(* the lengths the estimate depends on; its entries are alike.             *)
(***************************************************************************)
EXTENDS Integers, Sequences

CONSTANTS Budget,                  \* MAX_CARRY_TOKENS
          TierATurns, TierBTurns,  \* TIER_A_TURNS, TIER_B_TURNS
          TierBChars, TierCChars, TierCArgs,
          MaxOutput, MaxTurnBytes, MaxKeyBytes,
          SafeEntries, MaxName,    \* entries of a lone turn, with names up to MaxName,
                                   \* whose floor always fits
          MaxLoad,                 \* bound of the runs: turns carried
          Shapes                   \* turns as captured

Kinds == {"ascii", "cyrillic", "cjk", "lines"}

\* n entries, each with a name of so many ASCII characters (the source neither limits nor
\* ever cuts it), out characters of output of one kind and arg characters of
\* arguments; cut is the number of characters the truncation note states.
TurnOf == [n : Nat, name : Nat, kind : Kinds, out : Nat, arg : Nat, argKind : Kinds, cut : Nat]

ASSUME BudgetAssumption ==
    /\ {Budget, TierATurns, TierBTurns, TierBChars, TierCChars, TierCArgs} \subseteq Nat \ {0}
    /\ {MaxOutput, MaxTurnBytes, MaxKeyBytes, MaxLoad, SafeEntries} \subseteq Nat \ {0}
    /\ MaxName \in Nat
    /\ Shapes \subseteq TurnOf

VARIABLES input, items, dropped, stage, cap

budgetVars == <<input, items, dropped, stage, cap>>

-----------------------------------------------------------------------------
(* Capture: what the store accepts. *)

\* f[1] + ... + f[n].
Total(f, n) == LET upTo[i \in 0..n] == IF i = 0 THEN 0 ELSE upTo[i - 1] + f[i] IN upTo[n]

Bytes(kind) == CASE kind = "cjk" -> 3 [] kind = "cyrillic" -> 2 [] OTHER -> 1
TurnBytes(t) == t.n * (t.out * Bytes(t.kind) + t.arg * Bytes(t.argKind) + t.name + 1)

\* transcript_payload, record_transcript and commit keep every turn and every session within
\* these limits.
Storable(ts) ==
    /\ \A i \in DOMAIN ts : ts[i].out <= MaxOutput /\ TurnBytes(ts[i]) <= MaxTurnBytes
    /\ Total([i \in DOMAIN ts |-> TurnBytes(ts[i])], Len(ts)) <= MaxKeyBytes

-----------------------------------------------------------------------------
(* render and estimate_tokens: wide characters count one, ASCII a quarter. *)

Digits(x) == CASE x < 10 -> 1 [] x < 100 -> 2 [] x < 1000 -> 3 [] x < 10000 -> 4 [] OTHER -> 5

\* Every line of an output is quoted ("| " and a newline): an output of k newlines has
\* k + 1 lines, one without has one.
Wide(kind, k) == IF kind \in {"cjk", "cyrillic"} THEN k ELSE 0
Ascii(kind, k) == IF kind = "ascii" THEN k ELSE 0
Lines(kind, k) == IF kind = "lines" THEN k + 1 ELSE 1

EntryWide(t) ==
    4 + Wide(t.argKind, t.arg) + Wide(t.kind, t.out) + Lines(t.kind, t.out)
      + (IF t.cut > 0 THEN 8 ELSE 0)
EntryAscii(t) ==
    12 + t.name + Digits(t.out) + Ascii(t.argKind, t.arg) + Ascii(t.kind, t.out) + 2 * Lines(t.kind, t.out)
       + (IF t.cut > 0 THEN 6 + Digits(t.cut) ELSE 0)

Ceil4(x) == (x + 3) \div 4

\* 172 wide and 171 ASCII characters of frame, 6 and 6 of turn header.
Tokens(ts) ==
    LET wide  == Total([i \in DOMAIN ts |-> 6 + ts[i].n * EntryWide(ts[i])], Len(ts))
        ascii == Total([i \in DOMAIN ts |-> 6 + ts[i].n * EntryAscii(ts[i])], Len(ts))
    IN  172 + wide + Ceil4(171 + ascii)

\* What SafeEntries and MaxName are: a turn of that many entries with names of that length
\* fits at the floor, whatever its arguments and outputs are made of.
AtFloor(n, k, g) ==
    [n |-> n, name |-> MaxName, kind |-> k, out |-> TierCChars, arg |-> TierCArgs, argKind |-> g, cut |-> 10000]
ASSUME FloorAssumption == \A k, g \in Kinds : Tokens(<<AtFloor(SafeEntries, k, g)>>) <= Budget

-----------------------------------------------------------------------------
(* The tiers. *)

Lower(x, y) == IF x < y THEN x ELSE y
Higher(x, y) == IF x < y THEN y ELSE x

\* _thin: cut output and arguments; the note accumulates what output lost.
Thin(t, outChars, argChars) ==
    [t EXCEPT !.out = Lower(@, outChars), !.arg = Lower(@, argChars),
              !.cut = @ + (t.out - Lower(t.out, outChars))]

ApplyTier(t, tier) ==
    CASE tier = "A" -> t
      [] tier = "B" -> Thin(t, TierBChars, t.arg)
      [] tier = "C" -> Thin(t, TierCChars, TierCArgs)

Rank(tier) == CASE tier = "A" -> 0 [] tier = "B" -> 1 [] tier = "C" -> 2
Below(tier) == IF tier = "A" THEN "B" ELSE "C"

\* grade: the i-th of len turns, by its age.
TierOf(i, len) ==
    IF len - i < TierATurns THEN "A"
    ELSE IF len - i < TierATurns + TierBTurns THEN "B" ELSE "C"

Item(tier, t, was) == [tier |-> tier, turn |-> ApplyTier(t, tier), id |-> was]

Grade(ts) == [i \in DOMAIN ts |-> Item(TierOf(i, Len(ts)), ts[i], i)]
TurnsOf(its) == [i \in DOMAIN its |-> its[i].turn]

-----------------------------------------------------------------------------
\* A session of up to MaxLoad turns, of one older shape and one newest.
Loads ==
    {ts \in UNION {{[i \in 1..len |-> IF i = len THEN s ELSE o] : s \in Shapes, o \in Shapes} :
                      len \in 1..MaxLoad} : Storable(ts)}

BudgetInit ==
    /\ input \in Loads
    /\ items = Grade(input)
    /\ dropped = 0
    /\ stage = "ladder"
    /\ cap = 0

Over == Tokens(TurnsOf(items)) > Budget

Fits ==
    /\ stage = "ladder"
    /\ ~Over
    /\ stage' = "done"
    /\ UNCHANGED <<input, items, dropped, cap>>

\* With at most TierATurns left the oldest is demoted a tier at a time.
Demote ==
    /\ stage = "ladder"
    /\ Over
    /\ Len(items) > 1
    /\ Len(items) <= TierATurns
    /\ items[1].tier # "C"
    /\ items' = [items EXCEPT ![1] = Item(Below(@.tier), @.turn, @.id)]
    /\ UNCHANGED <<input, dropped, stage, cap>>

\* Otherwise it is dropped.
Drop ==
    /\ stage = "ladder"
    /\ Over
    /\ Len(items) > 1
    /\ Len(items) > TierATurns \/ items[1].tier = "C"
    /\ items' = Tail(items)
    /\ dropped' = dropped + 1
    /\ UNCHANGED <<input, stage, cap>>

\* _fit_alone: a lone turn that is over first has its arguments cut.
Alone ==
    /\ stage = "ladder"
    /\ Over
    /\ Len(items) = 1
    /\ items' = [items EXCEPT ![1].turn = Thin(@, MaxOutput, TierCArgs)]
    /\ cap' = items[1].turn.out
    /\ stage' = "fitting"
    /\ UNCHANGED <<input, dropped>>

\* Scale toward the budget, but always make progress.
NextCap == Higher(TierCChars, Lower(cap - 1, (cap * Budget) \div Tokens(TurnsOf(items))))

\* Then its outputs are cut, down to the floor.
Shrink ==
    /\ stage = "fitting"
    /\ Over /\ cap > TierCChars
    /\ cap' = NextCap
    /\ items' = [items EXCEPT ![1].turn = Thin(@, NextCap, @.arg)]
    /\ UNCHANGED <<input, dropped, stage>>

\* Mutant: the second tier's limit is the floor.
SettleAtTierB ==
    /\ stage = "fitting"
    /\ ~Over \/ cap <= TierBChars
    /\ stage' = "done"
    /\ UNCHANGED <<input, items, dropped, cap>>

\* The loop ends when the block fits or the floor is reached.
Settle ==
    /\ stage = "fitting"
    /\ ~Over \/ cap <= TierCChars
    /\ stage' = "done"
    /\ UNCHANGED <<input, items, dropped, cap>>

BudgetNext == Fits \/ Demote \/ Drop \/ Alone \/ Shrink \/ Settle

BudgetSpec == BudgetInit /\ [][BudgetNext]_budgetVars

-----------------------------------------------------------------------------
(* Properties. *)

BudgetTypeOK ==
    /\ dropped \in 0..MaxLoad
    /\ stage \in {"ladder", "fitting", "done"}
    /\ cap \in 0..MaxOutput
    /\ \A i \in DOMAIN items : items[i].tier \in {"A", "B", "C"} /\ items[i].turn \in TurnOf

\* MAX_CARRY_TOKENS is the post-condition of render_budgeted, except for a lone turn of
\* more than SafeEntries entries or with longer names than MaxName: its floor, which keeps
\* the names whole and quotes every line of an output, can lie above the budget.
BudgetHolds ==
    stage = "done" =>
        \/ ~Over
        \/ /\ Len(items) = 1
           /\ items[1].turn.n > SafeEntries \/ items[1].turn.name > MaxName

\* What is carried is a suffix of the session, never without its newest turn.
NewestSuffix ==
    /\ items # <<>>
    /\ \A i \in DOMAIN items : items[i].id = Len(input) - Len(items) + i
    /\ dropped = Len(input) - Len(items)

\* No turn is richer than a newer one, which the ladder relies on when it takes the
\* first item for the cheapest.
TiersMonotonic ==
    \A i, j \in DOMAIN items : i < j => Rank(items[i].tier) >= Rank(items[j].tier)

\* However often an output was cut, the note states all that is missing.
NoteIsTrue ==
    \A i \in DOMAIN items :
        LET was == input[items[i].id] IN
        items[i].turn.out + items[i].turn.cut = was.out + was.cut

\* What is carried fits the budget and is the end of the session, graded by age, with
\* true notes.
CarriedFaithfully == BudgetHolds /\ NewestSuffix /\ TiersMonotonic /\ NoteIsTrue
=============================================================================
