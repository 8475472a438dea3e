------------------------------- MODULE RunOnce -------------------------------
(***************************************************************************)
(* The contract of RunBroker.prepare_and_execute as its callers see it,    *)
(* without entries, tasks and maps: an identity is admitted once, on       *)
(* behalf of a caller that is still there; an admitted identity is         *)
(* executed at most once; at most one caller is handed the result, and a   *)
(* caller is told "duplicate" only when the identity was admitted.         *)
(***************************************************************************)
CONSTANTS Ids, Callers, None

VARIABLES admitted,  \* identities whose idempotency key was consumed
          executed,  \* identities dispatched to the agent
          asked,     \* the identity a caller asked to run
          reply      \* what the caller was answered

vars == <<admitted, executed, asked, reply>>

Init ==
    /\ admitted = {}
    /\ executed = {}
    /\ asked = [c \in Callers |-> None]
    /\ reply = [c \in Callers |-> "none"]

Ask(c, i) ==
    /\ reply[c] = "none"
    /\ asked' = [asked EXCEPT ![c] = i]
    /\ reply' = [reply EXCEPT ![c] = "pending"]
    /\ UNCHANGED <<admitted, executed>>

\* Admission happens for a caller that still waits, and once.
Admit(i) ==
    /\ i \notin admitted
    /\ \E c \in Callers : asked[c] = i /\ reply[c] = "pending"
    /\ admitted' = admitted \cup {i}
    /\ UNCHANGED <<executed, asked, reply>>

Execute(i) ==
    /\ i \in admitted \ executed
    /\ executed' = executed \cup {i}
    /\ UNCHANGED <<admitted, asked, reply>>

AnswerResult(c) ==
    /\ reply[c] = "pending"
    /\ asked[c] \in executed
    /\ \A d \in Callers : asked[d] = asked[c] => reply[d] # "result"
    /\ reply' = [reply EXCEPT ![c] = "result"]
    /\ UNCHANGED <<admitted, executed, asked>>

\* A caller that waits, or one that asks for an identity nobody waits for.
AnswerDuplicate(c, i) ==
    /\ i \in admitted
    /\ \/ reply[c] = "pending" /\ asked[c] = i /\ UNCHANGED asked
       \/ reply[c] = "none" /\ asked' = [asked EXCEPT ![c] = i]
    /\ reply' = [reply EXCEPT ![c] = "duplicate"]
    /\ UNCHANGED <<admitted, executed>>

\* Rejection, error and cancellation hit one caller; a crash hits all that wait.
Fail(S) ==
    /\ \A c \in S : reply[c] \in {"none", "pending"}
    /\ reply' = [c \in Callers |-> IF c \in S THEN "failed" ELSE reply[c]]
    /\ UNCHANGED <<admitted, executed, asked>>

Next ==
    \/ \E c \in Callers, i \in Ids : Ask(c, i) \/ AnswerDuplicate(c, i)
    \/ \E i \in Ids : Admit(i) \/ Execute(i)
    \/ \E c \in Callers : AnswerResult(c)
    \/ \E S \in SUBSET Callers : Fail(S)

Spec == Init /\ [][Next]_vars
=============================================================================
