--------------------------- MODULE RunBrokerProofs ---------------------------
(***************************************************************************)
(* TLAPS proofs about RunBroker, for any number of loops, identities,      *)
(* callers and entries.                                                    *)
(***************************************************************************)
EXTENDS RunBroker, FiniteSetTheorems, TLAPS

(* Every step keeps the state well-typed. *)
LEMMA TypeStep == TypeOK /\ [Next]_vars => TypeOK'
<1> SUFFICES ASSUME TypeOK, [Next]_vars PROVE TypeOK'
    OBVIOUS
<1>c. ASSUME NEW c \in Callers, CallStep(c) PROVE TypeOK'
  <2>1. CASE Reject(c)
    BY <2>1 DEF TypeOK, Reject, entryVars, execVars, finVars, CallerStates
  <2>2. ASSUME NEW l \in Loops, NEW i \in Ids, NEW e \in Entries, Lead(c, l, i, e)
        PROVE TypeOK'
    BY <2>2 DEF TypeOK, Lead, execVars, finVars, CallerStates, TaskStates
  <2>3. ASSUME NEW l \in Loops, NEW i \in Ids, Attach(c, l, i) PROVE TypeOK'
    BY <2>3 DEF TypeOK, Attach, execVars, finVars, CallerStates
  <2>4. ASSUME NEW l \in Loops, NEW i \in Ids, AnswerUnobserved(c, l, i) PROVE TypeOK'
    BY <2>4 DEF TypeOK, AnswerUnobserved, entryVars, execVars, finVars, CallerStates
  <2> QED
    BY <1>c, <2>1, <2>2, <2>3, <2>4 DEF CallStep
<1>w. ASSUME NEW c \in Callers, WakeStep(c) \/ CancelCaller(c) PROVE TypeOK'
  <2>0. ASSUME DropInflight(on[c]) PROVE inflight' \in [Loops \X Ids -> Entries \cup {None}]
    BY <2>0 DEF TypeOK, DropInflight
  <2>e. ASSUME waiters' = [waiters EXCEPT ![on[c]] = @ - 1] PROVE waiters' \in [Entries -> Int]
    <3>1. CASE on[c] \in Entries
      BY <2>e, <3>1 DEF TypeOK
    <3>2. CASE on[c] \notin Entries
      <4>1. \A x \in Entries : waiters[x] \in Int /\ x # on[c]
        BY <3>2 DEF TypeOK
      <4>2. waiters' = [x \in Entries |-> waiters[x]]
        BY <2>e, <4>1, Zenon DEF TypeOK
      <4> QED
        BY <4>1, <4>2
    <3> QED
      BY <3>1, <3>2
  <2>1. CASE WakeWithAnswer(c)
    <3>1. delivered' \in [Entries -> BOOLEAN]
      BY <2>1 DEF TypeOK, WakeWithAnswer
    <3>2. waiters' \in [Entries -> Int]
      BY <2>1, <2>e DEF TypeOK, WakeWithAnswer
    <3>4. caller' \in [Callers -> CallerStates]
      BY <2>1 DEF TypeOK, WakeWithAnswer, CallerStates
    <3> QED
      BY <2>0, <2>1, <3>1, <3>2, <3>4 DEF TypeOK, WakeWithAnswer, execVars, finVars
  <2>2. CASE WakeWithError(c)
    <3>1. waiters' \in [Entries -> Int]
      BY <2>2, <2>e DEF TypeOK, WakeWithError
    <3>4. caller' \in [Callers -> CallerStates]
      BY <2>2 DEF TypeOK, WakeWithError, CallerStates
    <3> QED
      BY <2>0, <2>2, <3>1, <3>4 DEF TypeOK, WakeWithError, execVars, finVars
  <2>3. ASSUME ReleaseCancelled(c) PROVE TypeOK'
    <3>1. cancelReq' \in [Entries -> BOOLEAN]
      BY <2>3 DEF TypeOK, ReleaseCancelled
    <3>2. waiters' \in [Entries -> Int]
      BY <2>3, <2>e DEF TypeOK, ReleaseCancelled
    <3>4. caller' \in [Callers -> CallerStates]
      BY <2>3 DEF TypeOK, ReleaseCancelled, CallerStates
    <3>3. inflight' \in [Loops \X Ids -> Entries \cup {None}]
      BY <2>0, <2>3 DEF TypeOK, ReleaseCancelled
    <3> QED
      BY <2>3, <3>1, <3>2, <3>3, <3>4 DEF TypeOK, ReleaseCancelled, execVars, finVars
  <2> QED
    BY <1>w, <2>1, <2>2, <2>3 DEF WakeStep, WakeWithCancel, CancelCaller
<1>e. ASSUME NEW e \in Entries, EntryStep(e) PROVE TypeOK'
  <2>u. ASSUME NEW out \in Outcomes, NEW failed \in BOOLEAN, Unwind(e, out, failed)
        PROVE /\ task' \in [Entries -> TaskStates]
              /\ outcome' \in [Entries -> Outcomes]
              /\ abandons' \in [Entries -> Nat]
              /\ fin' \in [Entries -> FinStates]
              /\ finFailed' \in [Entries -> BOOLEAN]
    BY <2>u DEF TypeOK, Unwind, RunOnAbandonOnce, EnsureFinalizer, TaskStates, FinStates
  <2>1. CASE StartEntry(e)
    BY <2>1, <2>u DEF TypeOK, StartEntry, execVars, finVars, callerVars, TaskStates, Outcomes
  <2>2. CASE CancelUnstarted(e)
    BY <2>2 DEF TypeOK, CancelUnstarted, execVars, finVars, callerVars, TaskStates, Outcomes
  <2>3. CASE FailPreparation(e)
    <3>1. /\ task' \in [Entries -> TaskStates]
          /\ abandons' \in [Entries -> Nat]
          /\ outcome' \in [Entries -> Outcomes]
      BY <2>3 DEF TypeOK, FailPreparation, Unwind, RunOnAbandonOnce, TaskStates, Outcomes
    <3>2. fin' \in [Entries -> FinStates] /\ finFailed' \in [Entries -> BOOLEAN]
      BY <2>3 DEF TypeOK, FailPreparation, Unwind, EnsureFinalizer, FinStates
    <3>3. cancelReq' \in [Entries -> BOOLEAN]
      BY <2>3 DEF TypeOK, FailPreparation
    <3> QED
      BY <2>3, <3>1, <3>2, <3>3 DEF TypeOK, FailPreparation, execVars, callerVars
  <2>4. CASE AdmitDuplicate(e)
    BY <2>4, <2>u DEF TypeOK, AdmitDuplicate, execVars, callerVars, Outcomes
  <2>5. CASE Commit(e)
    <3>1. seen' \in SUBSET Ids
      BY <2>5, BrokerAssumption DEF TypeOK, Commit, Committing
    <3> QED
      BY <2>5, <3>1 DEF TypeOK, Commit, Committing, finVars, callerVars, ExecStates, TaskStates
  <2>6. CASE ResumeEntry(e)
    BY <2>6, <2>u DEF TypeOK, ResumeEntry, Settled, execVars, callerVars, Outcomes
  <2>7. CASE FinishEntry(e)
    BY <2>7 DEF TypeOK, FinishEntry, execVars, finVars, callerVars, TaskStates, Outcomes
  <2>8. CASE CleanupEntry(e)
    <3>1. inflight' \in [Loops \X Ids -> Entries \cup {None}]
      BY <2>8 DEF TypeOK, CleanupEntry, DropInflight
    <3>2. task' \in [Entries -> TaskStates] /\ abandons' \in [Entries -> Nat]
      BY <2>8 DEF TypeOK, CleanupEntry, RunOnAbandonOnce, TaskStates
    <3>3. fin' \in [Entries -> FinStates] /\ finFailed' \in [Entries -> BOOLEAN]
      <4> DEFINE failed == outcome[e] \in {"error", "cancelled"}
      <4>1. CASE fin[e] = "gated"
        <5>1. /\ fin' = [fin EXCEPT ![e] = "opened"]
              /\ finFailed' = [finFailed EXCEPT ![e] = failed]
          BY <2>8, <4>1 DEF CleanupEntry, EnsureFinalizer
        <5>2. failed \in BOOLEAN
          OBVIOUS
        <5> HIDE DEF failed
        <5> QED
          BY <5>1, <5>2 DEF TypeOK, FinStates
      <4>2. CASE fin[e] # "gated"
        BY <2>8, <4>2 DEF TypeOK, CleanupEntry, EnsureFinalizer, FinStates
      <4> QED
        BY <4>1, <4>2
    <3> QED
      BY <2>8, <3>1, <3>2, <3>3 DEF TypeOK, CleanupEntry, execVars, callerVars
  <2> QED
    BY <1>e, <2>1, <2>2, <2>3, <2>4, <2>5, <2>6, <2>7, <2>8 DEF EntryStep
<1>f. ASSUME NEW e \in Entries, FinalizerStep(e) PROVE TypeOK'
  BY <1>f DEF TypeOK, FinalizerStep, StartFinalizer, FinishFinalizer, entryVars, execVars,
              callerVars, FinStates
<1>x. ASSUME NEW e \in Entries, ExecutionStep(e) PROVE TypeOK'
  BY <1>x DEF TypeOK, ExecutionStep, StartExecution, FinishExecution, CancelExecution,
              entryVars, finVars, callerVars, ExecStates
<1>k. CASE Crash
  BY <1>k DEF TypeOK, Crash, TaskStates, ExecStates, FinStates, CallerStates
<1>s. CASE UNCHANGED vars
  BY <1>s DEF TypeOK, vars, entryVars, execVars, finVars, callerVars
<1> QED
  BY <1>c, <1>w, <1>e, <1>f, <1>x, <1>k, <1>s DEF Next

(* The broker's variables always have the types their comments give: in       *)
(* particular an entry's outcome is one of the four its callers know how to   *)
(* answer, also after a crash or a cancellation at any await.                 *)
THEOREM TypeCorrect == Spec => []TypeOK
<1>1. Init => TypeOK
  BY DEF Init, TypeOK, TaskStates, Outcomes, ExecStates, FinStates, CallerStates
<1> QED
  BY <1>1, TypeStep, PTL DEF Spec
-----------------------------------------------------------------------------
(* The inductive invariant: where entries, callers, marks and executions can   *)
(* be together.                                                                *)

\* An entry that exists was made for a loop and an identity.
Made == \A e \in Entries : task[e] # "free" => loopOf[e] \in Loops /\ idOf[e] \in Ids

\* A caller that waits, or has its answer from an entry, has an entry that exists.
OnMade ==
    \A c \in Callers :
        caller[c] \in {"waiting", "result", "duplicate"} =>
            on[c] \in Entries /\ task[on[c]] # "free"

\* The map points to entries of its own key that exist.
MapSound ==
    \A k \in Loops \X Ids :
        inflight[k] # None => task[inflight[k]] # "free" /\ Key(inflight[k]) = k

\* An entry that may still commit, or has committed and not ended, is the one in
\* the map; one that may still commit has a waiter.
Kept ==
    \A e \in Entries :
        /\ task[e] \in {"created", "preparing"} /\ ~cancelReq[e] =>
              inflight[Key(e)] = e /\ waiters[e] > 0
        /\ task[e] = "parked" => inflight[Key(e)] = e

\* Which parts of an entry go with which.
Phases ==
    \A e \in Entries :
        /\ task[e] \in {"free", "created", "preparing"} => ~committed[e]
        /\ task[e] = "parked" => committed[e]
        /\ cancelReq[e] => ~committed[e]
        /\ ~committed[e] => exec[e] = "none"
        /\ exec[e] \in {"ready", "running"} => task[e] = "parked"
        /\ committed[e] => exec[e] # "none"
        /\ task[e] \in {"free", "created", "preparing", "parked"} => outcome[e] = "none"

\* A dispatch belongs to a commit and happens once.
Dispatch ==
    \A e \in Entries :
        /\ exec[e] \in {"none", "ready"} => runs[e] = 0
        /\ runs[e] <= 1

\* The durable mark of a committed entry is set and belongs to it alone; every
\* mark was set by a commit.
Marks ==
    /\ \A e \in Entries : committed[e] /\ idOf[e] \in Durable => idOf[e] \in seen
    /\ \A e, f \in Entries :
          committed[e] /\ committed[f] /\ idOf[e] = idOf[f] /\ idOf[e] \in Durable => e = f
    /\ \A i \in seen : \E e \in Entries : committed[e] /\ idOf[e] = i

\* Who has released the entry's resources.
Releases ==
    \A e \in Entries :
        /\ task[e] \in {"free", "created", "preparing"} => abandons[e] = 0
        /\ abandons[e] <= 1
        /\ committed[e] => abandons[e] = 0
        /\ releases[e] = (IF Settled(e) THEN 1 ELSE 0)
        /\ task[e] \in {"unwinding", "done", "cleaned"} /\ committed[e] => Settled(e)
        /\ task[e] \in {"unwinding", "cleaned"} /\ ~committed[e] => abandons[e] = 1

\* What callers were told.
Answers ==
    /\ \A c \in Callers : caller[c] = "result" => delivered[on[c]]
    /\ \A e \in Entries : outcome[e] = "duplicate" => idOf[e] \in seen
    /\ \A e \in Entries : delivered[e] \/ outcome[e] = "result" => committed[e]

\* When the finalizer's gate is still closed.
Gates ==
    \A e \in Entries :
        /\ task[e] \in {"free", "created", "preparing", "parked"} => fin[e] = "gated"
        /\ task[e] = "unwinding" => fin[e] # "gated"
        /\ task[e] = "done" /\ fin[e] = "gated" => outcome[e] = "cancelled" /\ exec[e] = "none"

\* The safety properties of RunBroker with what makes them inductive.
IInv ==
    /\ TypeOK /\ Made /\ OnMade /\ MapSound /\ Kept /\ Phases /\ Dispatch /\ Marks
    /\ Releases /\ Answers /\ Gates /\ FinalizerTruthful /\ SingleDelivery
    /\ DuplicateMeansAdmitted

-----------------------------------------------------------------------------
(* One lemma per action: it keeps the inductive invariant. *)

(* check_policy raises: only the caller changes. *)
LEMMA RejectKeeps ==
  ASSUME IInv, TypeOK', NEW c \in Callers, Reject(c)
  PROVE  IInv'
<1>1. Made' /\ MapSound' /\ Kept' /\ Phases' /\ Dispatch' /\ Marks' /\ Releases' /\ Gates'
      /\ FinalizerTruthful'
  BY DEF IInv, Made, MapSound, Key, Kept, Phases, Dispatch, Marks, Releases, Settled,
      Gates, FinalizerTruthful, Reject, entryVars, execVars, finVars
<1>2. OnMade'
  BY DEF IInv, TypeOK, OnMade, Reject, entryVars
<1>3. Answers'
  BY DEF IInv, TypeOK, Answers, Reject, entryVars
<1>4. SingleDelivery'
  BY DEF IInv, TypeOK, SingleDelivery, Reject
<1>5. DuplicateMeansAdmitted'
  BY DEF IInv, TypeOK, DuplicateMeansAdmitted, Reject, entryVars
<1> QED
  BY <1>1, <1>2, <1>3, <1>4, <1>5 DEF IInv

(* A caller creates an entry. *)
LEMMA LeadKeeps ==
  ASSUME IInv, TypeOK', NEW c \in Callers, NEW l \in Loops, NEW i \in Ids,
         NEW e \in Entries, Lead(c, l, i, e)
  PROVE  IInv'
<1>1. Dispatch'
  BY DEF IInv, Dispatch, Lead, execVars
<1>2. Made'
  BY DEF IInv, TypeOK, Made, Lead
<1>3. OnMade'
  BY DEF IInv, TypeOK, OnMade, Lead
<1>4. MapSound'
  BY DEF IInv, TypeOK, MapSound, Key, Lead
<1>5. Kept'
  BY BrokerAssumption DEF IInv, TypeOK, Kept, Key, MapSound, Made, Phases, Lead
<1>6. Phases'
  BY DEF IInv, TypeOK, Phases, Lead, execVars
<1>7. Marks'
  BY DEF IInv, TypeOK, Marks, Phases, Made, Lead
<1>8. Releases'
  BY DEF IInv, TypeOK, Releases, Settled, Lead, execVars, finVars
<1>9. Answers'
  BY DEF IInv, TypeOK, Answers, Phases, OnMade, Lead
<1>10. Gates'
  BY DEF IInv, TypeOK, Gates, Lead, execVars, finVars
<1>11. FinalizerTruthful'
  BY DEF IInv, TypeOK, FinalizerTruthful, Gates, Phases, Lead, execVars, finVars
<1>12. SingleDelivery'
  BY DEF IInv, TypeOK, SingleDelivery, Lead
<1>13. DuplicateMeansAdmitted'
  BY DEF IInv, TypeOK, DuplicateMeansAdmitted, Phases, OnMade, Lead
<1> QED
  BY <1>1, <1>2, <1>3, <1>4, <1>5, <1>6, <1>7, <1>8, <1>9, <1>10, <1>11, <1>12,
      <1>13 DEF IInv

(* A caller joins an entry. *)
LEMMA AttachKeeps ==
  ASSUME IInv, TypeOK', NEW c \in Callers, NEW l \in Loops, NEW i \in Ids, Attach(c, l, i)
  PROVE  IInv'
<1>1. Made' /\ MapSound' /\ Phases' /\ Dispatch' /\ Marks' /\ Releases' /\ Gates'
      /\ FinalizerTruthful'
  BY DEF IInv, Made, MapSound, Key, Phases, Dispatch, Marks, Releases, Settled, Gates,
      FinalizerTruthful, Attach, execVars, finVars
<1>2. OnMade'
  BY DEF IInv, TypeOK, OnMade, MapSound, Attach
<1>3. Kept'
  BY DEF IInv, TypeOK, Kept, Key, Attach
<1>4. Answers'
  BY DEF IInv, TypeOK, Answers, Attach
<1>5. SingleDelivery'
  BY DEF IInv, TypeOK, SingleDelivery, Attach
<1>6. DuplicateMeansAdmitted'
  BY DEF IInv, TypeOK, DuplicateMeansAdmitted, Attach
<1> QED
  BY <1>1, <1>2, <1>3, <1>4, <1>5, <1>6 DEF IInv

(* A retry of an unobserved run. *)
LEMMA AnswerUnobservedKeeps ==
  ASSUME IInv, TypeOK', NEW c \in Callers, NEW l \in Loops, NEW i \in Ids,
         AnswerUnobserved(c, l, i)
  PROVE  IInv'
<1>1. Made' /\ MapSound' /\ Kept' /\ Phases' /\ Dispatch' /\ Marks' /\ Releases' /\ Gates'
      /\ FinalizerTruthful'
  BY DEF IInv, Made, MapSound, Key, Kept, Phases, Dispatch, Marks, Releases, Settled,
      Gates, FinalizerTruthful, AnswerUnobserved, entryVars, execVars, finVars
<1>2. OnMade'
  BY DEF IInv, TypeOK, OnMade, MapSound, AnswerUnobserved, entryVars
<1>3. Answers'
  BY DEF IInv, TypeOK, Answers, AnswerUnobserved, entryVars
<1>4. SingleDelivery'
  BY DEF IInv, TypeOK, SingleDelivery, AnswerUnobserved
<1>5. DuplicateMeansAdmitted'
  BY DEF IInv, TypeOK, DuplicateMeansAdmitted, MapSound, AnswerUnobserved, entryVars
<1> QED
  BY <1>1, <1>2, <1>3, <1>4, <1>5 DEF IInv

(* The entry's first step. *)
LEMMA StartEntryKeeps ==
  ASSUME IInv, TypeOK', NEW e \in Entries, StartEntry(e)
  PROVE  IInv'
<1>1. Dispatch' /\ Marks' /\ SingleDelivery' /\ DuplicateMeansAdmitted'
  BY DEF IInv, Dispatch, Marks, SingleDelivery, DuplicateMeansAdmitted, StartEntry,
      execVars, callerVars
<1>2. Made'
  BY DEF IInv, TypeOK, Made, StartEntry, Unwind, RunOnAbandonOnce, EnsureFinalizer,
      execVars, finVars, callerVars
<1>3. OnMade'
  BY DEF IInv, TypeOK, OnMade, StartEntry, Unwind, RunOnAbandonOnce, EnsureFinalizer,
      execVars, finVars, callerVars
<1>4. MapSound'
  BY DEF IInv, TypeOK, MapSound, Key, StartEntry, Unwind, RunOnAbandonOnce,
      EnsureFinalizer, execVars, finVars, callerVars
<1>5. Kept'
  BY DEF IInv, TypeOK, Kept, Key, StartEntry, Unwind, RunOnAbandonOnce, EnsureFinalizer,
      execVars, finVars, callerVars
<1>6. Phases'
  BY DEF IInv, TypeOK, Phases, StartEntry, Unwind, RunOnAbandonOnce, EnsureFinalizer,
      execVars, finVars, callerVars
<1>7. Releases'
  BY DEF IInv, TypeOK, Releases, Settled, Phases, StartEntry, Unwind, RunOnAbandonOnce,
      EnsureFinalizer, execVars, finVars, callerVars
<1>8. Answers'
  BY DEF IInv, TypeOK, Answers, StartEntry, Unwind, RunOnAbandonOnce, EnsureFinalizer,
      execVars, finVars, callerVars
<1>9. Gates'
  BY DEF IInv, TypeOK, Gates, Phases, StartEntry, Unwind, RunOnAbandonOnce,
      EnsureFinalizer, execVars, finVars, callerVars
<1>10. FinalizerTruthful'
  BY DEF IInv, TypeOK, FinalizerTruthful, Gates, Phases, StartEntry, Unwind,
      RunOnAbandonOnce, EnsureFinalizer, execVars, finVars, callerVars
<1> QED
  BY <1>1, <1>2, <1>3, <1>4, <1>5, <1>6, <1>7, <1>8, <1>9, <1>10 DEF IInv

(* Cancelled before the first step. *)
LEMMA CancelUnstartedKeeps ==
  ASSUME IInv, TypeOK', NEW e \in Entries, CancelUnstarted(e)
  PROVE  IInv'
<1>1. Dispatch' /\ Marks' /\ FinalizerTruthful' /\ SingleDelivery'
      /\ DuplicateMeansAdmitted'
  BY DEF IInv, Dispatch, Marks, FinalizerTruthful, SingleDelivery, DuplicateMeansAdmitted,
      CancelUnstarted, execVars, finVars, callerVars
<1>2. Made'
  BY DEF IInv, TypeOK, Made, CancelUnstarted
<1>3. OnMade'
  BY DEF IInv, TypeOK, OnMade, CancelUnstarted, callerVars
<1>4. MapSound'
  BY DEF IInv, TypeOK, MapSound, Key, CancelUnstarted
<1>5. Kept'
  BY DEF IInv, TypeOK, Kept, Key, CancelUnstarted
<1>6. Phases'
  BY DEF IInv, TypeOK, Phases, CancelUnstarted, execVars
<1>7. Releases'
  BY DEF IInv, TypeOK, Releases, Settled, Phases, CancelUnstarted, execVars, finVars
<1>8. Answers'
  BY DEF IInv, TypeOK, Answers, CancelUnstarted, callerVars
<1>9. Gates'
  BY DEF IInv, TypeOK, Gates, Phases, CancelUnstarted, execVars, finVars
<1> QED
  BY <1>1, <1>2, <1>3, <1>4, <1>5, <1>6, <1>7, <1>8, <1>9 DEF IInv

(* Preparation raises or is cancelled. *)
LEMMA FailPreparationKeeps ==
  ASSUME IInv, TypeOK', NEW e \in Entries, FailPreparation(e)
  PROVE  IInv'
<1>1. Dispatch' /\ Marks' /\ SingleDelivery' /\ DuplicateMeansAdmitted'
  BY DEF IInv, Dispatch, Marks, SingleDelivery, DuplicateMeansAdmitted, FailPreparation,
      execVars, callerVars
<1>2. Made'
  BY DEF IInv, TypeOK, Made, FailPreparation, Unwind
<1>3. OnMade'
  BY DEF IInv, TypeOK, OnMade, FailPreparation, Unwind, callerVars
<1>4. MapSound'
  BY DEF IInv, TypeOK, MapSound, Key, FailPreparation, Unwind
<1>5. Kept'
  BY DEF IInv, TypeOK, Kept, Key, FailPreparation, Unwind
<1>6. Phases'
  BY DEF IInv, TypeOK, Phases, FailPreparation, Unwind, execVars
<1>7. Releases'
  BY DEF IInv, TypeOK, Releases, Settled, Phases, FailPreparation, Unwind,
      RunOnAbandonOnce, execVars
<1>8. Answers'
  BY DEF IInv, TypeOK, Answers, FailPreparation, Unwind, callerVars
<1>9. Gates'
  BY DEF IInv, TypeOK, Gates, Phases, FailPreparation, Unwind, EnsureFinalizer, execVars
<1>10. FinalizerTruthful'
  BY DEF IInv, TypeOK, FinalizerTruthful, Gates, Phases, FailPreparation, Unwind,
      EnsureFinalizer, execVars
<1> QED
  BY <1>1, <1>2, <1>3, <1>4, <1>5, <1>6, <1>7, <1>8, <1>9, <1>10 DEF IInv

(* The mark is refused. *)
LEMMA AdmitDuplicateKeeps ==
  ASSUME IInv, TypeOK', NEW e \in Entries, AdmitDuplicate(e)
  PROVE  IInv'
<1>1. Dispatch' /\ Marks' /\ SingleDelivery' /\ DuplicateMeansAdmitted'
  BY DEF IInv, Dispatch, Marks, SingleDelivery, DuplicateMeansAdmitted, AdmitDuplicate,
      execVars, callerVars
<1>2. Made'
  BY DEF IInv, TypeOK, Made, AdmitDuplicate, Unwind
<1>3. OnMade'
  BY DEF IInv, TypeOK, OnMade, AdmitDuplicate, Unwind, callerVars
<1>4. MapSound'
  BY DEF IInv, TypeOK, MapSound, Key, AdmitDuplicate, Unwind
<1>5. Kept'
  BY DEF IInv, TypeOK, Kept, Key, AdmitDuplicate, Unwind
<1>6. Phases'
  BY DEF IInv, TypeOK, Phases, AdmitDuplicate, Unwind, execVars
<1>7. Releases'
  BY DEF IInv, TypeOK, Releases, Settled, Phases, AdmitDuplicate, Unwind,
      RunOnAbandonOnce, execVars
<1>8. Answers'
  BY DEF IInv, TypeOK, Answers, AdmitDuplicate, Unwind, callerVars
<1>9. Gates'
  BY DEF IInv, TypeOK, Gates, Phases, AdmitDuplicate, Unwind, EnsureFinalizer, execVars
<1>10. FinalizerTruthful'
  BY DEF IInv, TypeOK, FinalizerTruthful, Gates, Phases, AdmitDuplicate, Unwind,
      EnsureFinalizer, execVars
<1> QED
  BY <1>1, <1>2, <1>3, <1>4, <1>5, <1>6, <1>7, <1>8, <1>9, <1>10 DEF IInv

(* The mark is consumed and the gate opened. *)
LEMMA CommitKeeps ==
  ASSUME IInv, TypeOK', NEW e \in Entries, Commit(e)
  PROVE  IInv'
<1>1. SingleDelivery'
  BY DEF IInv, SingleDelivery, Commit, Committing, callerVars
<1>2. Made'
  BY DEF IInv, TypeOK, Made, Commit, Committing
<1>3. OnMade'
  BY DEF IInv, TypeOK, OnMade, Commit, Committing, callerVars
<1>4. MapSound'
  BY DEF IInv, TypeOK, MapSound, Key, Commit, Committing
<1>5. Kept'
  BY DEF IInv, TypeOK, Kept, Key, Commit, Committing
<1>6. Phases'
  BY DEF IInv, TypeOK, Phases, Commit, Committing
<1>7. Dispatch'
  BY DEF IInv, TypeOK, Dispatch, Phases, Commit, Committing
<1>8. Marks'
  BY DEF IInv, TypeOK, Marks, Commit, Committing
<1>9. Releases'
  BY DEF IInv, TypeOK, Releases, Settled, Phases, Commit, Committing, finVars
<1>10. Answers'
  BY DEF IInv, TypeOK, Answers, Commit, Committing, callerVars
<1>11. Gates'
  BY DEF IInv, TypeOK, Gates, Phases, Commit, Committing, finVars
<1>12. FinalizerTruthful'
  BY DEF IInv, TypeOK, FinalizerTruthful, Gates, Phases, Commit, Committing, finVars
<1>13. DuplicateMeansAdmitted'
  BY DEF IInv, TypeOK, DuplicateMeansAdmitted, Commit, Committing, callerVars
<1> QED
  BY <1>1, <1>2, <1>3, <1>4, <1>5, <1>6, <1>7, <1>8, <1>9, <1>10, <1>11, <1>12,
      <1>13 DEF IInv

(* The stable child has settled. *)
LEMMA ResumeEntryKeeps ==
  ASSUME IInv, TypeOK', NEW e \in Entries, ResumeEntry(e)
  PROVE  IInv'
<1>0. PICK out \in {"result", "error", "cancelled"}, failed \in BOOLEAN :
          /\ Unwind(e, out, failed)
          /\ out = "result" => exec[e] = "ok"
          /\ IF failed THEN exec[e] # "ok" ELSE exec[e] = "ok"
  BY DEF ResumeEntry, Settled
<1>1. Dispatch' /\ Marks' /\ SingleDelivery' /\ DuplicateMeansAdmitted'
  BY DEF IInv, Dispatch, Marks, SingleDelivery, DuplicateMeansAdmitted, ResumeEntry,
      execVars, callerVars
<1>2. Made'
  BY <1>0 DEF IInv, TypeOK, Made, Settled, ResumeEntry, Unwind
<1>3. OnMade'
  BY <1>0 DEF IInv, TypeOK, OnMade, Settled, ResumeEntry, Unwind, callerVars
<1>4. MapSound'
  BY <1>0 DEF IInv, TypeOK, MapSound, Key, Settled, ResumeEntry, Unwind
<1>5. Kept'
  BY <1>0 DEF IInv, TypeOK, Kept, Key, Settled, ResumeEntry, Unwind
<1>6. Phases'
  BY <1>0 DEF IInv, TypeOK, Phases, Settled, ResumeEntry, Unwind, execVars
<1>7. Releases'
  BY <1>0 DEF IInv, TypeOK, Releases, Settled, Phases, ResumeEntry, Unwind,
      RunOnAbandonOnce, execVars
<1>8. Answers'
  BY <1>0 DEF IInv, TypeOK, Answers, Phases, Settled, ResumeEntry, Unwind, callerVars
<1>9. Gates'
  BY <1>0 DEF IInv, TypeOK, Gates, ResumeEntry, Unwind, EnsureFinalizer, execVars
<1>10. FinalizerTruthful'
  BY <1>0 DEF IInv, TypeOK, FinalizerTruthful, Gates, Phases, ResumeEntry, Unwind,
      EnsureFinalizer, execVars
<1> QED
  BY <1>1, <1>2, <1>3, <1>4, <1>5, <1>6, <1>7, <1>8, <1>9, <1>10 DEF IInv

(* The entry's task returns. *)
LEMMA FinishEntryKeeps ==
  ASSUME IInv, TypeOK', NEW e \in Entries, FinishEntry(e)
  PROVE  IInv'
<1>1. Dispatch' /\ Marks' /\ FinalizerTruthful' /\ SingleDelivery'
      /\ DuplicateMeansAdmitted'
  BY DEF IInv, Dispatch, Marks, FinalizerTruthful, SingleDelivery, DuplicateMeansAdmitted,
      FinishEntry, execVars, finVars, callerVars
<1>2. Made'
  BY DEF IInv, TypeOK, Made, FinishEntry
<1>3. OnMade'
  BY DEF IInv, TypeOK, OnMade, FinishEntry, callerVars
<1>4. MapSound'
  BY DEF IInv, TypeOK, MapSound, Key, FinishEntry
<1>5. Kept'
  BY DEF IInv, TypeOK, Kept, Key, FinishEntry
<1>6. Phases'
  BY DEF IInv, TypeOK, Phases, FinishEntry, execVars
<1>7. Releases'
  BY DEF IInv, TypeOK, Releases, Settled, FinishEntry, execVars, finVars
<1>8. Answers'
  BY DEF IInv, TypeOK, Answers, FinishEntry, callerVars
<1>9. Gates'
  BY DEF IInv, TypeOK, Gates, FinishEntry, execVars, finVars
<1> QED
  BY <1>1, <1>2, <1>3, <1>4, <1>5, <1>6, <1>7, <1>8, <1>9 DEF IInv

(* The done callback of the entry. *)
LEMMA CleanupEntryKeeps ==
  ASSUME IInv, TypeOK', NEW e \in Entries, CleanupEntry(e)
  PROVE  IInv'
<1>1. Dispatch' /\ Marks' /\ Answers' /\ SingleDelivery' /\ DuplicateMeansAdmitted'
  BY DEF IInv, Dispatch, Marks, Answers, SingleDelivery, DuplicateMeansAdmitted,
      CleanupEntry, execVars, callerVars
<1>2. Made'
  BY DEF IInv, TypeOK, Made, CleanupEntry
<1>3. OnMade'
  BY DEF IInv, TypeOK, OnMade, CleanupEntry, callerVars
<1>4. MapSound'
  BY DEF IInv, TypeOK, MapSound, Key, CleanupEntry, DropInflight
<1>5. Kept'
  BY DEF IInv, TypeOK, Kept, Key, CleanupEntry, DropInflight
<1>6. Phases'
  BY DEF IInv, TypeOK, Phases, CleanupEntry, execVars
<1>7. Releases'
  BY DEF IInv, TypeOK, Releases, Settled, CleanupEntry, RunOnAbandonOnce, execVars
<1>8. Gates'
  BY DEF IInv, TypeOK, Gates, CleanupEntry, EnsureFinalizer, execVars
<1>9. FinalizerTruthful'
  BY DEF IInv, TypeOK, FinalizerTruthful, Gates, Phases, CleanupEntry, EnsureFinalizer,
      execVars
<1> QED
  BY <1>1, <1>2, <1>3, <1>4, <1>5, <1>6, <1>7, <1>8, <1>9 DEF IInv

(* The finalizer's task. *)
LEMMA FinalizerKeeps ==
  ASSUME IInv, TypeOK', NEW e \in Entries, FinalizerStep(e)
  PROVE  IInv'
<1>1. Made' /\ OnMade' /\ MapSound' /\ Kept' /\ Phases' /\ Dispatch' /\ Marks'
      /\ Releases' /\ Answers' /\ SingleDelivery' /\ DuplicateMeansAdmitted'
  BY DEF IInv, Made, OnMade, MapSound, Key, Kept, Phases, Dispatch, Marks, Releases,
      Settled, Answers, SingleDelivery, DuplicateMeansAdmitted, FinalizerStep,
      StartFinalizer, FinishFinalizer, entryVars, execVars, callerVars
<1>2. Gates'
  BY DEF IInv, TypeOK, Gates, FinalizerStep, StartFinalizer, FinishFinalizer, entryVars,
      execVars
<1>3. FinalizerTruthful'
  BY DEF IInv, TypeOK, FinalizerTruthful, FinalizerStep, StartFinalizer, FinishFinalizer,
      entryVars, execVars
<1> QED
  BY <1>1, <1>2, <1>3 DEF IInv

(* The dispatch starts. *)
LEMMA StartExecutionKeeps ==
  ASSUME IInv, TypeOK', NEW e \in Entries, StartExecution(e)
  PROVE  IInv'
<1>1. Made' /\ OnMade' /\ MapSound' /\ Kept' /\ Marks' /\ Answers' /\ SingleDelivery'
      /\ DuplicateMeansAdmitted'
  BY DEF IInv, Made, OnMade, MapSound, Key, Kept, Marks, Answers, SingleDelivery,
      DuplicateMeansAdmitted, StartExecution, entryVars, callerVars
<1>2. Phases'
  BY DEF IInv, TypeOK, Phases, StartExecution, entryVars
<1>3. Dispatch'
  BY DEF IInv, TypeOK, Dispatch, StartExecution
<1>4. Releases'
  BY DEF IInv, TypeOK, Releases, Settled, StartExecution, entryVars, finVars
<1>5. Gates'
  BY DEF IInv, TypeOK, Gates, Phases, StartExecution, entryVars, finVars
<1>6. FinalizerTruthful'
  BY DEF IInv, TypeOK, FinalizerTruthful, Gates, Phases, StartExecution, entryVars,
      finVars
<1> QED
  BY <1>1, <1>2, <1>3, <1>4, <1>5, <1>6 DEF IInv

(* The dispatch ends. *)
LEMMA FinishExecutionKeeps ==
  ASSUME IInv, TypeOK', NEW e \in Entries, NEW how \in {"ok", "failed"},
         FinishExecution(e, how)
  PROVE  IInv'
<1>1. Made' /\ OnMade' /\ MapSound' /\ Kept' /\ Marks' /\ Answers' /\ SingleDelivery'
      /\ DuplicateMeansAdmitted'
  BY DEF IInv, Made, OnMade, MapSound, Key, Kept, Marks, Answers, SingleDelivery,
      DuplicateMeansAdmitted, FinishExecution, entryVars, callerVars
<1>2. Phases'
  BY DEF IInv, TypeOK, Phases, FinishExecution, entryVars
<1>3. Dispatch'
  BY DEF IInv, TypeOK, Dispatch, FinishExecution
<1>4. Releases'
  BY DEF IInv, TypeOK, Releases, Settled, Phases, FinishExecution, entryVars, finVars
<1>5. Gates'
  BY DEF IInv, TypeOK, Gates, Phases, FinishExecution, entryVars, finVars
<1>6. FinalizerTruthful'
  BY DEF IInv, TypeOK, FinalizerTruthful, Gates, Phases, FinishExecution, entryVars,
      finVars
<1> QED
  BY <1>1, <1>2, <1>3, <1>4, <1>5, <1>6 DEF IInv

(* The child is cancelled. *)
LEMMA CancelExecutionKeeps ==
  ASSUME IInv, TypeOK', NEW e \in Entries, CancelExecution(e)
  PROVE  IInv'
<1>1. Made' /\ OnMade' /\ MapSound' /\ Kept' /\ Marks' /\ Answers' /\ SingleDelivery'
      /\ DuplicateMeansAdmitted'
  BY DEF IInv, Made, OnMade, MapSound, Key, Kept, Marks, Answers, SingleDelivery,
      DuplicateMeansAdmitted, CancelExecution, entryVars, callerVars
<1>2. Phases'
  BY DEF IInv, TypeOK, Phases, CancelExecution, entryVars
<1>3. Dispatch'
  BY DEF IInv, TypeOK, Dispatch, CancelExecution
<1>4. Releases'
  BY DEF IInv, TypeOK, Releases, Settled, Phases, CancelExecution, entryVars, finVars
<1>5. Gates'
  BY DEF IInv, TypeOK, Gates, Phases, CancelExecution, entryVars, finVars
<1>6. FinalizerTruthful'
  BY DEF IInv, TypeOK, FinalizerTruthful, Gates, Phases, CancelExecution, entryVars,
      finVars
<1> QED
  BY <1>1, <1>2, <1>3, <1>4, <1>5, <1>6 DEF IInv

(* A waiter gets an answer. *)
LEMMA WakeWithAnswerKeeps ==
  ASSUME IInv, TypeOK', NEW c \in Callers, WakeWithAnswer(c)
  PROVE  IInv'
<1>1. Made' /\ Phases' /\ Dispatch' /\ Marks' /\ Releases' /\ Gates' /\ FinalizerTruthful'
  BY DEF IInv, Made, Phases, Dispatch, Marks, Releases, Settled, Gates, FinalizerTruthful,
      WakeWithAnswer, execVars, finVars
<1>2. OnMade'
  BY DEF IInv, TypeOK, OnMade, WakeWithAnswer, Ended
<1>3. MapSound'
  BY DEF IInv, TypeOK, MapSound, Key, WakeWithAnswer, Ended, DropInflight
<1>4. Kept'
  BY DEF IInv, TypeOK, Kept, Key, WakeWithAnswer, Ended, DropInflight
<1>5. Answers'
  BY DEF IInv, TypeOK, Answers, OnMade, WakeWithAnswer, Ended
<1>6. SingleDelivery'
  BY DEF IInv, TypeOK, SingleDelivery, OnMade, Answers, WakeWithAnswer, Ended
<1>7. DuplicateMeansAdmitted'
  BY DEF IInv, TypeOK, DuplicateMeansAdmitted, Answers, Marks, OnMade, WakeWithAnswer,
      Ended
<1> QED
  BY <1>1, <1>2, <1>3, <1>4, <1>5, <1>6, <1>7 DEF IInv

(* A waiter gets the error. *)
LEMMA WakeWithErrorKeeps ==
  ASSUME IInv, TypeOK', NEW c \in Callers, WakeWithError(c)
  PROVE  IInv'
<1>1. Made' /\ Phases' /\ Dispatch' /\ Marks' /\ Releases' /\ Gates' /\ FinalizerTruthful'
  BY DEF IInv, Made, Phases, Dispatch, Marks, Releases, Settled, Gates, FinalizerTruthful,
      WakeWithError, execVars, finVars
<1>2. OnMade'
  BY DEF IInv, TypeOK, OnMade, WakeWithError, Ended
<1>3. MapSound'
  BY DEF IInv, TypeOK, MapSound, Key, WakeWithError, Ended, DropInflight
<1>4. Kept'
  BY DEF IInv, TypeOK, Kept, Key, WakeWithError, Ended, DropInflight
<1>5. Answers'
  BY DEF IInv, TypeOK, Answers, WakeWithError, Ended
<1>6. SingleDelivery'
  BY DEF IInv, TypeOK, SingleDelivery, WakeWithError, Ended
<1>7. DuplicateMeansAdmitted'
  BY DEF IInv, TypeOK, DuplicateMeansAdmitted, WakeWithError, Ended
<1> QED
  BY <1>1, <1>2, <1>3, <1>4, <1>5, <1>6, <1>7 DEF IInv

(* A waiter is cancelled. *)
LEMMA ReleaseCancelledKeeps ==
  ASSUME IInv, TypeOK', NEW c \in Callers, caller[c] = "waiting", ReleaseCancelled(c)
  PROVE  IInv'
<1>1. Made' /\ Dispatch' /\ Marks' /\ Releases' /\ Gates' /\ FinalizerTruthful'
  BY DEF IInv, Made, Dispatch, Marks, Releases, Settled, Gates, FinalizerTruthful,
      ReleaseCancelled, execVars, finVars
<1>2. OnMade'
  BY DEF IInv, TypeOK, OnMade, ReleaseCancelled, Alive
<1>3. MapSound'
  BY DEF IInv, TypeOK, MapSound, Key, ReleaseCancelled, Alive, DropInflight
<1>4. Kept'
  <2> SUFFICES ASSUME NEW f \in Entries
               PROVE  /\ task[f] \in {"created", "preparing"} /\ ~cancelReq'[f] =>
                            inflight'[Key(f)] = f /\ waiters'[f] > 0
                      /\ task[f] = "parked" => inflight'[Key(f)] = f
    BY DEF Kept, Key, ReleaseCancelled
  <2>1. on[c] \in Entries
    BY DEF IInv, OnMade
  <2>2. task[f] # "free" => Key(f) \in Loops \X Ids
    BY DEF IInv, Made, Key
  <2>3. CASE f # on[c]
    <3>1. cancelReq'[f] = cancelReq[f] /\ waiters'[f] = waiters[f]
      BY <2>1, <2>3 DEF IInv, TypeOK, ReleaseCancelled
    <3>2. Key(f) \in Loops \X Ids /\ inflight[Key(f)] = f => inflight'[Key(f)] = f
      BY <2>3 DEF IInv, TypeOK, ReleaseCancelled, DropInflight
    <3> QED
      BY <2>2, <3>1, <3>2 DEF IInv, Kept
  <2>4. CASE f = on[c]
    BY <2>1, <2>2, <2>4 DEF IInv, TypeOK, Kept, Phases, ReleaseCancelled, Alive
  <2> QED
    BY <2>3, <2>4
<1>5. Phases'
  BY DEF IInv, TypeOK, Phases, ReleaseCancelled, Alive, execVars
<1>6. Answers'
  BY DEF IInv, TypeOK, Answers, ReleaseCancelled, Alive
<1>7. SingleDelivery'
  BY DEF IInv, TypeOK, SingleDelivery, ReleaseCancelled, Alive
<1>8. DuplicateMeansAdmitted'
  BY DEF IInv, TypeOK, DuplicateMeansAdmitted, ReleaseCancelled, Alive
<1> QED
  BY <1>1, <1>2, <1>3, <1>4, <1>5, <1>6, <1>7, <1>8 DEF IInv

(* The process dies. *)
LEMMA CrashKeeps ==
  ASSUME IInv, TypeOK', Crash
  PROVE  IInv'
<1>1. Marks'
  BY DEF IInv, Marks, Crash
<1>2. Made'
  BY DEF IInv, TypeOK, Made, Crash
<1>3. OnMade'
  BY DEF IInv, TypeOK, OnMade, Crash
<1>4. MapSound'
  BY DEF IInv, TypeOK, MapSound, Key, Crash
<1>5. Kept'
  BY DEF IInv, TypeOK, Kept, Key, Crash
<1>6. Phases'
  BY DEF IInv, TypeOK, Phases, Crash
<1>7. Dispatch'
  BY DEF IInv, TypeOK, Dispatch, Crash
<1>8. Releases'
  BY DEF IInv, TypeOK, Releases, Settled, Crash
<1>9. Answers'
  BY DEF IInv, TypeOK, Answers, Crash
<1>10. Gates'
  BY DEF IInv, TypeOK, Gates, Crash
<1>11. FinalizerTruthful'
  BY DEF IInv, TypeOK, FinalizerTruthful, Crash
<1>12. SingleDelivery'
  BY DEF IInv, TypeOK, SingleDelivery, Crash
<1>13. DuplicateMeansAdmitted'
  BY DEF IInv, TypeOK, DuplicateMeansAdmitted, Crash
<1> QED
  BY <1>1, <1>2, <1>3, <1>4, <1>5, <1>6, <1>7, <1>8, <1>9, <1>10, <1>11, <1>12,
      <1>13 DEF IInv

(* Nothing changes. *)
LEMMA StutterKeeps ==
  ASSUME IInv, TypeOK', UNCHANGED vars
  PROVE  IInv'
<1>1. Made' /\ OnMade' /\ MapSound' /\ Kept' /\ Phases' /\ Dispatch' /\ Marks'
      /\ Releases' /\ Answers' /\ Gates' /\ FinalizerTruthful' /\ SingleDelivery'
      /\ DuplicateMeansAdmitted'
  BY DEF IInv, Made, OnMade, MapSound, Key, Kept, Phases, Dispatch, Marks, Releases,
      Settled, Answers, Gates, FinalizerTruthful, SingleDelivery, DuplicateMeansAdmitted,
      vars, entryVars, execVars, finVars, callerVars
<1> QED
  BY <1>1 DEF IInv

-----------------------------------------------------------------------------
(* Every step keeps the inductive invariant. *)
LEMMA InvariantStep == IInv /\ [Next]_vars => IInv'
<1> SUFFICES ASSUME IInv, [Next]_vars PROVE IInv'
    OBVIOUS
<1>t. TypeOK'
  BY TypeStep DEF IInv
<1>1. ASSUME NEW c \in Callers, CallStep(c) PROVE IInv'
  BY <1>1, <1>t, RejectKeeps, LeadKeeps, AttachKeeps, AnswerUnobservedKeeps DEF CallStep
<1>2. ASSUME NEW c \in Callers, WakeStep(c) \/ CancelCaller(c) PROVE IInv'
  BY <1>2, <1>t, WakeWithAnswerKeeps, WakeWithErrorKeeps, ReleaseCancelledKeeps
     DEF WakeStep, WakeWithCancel, CancelCaller
<1>3. ASSUME NEW e \in Entries, EntryStep(e) PROVE IInv'
  BY <1>3, <1>t, StartEntryKeeps, CancelUnstartedKeeps, FailPreparationKeeps,
     AdmitDuplicateKeeps, CommitKeeps, ResumeEntryKeeps, FinishEntryKeeps,
     CleanupEntryKeeps DEF EntryStep
<1>4. ASSUME NEW e \in Entries, FinalizerStep(e) PROVE IInv'
  BY <1>4, <1>t, FinalizerKeeps
<1>5. ASSUME NEW e \in Entries, ExecutionStep(e) PROVE IInv'
  BY <1>5, <1>t, StartExecutionKeeps, FinishExecutionKeeps, CancelExecutionKeeps
     DEF ExecutionStep
<1>6. CASE Crash
  BY <1>6, <1>t, CrashKeeps
<1>7. CASE UNCHANGED vars
  BY <1>7, <1>t, StutterKeeps
<1> QED
  BY <1>1, <1>2, <1>3, <1>4, <1>5, <1>6, <1>7 DEF Next

(* The inductive invariant holds in every reachable state. *)
LEMMA Invariant == Spec => []IInv
<1>1. Init => TypeOK
  BY DEF Init, TypeOK, TaskStates, Outcomes, ExecStates, FinStates, CallerStates
<1>2. Init => IInv
  BY <1>1 DEF Init, IInv, Made, OnMade, MapSound, Kept, Phases, Dispatch, Marks, Releases,
      Settled, Answers, Gates, FinalizerTruthful, SingleDelivery, DuplicateMeansAdmitted
<1> QED
  BY <1>2, InvariantStep, PTL DEF Spec

-----------------------------------------------------------------------------
(* The theorems. *)

(* A durable identity is dispatched at most once, whatever the number of      *)
(* loops, entries, retries, cancellations and crashes: the mark that          *)
(* _consume_idempotency sets belongs to one committed entry, and the gate of  *)
(* its child opens once.                                                      *)
THEOREM ExecutesAtMostOnce == Spec => []AtMostOneExecution
<1>1. IInv => AtMostOneExecution
  <2> SUFFICES ASSUME IInv PROVE AtMostOneExecution
    OBVIOUS
  <2>1. \A e \in Entries : runs[e] > 0 => committed[e]
    BY DEF IInv, TypeOK, Phases, Dispatch
  <2> QED
    BY <2>1 DEF IInv, Dispatch, Marks, AtMostOneExecution
<1> QED
  BY <1>1, Invariant, PTL

(* Two executions of one identity never overlap on one loop, with or without  *)
(* a dedupe record: a committed entry stays in _EXECUTION_INFLIGHT until its  *)
(* task has ended, so that nobody can lead a second one.                      *)
THEOREM NeverOverlaps == Spec => []NoOverlappingRuns
<1>1. IInv => NoOverlappingRuns
  BY DEF IInv, Kept, Phases, NoOverlappingRuns
<1> QED
  BY <1>1, Invariant, PTL

(* At most one of the callers that share an entry is handed its result.       *)
THEOREM DeliversOnce == Spec => []SingleDelivery
<1>1. IInv => SingleDelivery
  BY DEF IInv
<1> QED
  BY <1>1, Invariant, PTL

(* Staged resources are released exactly once, by on_abandon before a commit  *)
(* or by on_execution_done after it, also when the entry's task is cancelled  *)
(* before its first step.                                                     *)
THEOREM ReleasesOnce == Spec => []ReleasedOnce
<1>1. IInv => ReleasedOnce
  BY DEF IInv, TypeOK, Phases, Releases, Settled, ReleasedOnce
<1> QED
  BY <1>1, Invariant, PTL

\* A durable submission is executed at most once, answered once and cleaned up once
\* (prepare_and_execute), for any number of loops, callers and crashes.
THEOREM SubmissionExactlyOnce == Spec => []ExactlyOnce
<1> QED
  BY ExecutesAtMostOnce, DeliversOnce, ReleasesOnce, PTL DEF ExactlyOnce

(* A caller is told "duplicate" only for an identity that was admitted: a     *)
(* failed or cancelled preparation never consumes the key.                    *)
THEOREM NoFalseDuplicate == Spec => []DuplicateMeansAdmitted
<1>1. IInv => DuplicateMeansAdmitted
  BY DEF IInv
<1> QED
  BY <1>1, Invariant, PTL

(* on_entry_done is told failed=False only for a successful execution or a    *)
(* durable duplicate, and failed=True only when the execution did not succeed.*)
THEOREM FinalizerTellsTheTruth == Spec => []FinalizerTruthful
<1>1. IInv => FinalizerTruthful
  BY DEF IInv
<1> QED
  BY <1>1, Invariant, PTL

(* An uncommitted entry that nobody waits for never commits: its last waiter  *)
(* requested the cancellation, which is delivered before the mark.            *)
THEOREM AbandonedStaysAbandoned == Spec => AbandonedNeverCommits
<1> DEFINE Stays == \A e \in Entries : waiters[e] = 0 /\ ~committed[e] => ~committed'[e]
<1>1. IInv /\ [Next]_vars => [Stays]_vars
  <2> SUFFICES ASSUME IInv, Next PROVE Stays
    OBVIOUS
  <2>1. ASSUME NEW e \in Entries, Commit(e) PROVE Stays
    BY <2>1 DEF IInv, TypeOK, Kept, Commit, Committing
  <2>2. ASSUME committed' = committed PROVE Stays
    BY <2>2
  <2>3. \/ \E e \in Entries : Commit(e)
        \/ committed' = committed
    <3>1. ASSUME NEW c \in Callers, CallStep(c) PROVE committed' = committed
      BY <3>1 DEF CallStep, Reject, Lead, Attach, AnswerUnobserved, entryVars
    <3>2. ASSUME NEW c \in Callers, WakeStep(c) \/ CancelCaller(c)
          PROVE  committed' = committed
      BY <3>2 DEF WakeStep, WakeWithAnswer, WakeWithError, WakeWithCancel, CancelCaller,
          ReleaseCancelled
    <3>3. ASSUME NEW e \in Entries, EntryStep(e), ~Commit(e) PROVE committed' = committed
      BY <3>3 DEF EntryStep, StartEntry, CancelUnstarted, FailPreparation, AdmitDuplicate,
          ResumeEntry, FinishEntry, CleanupEntry
    <3>4. ASSUME NEW e \in Entries, FinalizerStep(e) \/ ExecutionStep(e)
          PROVE  committed' = committed
      BY <3>4 DEF FinalizerStep, StartFinalizer, FinishFinalizer, ExecutionStep,
          StartExecution, FinishExecution, CancelExecution, entryVars
    <3>5. Crash => committed' = committed
      BY DEF Crash
    <3> QED
      BY <3>1, <3>2, <3>3, <3>4, <3>5 DEF Next
  <2> QED
    BY <2>1, <2>2, <2>3
<1> QED
  BY <1>1, Invariant, PTL DEF Spec, AbandonedNeverCommits

-----------------------------------------------------------------------------
(* Nobody hangs.  What is in progress always has a step of its own that it     *)
(* can take, or one of the task it awaits: the safety half of EveryoneSettles. *)

\* Can a task take its next step?  The guards of EntryStep, FinalizerStep, ExecutionStep
\* and WakeStep, without what the steps do.
EntryCanGo(e) ==
    \/ task[e] \in {"created", "preparing", "done"}
    \/ task[e] = "parked" /\ Settled(e)
    \/ task[e] = "unwinding" /\ (cancelReq[e] \/ fin[e] = "finished")

FinalizerCanGo(e) == fin[e] \in {"opened", "running"}

ExecutionCanGo(e) == exec[e] \in {"ready", "running"}

CallerCanWake(c) == Ended(on[c]) /\ outcome[on[c]] # "none"

\* An entry that was opened and not cleaned up has a task that runs, a caller that waits
\* will be woken or waits on such an entry, and an entry that is cleaned up has its
\* finalizer told, unless the process died.
NobodyHangs ==
    /\ \A e \in Entries :
          Alive(e) \/ task[e] = "done" => EntryCanGo(e) \/ FinalizerCanGo(e) \/ ExecutionCanGo(e)
    /\ \A c \in Callers : caller[c] = "waiting" => Alive(on[c]) \/ CallerCanWake(c)
    /\ \A e \in Entries : task[e] = "cleaned" => FinalizerCanGo(e) \/ fin[e] \in {"finished", "dead"}

\* What the process had in hand died with it, all at once; what ended has an outcome, and
\* an entry's gate is open before anybody waits for it.
DeadTogether ==
    /\ \A k \in Loops \X Ids : inflight[k] # None => task[inflight[k]] # "dead"
    /\ \A c \in Callers : caller[c] = "waiting" => task[on[c]] # "dead"
    /\ \A e \in Entries :
          /\ Alive(e) \/ task[e] = "done" => fin[e] # "dead"
          /\ task[e] = "parked" => exec[e] # "dead"

EndsTold ==
    \A e \in Entries :
        /\ task[e] \in {"unwinding", "done", "cleaned"} => outcome[e] # "none"
        /\ task[e] = "cleaned" => fin[e] # "gated"

HangInv == DeadTogether /\ EndsTold

(* Callers that come, wake or are cancelled leave the tasks alone.             *)
LEMMA CallerHang ==
  ASSUME IInv, IInv', HangInv, NEW c \in Callers, CallStep(c) \/ WakeStep(c) \/ CancelCaller(c)
  PROVE  HangInv'
<1>1. ASSUME NEW l \in Loops, NEW i \in Ids, NEW e \in Entries, Lead(c, l, i, e) PROVE HangInv'
  <2>1. \A f \in Entries : task'[f] = IF f = e THEN "created" ELSE task[f]
    BY <1>1 DEF IInv, TypeOK, Lead
  <2>2. fin[e] = "gated" /\ exec[e] = "none"
    BY <1>1 DEF IInv, Lead, Gates, Phases
  <2>3. \A k \in Loops \X Ids : inflight'[k] # None => task'[inflight'[k]] # "dead"
    BY <1>1, <2>1 DEF IInv, TypeOK, HangInv, DeadTogether, Lead
  <2>4. \A d \in Callers : caller'[d] = "waiting" => task'[on'[d]] # "dead"
    <3> SUFFICES ASSUME NEW d \in Callers, caller'[d] = "waiting" PROVE task'[on'[d]] # "dead"
      OBVIOUS
    <3>1. CASE d = c
      BY <1>1, <2>1, <3>1 DEF IInv, TypeOK, Lead
    <3>2. CASE d # c
      BY <1>1, <2>1, <3>2 DEF IInv, TypeOK, OnMade, HangInv, DeadTogether, Lead
    <3> QED
      BY <3>1, <3>2
  <2> QED
    BY <1>1, <2>1, <2>2, <2>3, <2>4
       DEF HangInv, DeadTogether, EndsTold, Alive, Lead, execVars, finVars
<1>2. ASSUME NEW l \in Loops, NEW i \in Ids, Attach(c, l, i) PROVE HangInv'
  <2>1. \A d \in Callers : caller'[d] = "waiting" => task'[on'[d]] # "dead"
    BY <1>2 DEF IInv, TypeOK, HangInv, DeadTogether, Attach
  <2> QED
    BY <1>2, <2>1 DEF HangInv, DeadTogether, EndsTold, Alive, Attach, execVars, finVars
<1>3. ASSUME Reject(c) \/ \E l \in Loops, i \in Ids : AnswerUnobserved(c, l, i) PROVE HangInv'
  <2>1. \A d \in Callers : caller'[d] = "waiting" => caller[d] = "waiting" /\ on'[d] = on[d]
    BY <1>3 DEF IInv, TypeOK, Reject, AnswerUnobserved
  <2>2. UNCHANGED <<inflight, task, outcome, exec, fin>>
    BY <1>3 DEF Reject, AnswerUnobserved, entryVars, execVars, finVars
  <2> QED
    BY <2>1, <2>2 DEF HangInv, DeadTogether, EndsTold, Alive
<1>4. ASSUME WakeStep(c) \/ CancelCaller(c) PROVE HangInv'
  <2>1. \A d \in Callers : caller'[d] = "waiting" => caller[d] = "waiting" /\ on'[d] = on[d]
    BY <1>4 DEF IInv, TypeOK, WakeStep, WakeWithAnswer, WakeWithError, WakeWithCancel,
       CancelCaller, ReleaseCancelled
  <2>2. UNCHANGED <<task, outcome, exec, fin>>
    BY <1>4 DEF WakeStep, WakeWithAnswer, WakeWithError, WakeWithCancel, CancelCaller,
       ReleaseCancelled, execVars, finVars
  <2>3. \A k \in Loops \X Ids : inflight'[k] # None => inflight'[k] = inflight[k]
    BY <1>4 DEF IInv, TypeOK, WakeStep, WakeWithAnswer, WakeWithError, WakeWithCancel,
       CancelCaller, ReleaseCancelled, DropInflight
  <2> QED
    BY <2>1, <2>2, <2>3 DEF HangInv, DeadTogether, EndsTold, Alive
<1> QED
  BY <1>1, <1>2, <1>3, <1>4 DEF CallStep

(* The entry's task: the finally block opens the finalizer's gate, and the done *)
(* callback does when the body never ran.                                       *)
LEMMA EntryHang ==
  ASSUME IInv, HangInv, NEW e \in Entries, EntryStep(e)
  PROVE  HangInv'
<1>1. /\ UNCHANGED <<caller, on>>
      /\ \A k \in Loops \X Ids : inflight'[k] # None => inflight'[k] = inflight[k]
  BY DEF IInv, TypeOK, EntryStep, StartEntry, CancelUnstarted, FailPreparation, AdmitDuplicate,
     Commit, Committing, ResumeEntry, FinishEntry, CleanupEntry, DropInflight, callerVars
<1>2. \A f \in Entries : f # e => /\ task'[f] = task[f] /\ outcome'[f] = outcome[f]
                                  /\ fin'[f] = fin[f] /\ exec'[f] = exec[f]
  <2>u. ASSUME NEW out, NEW failed, Unwind(e, out, failed)
        PROVE  \A f \in Entries : f # e =>
                  task'[f] = task[f] /\ outcome'[f] = outcome[f] /\ fin'[f] = fin[f]
    BY <2>u DEF IInv, TypeOK, Unwind, EnsureFinalizer
  <2>1. CASE StartEntry(e)
    BY <2>1, <2>u DEF IInv, TypeOK, StartEntry, execVars, finVars
  <2>2. CASE FailPreparation(e) \/ AdmitDuplicate(e) \/ ResumeEntry(e)
    <3>1. exec' = exec
      BY <2>2 DEF FailPreparation, AdmitDuplicate, ResumeEntry, execVars
    <3>2. \E out, failed : Unwind(e, out, failed)
      BY <2>2 DEF FailPreparation, AdmitDuplicate, ResumeEntry, Settled
    <3> QED
      BY <2>u, <3>1, <3>2
  <2>3. CASE CancelUnstarted(e) \/ Commit(e) \/ FinishEntry(e)
    BY <2>3 DEF IInv, TypeOK, CancelUnstarted, Commit, Committing, FinishEntry, execVars, finVars
  <2>4. CASE CleanupEntry(e)
    BY <2>4 DEF IInv, TypeOK, CleanupEntry, EnsureFinalizer, execVars
  <2> QED
    BY <2>1, <2>2, <2>3, <2>4 DEF EntryStep
<1> DEFINE Sound == /\ task'[e] \in {"preparing", "parked", "unwinding", "done", "cleaned"}
                    /\ task'[e] = "parked" => exec'[e] # "dead"
                    /\ task'[e] \in {"unwinding", "done", "cleaned"} => outcome'[e] # "none"
                    /\ task'[e] = "cleaned" => fin'[e] # "gated"
                    /\ fin'[e] # "dead"
<1>3. Sound
  <2>0. fin[e] # "dead"
    BY DEF HangInv, DeadTogether, Alive, EntryStep, StartEntry, CancelUnstarted,
       FailPreparation, AdmitDuplicate, Commit, ResumeEntry, FinishEntry, CleanupEntry
  <2>u. ASSUME NEW out \in Outcomes \ {"none"}, NEW failed, Unwind(e, out, failed) PROVE Sound
    BY <2>0, <2>u DEF IInv, TypeOK, Unwind, EnsureFinalizer
  <2>1. CASE StartEntry(e)
    <3>1. CASE idOf[e] \in seen
      BY <2>1, <3>1, <2>u DEF StartEntry, Outcomes
    <3>2. CASE idOf[e] \notin seen
      BY <2>0, <2>1, <3>2 DEF IInv, TypeOK, StartEntry, finVars
    <3> QED
      BY <3>1, <3>2
  <2>2. CASE CancelUnstarted(e)
    BY <2>0, <2>2 DEF IInv, TypeOK, CancelUnstarted, finVars
  <2>3. CASE FailPreparation(e)
    <3>1. CASE cancelReq[e]
      BY <2>3, <3>1, <2>u DEF FailPreparation, Outcomes
    <3>2. CASE ~cancelReq[e]
      BY <2>3, <3>2, <2>u DEF FailPreparation, Outcomes
    <3> QED
      BY <3>1, <3>2
  <2>4. CASE AdmitDuplicate(e)
    BY <2>4, <2>u DEF AdmitDuplicate, Outcomes
  <2>5. CASE Commit(e)
    BY <2>0, <2>5 DEF IInv, TypeOK, Commit, Committing, finVars
  <2>6. CASE ResumeEntry(e)
    BY <2>6, <2>u DEF ResumeEntry, Settled, Outcomes
  <2>7. CASE FinishEntry(e)
    BY <2>0, <2>7 DEF IInv, TypeOK, HangInv, EndsTold, FinishEntry, finVars
  <2>8. CASE CleanupEntry(e)
    BY <2>0, <2>8 DEF IInv, TypeOK, HangInv, EndsTold, CleanupEntry, EnsureFinalizer
  <2> HIDE DEF Sound
  <2> QED
    BY <2>1, <2>2, <2>3, <2>4, <2>5, <2>6, <2>7, <2>8 DEF EntryStep
<1>4. task'[e] # "dead"
  BY <1>3
<1>5. /\ \A k \in Loops \X Ids : inflight'[k] # None => task'[inflight'[k]] # "dead"
      /\ \A c \in Callers : caller'[c] = "waiting" => task'[on'[c]] # "dead"
  BY <1>1, <1>2, <1>4 DEF IInv, TypeOK, OnMade, HangInv, DeadTogether
<1>6. ASSUME NEW f \in Entries
      PROVE  /\ Alive(f)' \/ task'[f] = "done" => fin'[f] # "dead"
             /\ task'[f] = "parked" => exec'[f] # "dead"
             /\ task'[f] \in {"unwinding", "done", "cleaned"} => outcome'[f] # "none"
             /\ task'[f] = "cleaned" => fin'[f] # "gated"
  <2>1. CASE f = e
    BY <1>3, <2>1
  <2>2. CASE f # e
    BY <1>2, <2>2 DEF HangInv, DeadTogether, EndsTold, Alive
  <2> QED
    BY <2>1, <2>2
<1> QED
  BY <1>5, <1>6 DEF HangInv, DeadTogether, EndsTold

(* The tasks an entry awaits move on by themselves.                             *)
LEMMA AwaitedHang ==
  ASSUME IInv, HangInv, NEW e \in Entries, FinalizerStep(e) \/ ExecutionStep(e)
  PROVE  HangInv'
<1>1. UNCHANGED <<inflight, task, outcome, caller, on>>
  BY DEF FinalizerStep, StartFinalizer, FinishFinalizer, ExecutionStep, StartExecution,
     FinishExecution, CancelExecution, entryVars, callerVars
<1>2. \A f \in Entries : /\ fin'[f] = "dead" => fin[f] = "dead"
                         /\ fin'[f] = "gated" => fin[f] = "gated"
                         /\ exec'[f] = "dead" => exec[f] = "dead"
  BY DEF IInv, TypeOK, FinalizerStep, StartFinalizer, FinishFinalizer, ExecutionStep,
     StartExecution, FinishExecution, CancelExecution, finVars, execVars
<1> QED
  BY <1>1, <1>2 DEF HangInv, DeadTogether, EndsTold, Alive

(* A crash takes the map, the tasks and the callers together.                   *)
LEMMA CrashHang == ASSUME IInv, HangInv, Crash PROVE HangInv'
<1>1. /\ \A k \in Loops \X Ids : inflight'[k] = None
      /\ \A c \in Callers : caller'[c] # "waiting"
      /\ outcome' = outcome
  BY DEF IInv, TypeOK, Crash
<1>2. \A e \in Entries : /\ task'[e] \in {"free", "cleaned", "dead"}
                         /\ task'[e] = "cleaned" => task[e] = "cleaned"
                         /\ fin'[e] = "gated" => fin[e] = "gated"
  BY DEF IInv, TypeOK, Crash
<1> QED
  BY <1>1, <1>2 DEF HangInv, DeadTogether, EndsTold, Alive

(* Nobody hangs, the safety half of EveryoneSettles: no order of cancellations, *)
(* failures and duplicates leaves a caller, an entry or a finalizer of          *)
(* run_broker.py waiting for a task that waits itself.                          *)
THEOREM NobodyIsLeftHanging == Spec => []NobodyHangs
<1>1. Init => HangInv
  BY DEF Init, HangInv, DeadTogether, EndsTold, Alive
<1>2. IInv /\ IInv' /\ HangInv /\ [Next]_vars => HangInv'
  <2> SUFFICES ASSUME IInv, IInv', HangInv, [Next]_vars PROVE HangInv'
    OBVIOUS
  <2>1. CASE UNCHANGED vars
    BY <2>1 DEF vars, entryVars, execVars, finVars, callerVars, HangInv, DeadTogether,
       EndsTold, Alive
  <2> QED
    BY <2>1, CallerHang, EntryHang, AwaitedHang, CrashHang DEF Next
<1>3. IInv /\ HangInv => NobodyHangs
  <2> SUFFICES ASSUME IInv, HangInv PROVE NobodyHangs
    OBVIOUS
  <2>1. ASSUME NEW e \in Entries, Alive(e) \/ task[e] = "done"
        PROVE  EntryCanGo(e) \/ FinalizerCanGo(e) \/ ExecutionCanGo(e)
    BY <2>1 DEF IInv, TypeOK, Phases, Gates, HangInv, DeadTogether, Alive, Settled,
       ExecStates, FinStates, EntryCanGo, FinalizerCanGo, ExecutionCanGo
  <2>2. ASSUME NEW c \in Callers, caller[c] = "waiting" PROVE Alive(on[c]) \/ CallerCanWake(c)
    BY <2>2 DEF IInv, TypeOK, OnMade, HangInv, DeadTogether, EndsTold, Alive, Ended,
       TaskStates, CallerCanWake
  <2>3. ASSUME NEW e \in Entries, task[e] = "cleaned"
        PROVE  FinalizerCanGo(e) \/ fin[e] \in {"finished", "dead"}
    BY <2>3 DEF IInv, TypeOK, HangInv, EndsTold, FinStates, FinalizerCanGo
  <2> QED
    BY <2>1, <2>2, <2>3 DEF NobodyHangs
<1> QED
  BY <1>1, <1>2, <1>3, Invariant, PTL DEF Spec

-----------------------------------------------------------------------------
(* The broker implements its contract.  The inductive invariant needs three   *)
(* more parts: what callers remember, where results come from, and that       *)
(* waiters are counted right, for admission happens for one that waits.       *)

\* Where a caller was once, the entry exists; a caller that was never anywhere has none.
OnKnown ==
    \A c \in Callers :
        /\ on[c] # None => on[c] \in Entries /\ task[on[c]] # "free"
        /\ caller[c] = "idle" => on[c] = None
        /\ caller[c] = "waiting" => on[c] # None

\* A child that started was dispatched, and a result is that of a child that succeeded.
Ran ==
    \A e \in Entries :
        /\ exec[e] \in {"running", "ok", "failed"} => runs[e] > 0
        /\ outcome[e] = "result" => exec[e] = "ok"

\* entry.waiters counts the callers that wait.
Counted == \A e \in Entries : waiters[e] = Cardinality(Waiting(e))

RInv == IInv /\ OnKnown /\ Ran /\ Counted

\* The callers of an entry are finitely many.
LEMMA WaitingFinite == \A e : IsFiniteSet(Waiting(e))
<1> TAKE e
<1> QED
  BY BrokerAssumption, FS_Subset DEF Waiting

\* Steps that leave callers and counters alone keep the count.
LEMMA CountedStays ==
    ASSUME Counted, waiters' = waiters, on' = on, caller' = caller PROVE Counted'
BY DEF Counted, Waiting

\* A caller that comes to an entry is counted.
LEMMA CountedJoins ==
    ASSUME IInv, Counted, NEW c \in Callers, NEW e \in Entries, caller[c] = "idle",
           waiters' = [waiters EXCEPT ![e] = @ + 1],
           caller' = [caller EXCEPT ![c] = "waiting"], on' = [on EXCEPT ![c] = e]
    PROVE  Counted'
<1>1. Waiting(e)' = Waiting(e) \cup {c} /\ c \notin Waiting(e)
  BY DEF IInv, TypeOK, Waiting
<1>2. \A f \in Entries \ {e} : Waiting(f)' = Waiting(f)
  BY DEF IInv, TypeOK, Waiting
<1>3. Cardinality(Waiting(e)') = Cardinality(Waiting(e)) + 1
  BY <1>1, WaitingFinite, FS_AddElement
<1> QED
  BY <1>1, <1>2, <1>3 DEF Counted, IInv, TypeOK

\* A caller that stops waiting is not counted any more.
LEMMA CountedLeaves ==
    ASSUME IInv, Counted, NEW c \in Callers, caller[c] = "waiting", NEW ans \in CallerStates,
           ans # "waiting", waiters' = [waiters EXCEPT ![on[c]] = @ - 1],
           caller' = [caller EXCEPT ![c] = ans], on' = on
    PROVE  Counted'
<1> DEFINE e == on[c]
<1>0. e \in Entries
  BY DEF IInv, OnMade
<1>1. Waiting(e)' = Waiting(e) \ {c} /\ c \in Waiting(e)
  BY DEF IInv, TypeOK, Waiting
<1>2. \A f \in Entries \ {e} : Waiting(f)' = Waiting(f)
  BY DEF IInv, TypeOK, Waiting
<1>3. Cardinality(Waiting(e)') = Cardinality(Waiting(e)) - 1
  BY <1>1, WaitingFinite, FS_RemoveElement
<1> QED
  BY <1>0, <1>1, <1>2, <1>3 DEF Counted, IInv, TypeOK

\* The steps of callers.
LEMMA CallRInv == ASSUME RInv, IInv', NEW c \in Callers, CallStep(c) PROVE RInv'
<1>1. CASE Reject(c)
  <2>1. Ran'
    BY <1>1 DEF RInv, Ran, Reject, entryVars, execVars
  <2>2. OnKnown'
    BY <1>1 DEF RInv, IInv, TypeOK, OnKnown, Reject, entryVars
  <2>3. \A e \in Entries : Waiting(e)' = Waiting(e)
    BY <1>1 DEF RInv, IInv, TypeOK, Waiting, Reject
  <2>4. Counted'
    BY <1>1, <2>3 DEF RInv, Counted, Reject, entryVars
  <2> QED
    BY <2>1, <2>2, <2>4 DEF RInv
<1>2. ASSUME NEW l \in Loops, NEW i \in Ids, NEW e \in Entries, Lead(c, l, i, e) PROVE RInv'
  <2>1. Ran'
    BY <1>2 DEF RInv, Ran, Lead, execVars
  <2>2. OnKnown'
    BY <1>2, BrokerAssumption DEF RInv, IInv, TypeOK, OnKnown, Lead
  <2>3. Waiting(e) = {}
    BY <1>2 DEF RInv, IInv, OnMade, Waiting, Lead
  <2>4. waiters[e] = 0
    BY <2>3, FS_EmptySet DEF RInv, Counted
  <2>5. waiters' = [waiters EXCEPT ![e] = @ + 1]
    BY <1>2, <2>4 DEF Lead, RInv, IInv, TypeOK
  <2>6. Counted'
    BY <1>2, <2>5, CountedJoins DEF RInv, Lead
  <2> QED
    BY <2>1, <2>2, <2>6 DEF RInv
<1>3. ASSUME NEW l \in Loops, NEW i \in Ids, Attach(c, l, i) PROVE RInv'
  <2>0. inflight[<<l, i>>] \in Entries /\ task[inflight[<<l, i>>]] # "free"
    BY <1>3 DEF RInv, IInv, TypeOK, MapSound, Attach
  <2>1. Ran'
    BY <1>3 DEF RInv, Ran, Attach, execVars
  <2>2. OnKnown'
    BY <1>3, <2>0, BrokerAssumption DEF RInv, IInv, TypeOK, OnKnown, Attach
  <2>3. Counted'
    BY <1>3, <2>0, CountedJoins DEF RInv, Attach
  <2> QED
    BY <2>1, <2>2, <2>3 DEF RInv
<1>4. ASSUME NEW l \in Loops, NEW i \in Ids, AnswerUnobserved(c, l, i) PROVE RInv'
  <2>0. inflight[<<l, i>>] \in Entries /\ task[inflight[<<l, i>>]] # "free"
    BY <1>4 DEF RInv, IInv, TypeOK, MapSound, AnswerUnobserved
  <2>1. Ran'
    BY <1>4 DEF RInv, Ran, AnswerUnobserved, entryVars, execVars
  <2>2. OnKnown'
    BY <1>4, <2>0 DEF RInv, IInv, TypeOK, OnKnown, AnswerUnobserved, entryVars
  <2>3. \A e \in Entries : Waiting(e)' = Waiting(e)
    BY <1>4 DEF RInv, IInv, TypeOK, Waiting, AnswerUnobserved
  <2>4. Counted'
    BY <1>4, <2>3 DEF RInv, Counted, AnswerUnobserved, entryVars
  <2> QED
    BY <2>1, <2>2, <2>4 DEF RInv
<1> QED
  BY <1>1, <1>2, <1>3, <1>4 DEF CallStep

\* The answers.
LEMMA WakeRInv ==
    ASSUME RInv, IInv', NEW c \in Callers, WakeStep(c) \/ CancelCaller(c) PROVE RInv'
<1>0. /\ caller[c] = "waiting" /\ on' = on
      /\ waiters' = [waiters EXCEPT ![on[c]] = @ - 1]
      /\ \E ans \in CallerStates \ {"waiting", "idle"} : caller' = [caller EXCEPT ![c] = ans]
      /\ UNCHANGED <<task, outcome, exec, runs>>
  BY DEF WakeStep, WakeWithAnswer, WakeWithError, WakeWithCancel, CancelCaller,
     ReleaseCancelled, CallerStates, execVars
<1>1. Ran'
  BY <1>0 DEF RInv, Ran
<1>2. OnKnown'
  BY <1>0 DEF RInv, IInv, TypeOK, OnKnown
<1>3. Counted'
  BY <1>0, CountedLeaves DEF RInv
<1> QED
  BY <1>1, <1>2, <1>3 DEF RInv

\* The entry's task.
LEMMA EntryRInv == ASSUME RInv, IInv', NEW e \in Entries, EntryStep(e) PROVE RInv'
<1>1. caller' = caller /\ on' = on /\ waiters' = waiters /\ runs' = runs
  BY DEF EntryStep, StartEntry, CancelUnstarted, FailPreparation, AdmitDuplicate, Commit,
     Committing, ResumeEntry, FinishEntry, CleanupEntry, callerVars, execVars
<1>2. Counted'
  BY <1>1, CountedStays DEF RInv
<1>3. \A f \in Entries : task[f] # "free" => task'[f] # "free"
  <2>1. \E st \in TaskStates \ {"free"} : task' = [task EXCEPT ![e] = st]
    BY DEF EntryStep, StartEntry, CancelUnstarted, FailPreparation, AdmitDuplicate, Commit,
       Committing, ResumeEntry, Settled, FinishEntry, CleanupEntry, Unwind, TaskStates
  <2> QED
    BY <2>1 DEF RInv, IInv, TypeOK
<1>4. OnKnown'
  BY <1>1, <1>3 DEF RInv, OnKnown
<1>5. Ran'
  <2>1. CASE Commit(e)
    BY <2>1, <1>1 DEF RInv, IInv, TypeOK, Phases, Ran, Commit, Committing
  <2>2. CASE ResumeEntry(e)
    <3>1. \E out \in Outcomes : /\ outcome' = [outcome EXCEPT ![e] = out]
                                /\ out = "result" => exec[e] = "ok"
      BY <2>2 DEF ResumeEntry, Settled, Unwind, Outcomes
    <3>2. exec' = exec
      BY <2>2 DEF ResumeEntry, execVars
    <3> QED
      BY <1>1, <3>1, <3>2 DEF RInv, IInv, TypeOK, Ran
  <2>3. CASE EntryStep(e) /\ ~Commit(e) /\ ~ResumeEntry(e)
    <3>1. exec' = exec
      BY <2>3 DEF EntryStep, StartEntry, CancelUnstarted, FailPreparation, AdmitDuplicate,
         FinishEntry, CleanupEntry, execVars
    <3>2. \A f \in Entries : outcome'[f] = "result" => outcome[f] = "result"
      BY <2>3 DEF RInv, IInv, TypeOK, EntryStep, StartEntry, CancelUnstarted,
         FailPreparation, AdmitDuplicate, FinishEntry, CleanupEntry, Unwind
    <3> QED
      BY <1>1, <3>1, <3>2 DEF RInv, Ran
  <2> QED
    BY <2>1, <2>2, <2>3
<1> QED
  BY <1>2, <1>4, <1>5 DEF RInv

\* The finalizer and the execution.
LEMMA TaskRInv ==
    ASSUME RInv, IInv', NEW e \in Entries, FinalizerStep(e) \/ ExecutionStep(e) PROVE RInv'
<1>1. caller' = caller /\ on' = on /\ waiters' = waiters /\ task' = task
      /\ outcome' = outcome
  BY DEF FinalizerStep, StartFinalizer, FinishFinalizer, ExecutionStep, StartExecution,
     FinishExecution, CancelExecution, callerVars, entryVars
<1>2. Counted'
  BY <1>1, CountedStays DEF RInv
<1>3. OnKnown'
  BY <1>1 DEF RInv, OnKnown
<1>4. Ran'
  <2>1. CASE FinalizerStep(e)
    BY <2>1, <1>1 DEF RInv, Ran, FinalizerStep, StartFinalizer, FinishFinalizer, execVars
  <2>2. CASE ExecutionStep(e)
    BY <2>2, <1>1 DEF RInv, IInv, TypeOK, Phases, Ran, ExecutionStep, StartExecution,
       FinishExecution, CancelExecution
  <2> QED
    BY <2>1, <2>2
<1> QED
  BY <1>2, <1>3, <1>4 DEF RInv

\* A crash leaves no one waiting and no one counted.
LEMMA CrashRInv == ASSUME RInv, IInv', Crash PROVE RInv'
<1>1. Ran'
  BY DEF RInv, IInv, TypeOK, Ran, Crash
<1>2. OnKnown'
  BY DEF RInv, IInv, TypeOK, OnKnown, Crash
<1>3. \A e \in Entries : Waiting(e)' = {}
  BY DEF RInv, IInv, TypeOK, Waiting, Crash
<1>4. Counted'
  BY <1>3, FS_EmptySet DEF Counted, Crash
<1> QED
  BY <1>1, <1>2, <1>4 DEF RInv

\* Callers are counted, and answers come from executions, in every reachable state.
LEMMA RefinementInvariant == Spec => []RInv
<1>1. Init => OnKnown /\ Ran
  BY BrokerAssumption DEF Init, OnKnown, Ran
<1>2. Init => Counted
  <2> SUFFICES ASSUME Init PROVE Counted
    OBVIOUS
  <2>1. \A e \in Entries : Waiting(e) = {}
    BY DEF Init, Waiting
  <2> QED
    BY <2>1, FS_EmptySet DEF Init, Counted
<1>3. RInv /\ IInv' /\ [Next]_vars => RInv'
  <2> SUFFICES ASSUME RInv, IInv', [Next]_vars PROVE RInv'
    OBVIOUS
  <2>1. CASE UNCHANGED vars
    <3>1. Counted'
      BY <2>1, CountedStays DEF RInv, vars, entryVars, callerVars
    <3> QED
      BY <2>1, <3>1 DEF RInv, OnKnown, Ran, vars, entryVars, execVars, callerVars
  <2> QED
    BY <2>1, CallRInv, WakeRInv, EntryRInv, TaskRInv, CrashRInv DEF Next
<1>4. RInv => IInv
  BY DEF RInv
<1>5. IInv /\ OnKnown /\ Ran /\ Counted => RInv
  BY DEF RInv
<1> QED
  BY <1>1, <1>2, <1>3, <1>4, <1>5, Invariant, PTL DEF Spec

-----------------------------------------------------------------------------
(* Every step of the broker is a step of the contract, or none. *)

\* The contract's variables, as the broker has them.
Admitted == {idOf[e] : e \in {f \in Entries : committed[f]}}
Executed == {idOf[e] : e \in {f \in Entries : runs[f] > 0}}
Asked == [c \in Callers |-> IF on[c] = None THEN None ELSE idOf[on[c]]]
Replies == [c \in Callers |-> Reply(c)]
View == <<Admitted, Executed, Asked, Replies>>

\* A step that keeps entries, commits, dispatches and callers is none of the contract.
LEMMA NoStep ==
    ASSUME UNCHANGED <<idOf, committed, runs, caller, on>> PROVE UNCHANGED View
BY DEF View, Admitted, Executed, Asked, Replies, Reply

\* With every identity durable, a commit admits it: nobody admitted it before, and the
\* caller that keeps the entry from being abandoned still waits.
LEMMA CommitAdmits ==
    ASSUME RInv, Durable = Ids, NEW e \in Entries, Commit(e)
    PROVE  \E i \in Ids : Contract!Admit(i)
<1> DEFINE i == idOf[e]
<1>1. i \in Ids
  BY DEF RInv, IInv, Made, Commit
<1>2. i \notin Admitted
  BY <1>1 DEF RInv, IInv, Marks, Admitted, Commit
<1>3. waiters[e] > 0
  BY DEF RInv, IInv, Kept, Commit
<1>4. PICK c \in Callers : caller[c] = "waiting" /\ on[c] = e
  BY <1>3, FS_EmptySet DEF RInv, Counted, Waiting
<1>5. Asked[c] = i /\ Replies[c] = "pending"
  BY <1>4, BrokerAssumption DEF Asked, Replies, Reply
<1>6. Admitted' = Admitted \cup {i}
  BY DEF RInv, IInv, TypeOK, Admitted, Commit, Committing
<1>7. UNCHANGED <<Executed, Asked, Replies>>
  BY DEF Executed, Asked, Replies, Reply, Commit, Committing, callerVars
<1> QED
  BY <1>1, <1>2, <1>4, <1>5, <1>6, <1>7
     DEF Contract!Admit, Admitted, Executed, Asked, Replies

\* A dispatch executes an identity that was admitted and not executed before.
LEMMA DispatchExecutes ==
    ASSUME RInv, Durable = Ids, NEW e \in Entries, StartExecution(e)
    PROVE  \E i \in Ids : Contract!Execute(i)
<1> DEFINE i == idOf[e]
<1>1. committed[e] /\ runs[e] = 0 /\ i \in Ids
  BY DEF RInv, IInv, TypeOK, Phases, Dispatch, Made, StartExecution
<1>2. \A f \in Entries : runs[f] > 0 => committed[f]
  BY DEF RInv, IInv, TypeOK, Phases, Dispatch
<1>3. i \in Admitted \ Executed
  BY <1>1, <1>2 DEF RInv, IInv, Marks, Admitted, Executed
<1>4. Executed' = Executed \cup {i}
  <2>1. \A f \in Entries : runs'[f] > 0 <=> runs[f] > 0 \/ f = e
    BY <1>1 DEF RInv, IInv, TypeOK, StartExecution
  <2>2. idOf' = idOf
    BY DEF StartExecution, entryVars
  <2> QED
    BY <2>1, <2>2 DEF Executed
<1>5. UNCHANGED <<Admitted, Asked, Replies>>
  BY DEF Admitted, Asked, Replies, Reply, StartExecution, entryVars, callerVars
<1> QED
  BY <1>1, <1>3, <1>4, <1>5 DEF Contract!Execute, Admitted, Executed, Asked, Replies

\* A caller that leads or joins an entry asks for its identity.
LEMMA ComingAsks ==
    ASSUME RInv, NEW c \in Callers, NEW l \in Loops, NEW i \in Ids,
           (\E e \in Entries : Lead(c, l, i, e)) \/ Attach(c, l, i)
    PROVE  Contract!Ask(c, i)
<1> DEFINE Comes(e) ==
      /\ on' = [on EXCEPT ![c] = e] /\ idOf'[e] = i
      /\ \A f \in Entries : task[f] # "free" => idOf'[f] = idOf[f]
      /\ UNCHANGED <<committed, runs>>
<1>1. PICK e \in Entries : Comes(e)
  <2>1. ASSUME NEW e \in Entries, Lead(c, l, i, e) PROVE Comes(e)
    BY <2>1 DEF RInv, IInv, TypeOK, Lead, execVars
  <2>2. CASE Attach(c, l, i)
    <3>1. inflight[<<l, i>>] \in Entries /\ idOf[inflight[<<l, i>>]] = i
      BY <2>2 DEF RInv, IInv, TypeOK, MapSound, Key, Attach
    <3>2. Comes(inflight[<<l, i>>])
      BY <2>2, <3>1 DEF Attach, execVars
    <3> QED
      BY <3>1, <3>2
  <2> QED
    BY <2>1, <2>2
<1>2. caller[c] = "idle" /\ caller' = [caller EXCEPT ![c] = "waiting"]
  BY DEF Lead, Attach
<1>3. UNCHANGED <<Admitted, Executed>>
  <2>1. \A f \in Entries : committed[f] \/ runs[f] > 0 => task[f] # "free"
    BY DEF RInv, IInv, TypeOK, Phases, Dispatch
  <2> QED
    BY <1>1, <2>1 DEF Admitted, Executed
<1>4. Asked' = [Asked EXCEPT ![c] = i]
  BY <1>1, BrokerAssumption DEF RInv, IInv, TypeOK, OnKnown, Asked
<1>5. Replies[c] = "none" /\ Replies' = [Replies EXCEPT ![c] = "pending"]
  BY <1>2 DEF RInv, IInv, TypeOK, Replies, Reply
<1> QED
  BY <1>3, <1>4, <1>5 DEF Contract!Ask, Admitted, Executed, Asked, Replies

\* A retry of an unobserved run is told "duplicate", which it is.
LEMMA UnobservedIsDuplicate ==
    ASSUME RInv, NEW c \in Callers, NEW l \in Loops, NEW i \in Ids, AnswerUnobserved(c, l, i)
    PROVE  Contract!AnswerDuplicate(c, i)
<1> DEFINE e == inflight[<<l, i>>]
<1>1. e \in Entries /\ idOf[e] = i /\ committed[e]
  BY DEF RInv, IInv, TypeOK, MapSound, Key, AnswerUnobserved
<1>2. i \in Admitted
  BY <1>1 DEF Admitted
<1>3. UNCHANGED <<Admitted, Executed>>
  BY DEF Admitted, Executed, AnswerUnobserved, entryVars, execVars
<1>4. Asked' = [Asked EXCEPT ![c] = i]
  BY <1>1, BrokerAssumption DEF RInv, IInv, TypeOK, Asked, AnswerUnobserved, entryVars
<1>5. Replies[c] = "none" /\ Replies' = [Replies EXCEPT ![c] = "duplicate"]
  BY DEF RInv, IInv, TypeOK, Replies, Reply, AnswerUnobserved
<1> QED
  BY <1>2, <1>3, <1>4, <1>5 DEF Contract!AnswerDuplicate, Admitted, Executed, Asked, Replies

\* What a caller that waits is answered: the result of a dispatch that nobody else was
\* handed, or that it is a duplicate.
LEMMA AnswerAnswers ==
    ASSUME RInv, Durable = Ids, NEW c \in Callers, WakeWithAnswer(c)
    PROVE  Contract!AnswerResult(c) \/ \E i \in Ids : Contract!AnswerDuplicate(c, i)
<1> DEFINE e == on[c]
           i == idOf[e]
<1>1. e \in Entries /\ i \in Ids /\ caller[c] = "waiting" /\ e # None
  BY BrokerAssumption DEF RInv, IInv, OnMade, Made, WakeWithAnswer
<1>2. Replies[c] = "pending" /\ Asked[c] = i
  BY <1>1 DEF Replies, Reply, Asked
<1>3. UNCHANGED <<Admitted, Executed, Asked>>
  BY DEF Admitted, Executed, Asked, WakeWithAnswer, execVars
<1>4. CASE outcome[e] = "duplicate" \/ delivered[e]
  <2>1. Replies' = [Replies EXCEPT ![c] = "duplicate"]
    BY <1>4 DEF RInv, IInv, TypeOK, Replies, Reply, WakeWithAnswer
  <2>2. i \in Admitted
    <3>1. outcome[e] = "duplicate" => \E f \in Entries : committed[f] /\ idOf[f] = i
      BY <1>1 DEF RInv, IInv, Answers, Marks
    <3>2. delivered[e] => committed[e]
      BY <1>1 DEF RInv, IInv, Answers
    <3>3. \E f \in Entries : committed[f] /\ idOf[f] = i
      <4>1. CASE outcome[e] = "duplicate"
        BY <3>1, <4>1
      <4>2. CASE delivered[e]
        BY <1>1, <3>2, <4>2, Zenon
      <4> QED
        BY <1>4, <4>1, <4>2
    <3> QED
      BY <3>3 DEF Admitted
  <2>3. \E j \in Ids : Contract!AnswerDuplicate(c, j)
    BY <1>1, <1>2, <1>3, <2>1, <2>2
       DEF Contract!AnswerDuplicate, Admitted, Executed, Asked, Replies
  <2> QED
    BY <2>3
<1>5. CASE ~(outcome[e] = "duplicate" \/ delivered[e])
  <2>1. Replies' = [Replies EXCEPT ![c] = "result"]
    BY <1>5 DEF RInv, IInv, TypeOK, Replies, Reply, WakeWithAnswer
  <2>2. outcome[e] = "result" /\ committed[e] /\ runs[e] > 0
    BY <1>1, <1>5 DEF RInv, IInv, Ran, Answers, WakeWithAnswer
  <2>3. i \in Executed
    BY <1>1, <2>2 DEF Executed
  <2>4. ASSUME NEW d \in Callers, Asked[d] = i, Replies[d] = "result" PROVE FALSE
    <3>1. caller[d] = "result"
      BY <2>4 DEF Replies, Reply
    <3>2. on[d] \in Entries /\ committed[on[d]] /\ delivered[on[d]]
      BY <3>1 DEF RInv, IInv, OnMade, Answers
    <3>3. idOf[on[d]] = i
      BY <2>4, <3>2, BrokerAssumption DEF Asked
    <3>4. on[d] = e
      BY <1>1, <2>2, <3>2, <3>3 DEF RInv, IInv, Marks
    <3> QED
      BY <1>5, <3>2, <3>4
  <2> QED
    BY <1>2, <1>3, <2>1, <2>3, <2>4
       DEF Contract!AnswerResult, Admitted, Executed, Asked, Replies
<1> QED
  BY <1>4, <1>5

\* A rejection, an error or a cancellation hits one caller.
LEMMA OneFails ==
    ASSUME RInv, NEW c \in Callers,
           Reject(c) \/ WakeWithError(c) \/ WakeWithCancel(c) \/ CancelCaller(c)
    PROVE  Contract!Fail({c})
<1>1. /\ caller[c] \in {"idle", "waiting"}
      /\ \E ans \in {"rejected", "error", "cancelled"} : caller' = [caller EXCEPT ![c] = ans]
      /\ UNCHANGED <<idOf, committed, runs, on>>
  BY DEF Reject, WakeWithError, WakeWithCancel, CancelCaller, ReleaseCancelled, entryVars, execVars
<1>2. UNCHANGED <<Admitted, Executed, Asked>>
  BY <1>1 DEF Admitted, Executed, Asked
<1>3. Replies[c] \in {"none", "pending"}
  BY <1>1 DEF Replies, Reply
<1>4. Replies' = [d \in Callers |-> IF d \in {c} THEN "failed" ELSE Replies[d]]
  BY <1>1 DEF RInv, IInv, TypeOK, Replies, Reply
<1> QED
  BY <1>2, <1>3, <1>4 DEF Contract!Fail, Admitted, Executed, Asked, Replies

\* A crash hits all that wait.
LEMMA CrashFails ==
    ASSUME RInv, Crash PROVE Contract!Fail({c \in Callers : caller[c] = "waiting"})
<1> DEFINE S == {c \in Callers : caller[c] = "waiting"}
<1>1. UNCHANGED <<Admitted, Executed, Asked>>
  BY DEF Admitted, Executed, Asked, Crash
<1>2. \A c \in S : Replies[c] \in {"none", "pending"}
  BY DEF Replies, Reply
<1>3. Replies' = [c \in Callers |-> IF c \in S THEN "failed" ELSE Replies[c]]
  BY DEF RInv, IInv, TypeOK, Replies, Reply, Crash
<1> QED
  BY <1>1, <1>2, <1>3 DEF Contract!Fail, Admitted, Executed, Asked, Replies

\* When every identity has a dedupe record, prepare_and_execute with all its interleavings,
\* cancellations and crashes implements the contract of RunOnce: an identity is admitted for
\* a caller that still waits, executed once, and one caller is handed its result.
THEOREM ImplementsRunOnce ==
    ASSUME Durable = Ids
    PROVE  Spec => ContractSpec
<1>1. Init => Contract!Init
  BY DEF Init, Contract!Init, Reply
<1>2. RInv /\ [Next]_vars => [Contract!Next]_(Contract!vars)
  <2> SUFFICES ASSUME RInv, [Next]_vars PROVE Contract!Next \/ UNCHANGED View
    BY DEF Contract!vars, View, Admitted, Executed, Asked, Replies
  <2>1. ASSUME NEW c \in Callers, CallStep(c) PROVE Contract!Next
    BY <2>1, OneFails, ComingAsks, UnobservedIsDuplicate DEF CallStep, Contract!Next
  <2>2. ASSUME NEW c \in Callers, WakeStep(c) \/ CancelCaller(c) PROVE Contract!Next
    BY <2>2, AnswerAnswers, OneFails DEF WakeStep, Contract!Next
  <2>3. ASSUME NEW e \in Entries, EntryStep(e) PROVE Contract!Next \/ UNCHANGED View
    <3>1. CASE Commit(e)
      BY <3>1, CommitAdmits DEF Contract!Next
    <3>2. CASE EntryStep(e) /\ ~Commit(e)
      BY <3>2, NoStep DEF EntryStep, StartEntry, CancelUnstarted, FailPreparation,
         AdmitDuplicate, ResumeEntry, FinishEntry, CleanupEntry, execVars, callerVars
    <3> QED
      BY <2>3, <3>1, <3>2
  <2>4. ASSUME NEW e \in Entries, FinalizerStep(e) PROVE UNCHANGED View
    BY <2>4, NoStep
       DEF FinalizerStep, StartFinalizer, FinishFinalizer, entryVars, execVars, callerVars
  <2>5. ASSUME NEW e \in Entries, ExecutionStep(e) PROVE Contract!Next \/ UNCHANGED View
    <3>1. CASE StartExecution(e)
      BY <3>1, DispatchExecutes DEF Contract!Next
    <3>2. CASE ExecutionStep(e) /\ ~StartExecution(e)
      BY <3>2, NoStep DEF ExecutionStep, FinishExecution, CancelExecution, entryVars, callerVars
    <3> QED
      BY <2>5, <3>1, <3>2
  <2>6. CASE Crash
    BY <2>6, CrashFails DEF Contract!Next
  <2>7. CASE UNCHANGED vars
    BY <2>7, NoStep DEF vars, entryVars, execVars, callerVars
  <2> QED
    BY <2>1, <2>2, <2>3, <2>4, <2>5, <2>6, <2>7 DEF Next
<1> QED
  BY <1>1, <1>2, RefinementInvariant, PTL DEF Spec, ContractSpec, Contract!Spec
=============================================================================
