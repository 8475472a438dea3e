------------------------------ MODULE RunBroker ------------------------------
(***************************************************************************)
(* The shared execution boundary of run_broker.py: prepare_and_execute and *)
(* the shared entry task _prepare_admit_execute_once behind it.            *)
(*                                                                         *)
(* Callers (channel requests: a Feishu event, an HTTP request, a retry of  *)
(* either) that carry the same identity on the same event loop share one   *)
(* entry.  The entry's task prepares the request, consumes the durable     *)
(* idempotency mark, and only then opens the gate of a stable execution    *)
(* task.  Callers may be cancelled at any await; the process may crash.    *)
(*                                                                         *)
(* One action is one stretch of code between two awaits: the event loop is *)
(* cooperative and the map is only touched under _PREPARE_INFLIGHT_LOCK.   *)
(* Different loops (threads) interleave freely and meet only in the        *)
(* durable mark.  Expiry of a mark after its TTL is the subject of module  *)
(* SessionStore; here a mark lasts.                                        *)
(***************************************************************************)
EXTENDS Integers, FiniteSets

CONSTANTS Loops,    \* event loops, id(loop) in the inflight key
          Ids,      \* request identities: channel, profile, user, idempotency key
          Durable,  \* identities that have a dedupe record; for the others mark_seen is always true
          Callers,  \* single calls of prepare_and_execute
          Entries,  \* _ExecutionInflight objects, bounded
          None      \* Python's None: no entry, or an entry not yet created

ASSUME BrokerAssumption ==
    /\ Durable \subseteq Ids
    /\ IsFiniteSet(Callers)
    /\ None \notin Entries \cup Loops \cup Ids

VARIABLES
    inflight,   \* _EXECUTION_INFLIGHT: [Loops \X Ids -> Entries \cup {None}]
    seen,       \* durable idempotency marks
    loopOf,     \* the loop and the identity an entry was created for
    idOf,
    task,       \* where the entry's task is
    outcome,    \* how the entry's task ends
    cancelReq,  \* entry.task.cancel() was called and not yet delivered
    committed,  \* entry.committed
    delivered,  \* entry.delivered
    waiters,    \* entry.waiters
    exec,       \* the stable execution task
    runs,       \* how often the agent was dispatched for the entry
    abandons,   \* how often on_abandon ran for the entry
    releases,   \* how often on_execution_done ran for the entry
    fin,        \* the shared-entry finalizer: its gate, then its callback
    finFailed,  \* the flag the finalizer's gate was opened with
    caller,     \* where a caller is, or what it was answered
    on          \* the entry a caller waits on

entryVars  == <<loopOf, idOf, task, outcome, cancelReq, committed, delivered, waiters>>
execVars   == <<exec, runs, releases>>
finVars    == <<abandons, fin, finFailed>>
callerVars == <<caller, on>>
vars == <<inflight, seen, entryVars, execVars, finVars, callerVars>>

TaskStates == {"free", "created", "preparing", "parked", "unwinding", "done", "cleaned", "dead"}
Outcomes   == {"none", "result", "duplicate", "error", "cancelled"}
ExecStates == {"none", "ready", "running", "ok", "failed", "cancelled", "dead"}
FinStates  == {"gated", "opened", "running", "finished", "dead"}
CallerStates ==
    {"idle", "waiting", "rejected", "result", "duplicate", "error", "cancelled", "lost"}

Key(e) == <<loopOf[e], idOf[e]>>

\* The entry's task has not ended: entry.task.done() is false.
Alive(e) == task[e] \in {"created", "preparing", "parked", "unwinding"}

\* The entry's task has ended; its done callback ran if it is cleaned.
Ended(e) == task[e] \in {"done", "cleaned"}

Waiting(e) == {c \in Callers : caller[c] = "waiting" /\ on[c] = e}

Settled(e) == exec[e] \in {"ok", "failed", "cancelled"}

TypeOK ==
    /\ inflight \in [Loops \X Ids -> Entries \cup {None}]
    /\ seen \in SUBSET Ids
    /\ loopOf \in [Entries -> Loops \cup {None}]
    /\ idOf \in [Entries -> Ids \cup {None}]
    /\ task \in [Entries -> TaskStates]
    /\ outcome \in [Entries -> Outcomes]
    /\ cancelReq \in [Entries -> BOOLEAN]
    /\ committed \in [Entries -> BOOLEAN]
    /\ delivered \in [Entries -> BOOLEAN]
    /\ waiters \in [Entries -> Int]
    /\ exec \in [Entries -> ExecStates]
    /\ runs \in [Entries -> Nat]
    /\ abandons \in [Entries -> Nat]
    /\ releases \in [Entries -> Nat]
    /\ fin \in [Entries -> FinStates]
    /\ finFailed \in [Entries -> BOOLEAN]
    /\ caller \in [Callers -> CallerStates]
    /\ on \in [Callers -> Entries \cup {None}]

Init ==
    /\ inflight = [k \in Loops \X Ids |-> None]
    /\ seen = {}
    /\ loopOf = [e \in Entries |-> None]
    /\ idOf = [e \in Entries |-> None]
    /\ task = [e \in Entries |-> "free"]
    /\ outcome = [e \in Entries |-> "none"]
    /\ cancelReq = [e \in Entries |-> FALSE]
    /\ committed = [e \in Entries |-> FALSE]
    /\ delivered = [e \in Entries |-> FALSE]
    /\ waiters = [e \in Entries |-> 0]
    /\ exec = [e \in Entries |-> "none"]
    /\ runs = [e \in Entries |-> 0]
    /\ abandons = [e \in Entries |-> 0]
    /\ releases = [e \in Entries |-> 0]
    /\ fin = [e \in Entries |-> "gated"]
    /\ finFailed = [e \in Entries |-> FALSE]
    /\ caller = [c \in Callers |-> "idle"]
    /\ on = [c \in Callers |-> None]

-----------------------------------------------------------------------------
(* Helpers that several handlers call. *)

\* Mutant: on_abandon runs for a committed entry too.
RunOnAbandonEvenCommitted(e) ==
    abandons' = IF abandons[e] > 0 THEN abandons ELSE [abandons EXCEPT ![e] = @ + 1]

\* _run_on_abandon_once: nothing after a commit, nothing twice.
RunOnAbandonOnce(e) ==
    abandons' = IF committed[e] \/ abandons[e] > 0
                THEN abandons
                ELSE [abandons EXCEPT ![e] = @ + 1]

\* _EntryDoneFinalizer.ensure: the first caller decides the flag.
EnsureFinalizer(e, failed) ==
    IF fin[e] = "gated"
    THEN /\ fin' = [fin EXCEPT ![e] = "opened"]
         /\ finFailed' = [finFailed EXCEPT ![e] = failed]
    ELSE UNCHANGED <<fin, finFailed>>

\* _drop_execution_inflight: pop the key only while it still maps to this entry.
DropInflight(e) ==
    inflight' = IF inflight[Key(e)] = e
                THEN [inflight EXCEPT ![Key(e)] = None]
                ELSE inflight

\* Mutant: the finally block leaves a failed entry's finalizer gate closed.
UnwindSilently(e, out, failed) ==
    /\ task' = [task EXCEPT ![e] = "unwinding"]
    /\ outcome' = [outcome EXCEPT ![e] = out]
    /\ RunOnAbandonOnce(e)
    /\ IF failed THEN UNCHANGED <<fin, finFailed>> ELSE EnsureFinalizer(e, failed)

\* The finally block of _prepare_admit_execute_once.
Unwind(e, out, failed) ==
    /\ task' = [task EXCEPT ![e] = "unwinding"]
    /\ outcome' = [outcome EXCEPT ![e] = out]
    /\ RunOnAbandonOnce(e)
    /\ EnsureFinalizer(e, failed)

-----------------------------------------------------------------------------
(* prepare_and_execute, up to the await on the shared task. *)

\* check_policy raises before anything is shared.
Reject(c) ==
    /\ caller[c] = "idle"
    /\ caller' = [caller EXCEPT ![c] = "rejected"]
    /\ UNCHANGED <<inflight, seen, entryVars, execVars, finVars, on>>

\* No entry under the key: create one, with its task and its finalizer.
Lead(c, l, i, e) ==
    /\ caller[c] = "idle"
    /\ inflight[<<l, i>>] = None
    /\ task[e] = "free"
    /\ loopOf' = [loopOf EXCEPT ![e] = l]
    /\ idOf' = [idOf EXCEPT ![e] = i]
    /\ task' = [task EXCEPT ![e] = "created"]
    /\ inflight' = [inflight EXCEPT ![<<l, i>>] = e]
    /\ waiters' = [waiters EXCEPT ![e] = 1]
    /\ caller' = [caller EXCEPT ![c] = "waiting"]
    /\ on' = [on EXCEPT ![c] = e]
    /\ UNCHANGED <<seen, outcome, cancelReq, committed, delivered, execVars, finVars>>

\* An entry that has waiters, or is not committed: wait on it as well.
Attach(c, l, i) ==
    LET e == inflight[<<l, i>>] IN
    /\ caller[c] = "idle"
    /\ e # None
    /\ ~(committed[e] /\ waiters[e] = 0)
    /\ waiters' = [waiters EXCEPT ![e] = @ + 1]
    /\ caller' = [caller EXCEPT ![c] = "waiting"]
    /\ on' = [on EXCEPT ![c] = e]
    /\ UNCHANGED <<inflight, seen, loopOf, idOf, task, outcome, cancelReq, committed,
                   delivered, execVars, finVars>>

\* A committed entry nobody waits on any more: a retry is a duplicate.
AnswerUnobserved(c, l, i) ==
    LET e == inflight[<<l, i>>] IN
    /\ caller[c] = "idle"
    /\ e # None
    /\ committed[e] /\ waiters[e] = 0
    /\ caller' = [caller EXCEPT ![c] = "duplicate"]
    /\ on' = [on EXCEPT ![c] = e]
    /\ UNCHANGED <<inflight, seen, entryVars, execVars, finVars>>

-----------------------------------------------------------------------------
(* The entry's task, _prepare_admit_execute_once. *)

\* First step: a known duplicate ends the entry, otherwise preparation starts.
StartEntry(e) ==
    /\ task[e] = "created"
    /\ ~cancelReq[e]
    /\ IF idOf[e] \in seen
       THEN Unwind(e, "duplicate", FALSE)
       ELSE /\ task' = [task EXCEPT ![e] = "preparing"]
            /\ UNCHANGED <<outcome, finVars>>
    /\ UNCHANGED <<inflight, seen, loopOf, idOf, cancelReq, committed, delivered, waiters,
                   execVars, callerVars>>

\* The task was cancelled before its first step: the body, its finally
\* included, never runs.
CancelUnstarted(e) ==
    /\ task[e] = "created"
    /\ cancelReq[e]
    /\ task' = [task EXCEPT ![e] = "done"]
    /\ outcome' = [outcome EXCEPT ![e] = "cancelled"]
    /\ cancelReq' = [cancelReq EXCEPT ![e] = FALSE]
    /\ UNCHANGED <<inflight, seen, loopOf, idOf, committed, delivered, waiters,
                   execVars, finVars, callerVars>>

\* Preparation, transform, before_admit, the creation of the gated task or the
\* mark itself raises, or the pending cancellation is delivered.
FailPreparation(e) ==
    /\ task[e] = "preparing"
    /\ Unwind(e, IF cancelReq[e] THEN "cancelled" ELSE "error", TRUE)
    /\ cancelReq' = [cancelReq EXCEPT ![e] = FALSE]
    /\ UNCHANGED <<inflight, seen, loopOf, idOf, committed, delivered, waiters,
                   execVars, callerVars>>

\* Preparation is done, the mark is refused: the parked child is cancelled.
AdmitDuplicate(e) ==
    /\ task[e] = "preparing"
    /\ ~cancelReq[e]
    /\ idOf[e] \in seen
    /\ Unwind(e, "duplicate", FALSE)
    /\ UNCHANGED <<inflight, seen, loopOf, idOf, cancelReq, committed, delivered, waiters,
                   execVars, callerVars>>

\* The assignments of a commit.
Committing(e, child) ==
    /\ seen' = IF idOf[e] \in Durable THEN seen \cup {idOf[e]} ELSE seen
    /\ committed' = [committed EXCEPT ![e] = TRUE]
    /\ exec' = [exec EXCEPT ![e] = child]
    /\ task' = [task EXCEPT ![e] = "parked"]
    /\ UNCHANGED <<inflight, loopOf, idOf, outcome, cancelReq, delivered, waiters,
                   runs, releases, finVars, callerVars>>

\* Mutant: the answer of mark_seen is ignored.
CommitUnchecked(e) == task[e] = "preparing" /\ ~cancelReq[e] /\ Committing(e, "ready")

\* Mutant: a pending cancellation is swallowed on the way to the mark.
CommitDespiteCancel(e) ==
    task[e] = "preparing" /\ idOf[e] \notin seen /\ Committing(e, "ready")

\* Preparation is done, the mark is accepted: commit and open the child's gate.
Commit(e) ==
    /\ task[e] = "preparing"
    /\ ~cancelReq[e]
    /\ idOf[e] \notin seen
    /\ Committing(e, "ready")

\* The stable child settled: its result, error or cancellation is the entry's.
ResumeEntry(e) ==
    /\ task[e] = "parked"
    /\ Settled(e)
    /\ CASE exec[e] = "ok"        -> Unwind(e, "result", FALSE)
         [] exec[e] = "failed"    -> Unwind(e, "error", TRUE)
         [] exec[e] = "cancelled" -> Unwind(e, "cancelled", TRUE)
    /\ UNCHANGED <<inflight, seen, loopOf, idOf, cancelReq, committed, delivered, waiters,
                   execVars, callerVars>>

\* The shielded await on the finalizer returns, or the pending cancellation
\* replaces what the task was about to return.
FinishEntry(e) ==
    /\ task[e] = "unwinding"
    /\ cancelReq[e] \/ fin[e] = "finished"
    /\ outcome' = IF cancelReq[e] THEN [outcome EXCEPT ![e] = "cancelled"] ELSE outcome
    /\ cancelReq' = [cancelReq EXCEPT ![e] = FALSE]
    /\ task' = [task EXCEPT ![e] = "done"]
    /\ UNCHANGED <<inflight, seen, loopOf, idOf, committed, delivered, waiters,
                   execVars, finVars, callerVars>>

\* _cleanup_execution, the done callback of the entry's task.
CleanupEntry(e) ==
    /\ task[e] = "done"
    /\ task' = [task EXCEPT ![e] = "cleaned"]
    /\ EnsureFinalizer(e, outcome[e] \in {"error", "cancelled"})
    /\ RunOnAbandonOnce(e)
    /\ DropInflight(e)
    /\ UNCHANGED <<seen, loopOf, idOf, outcome, cancelReq, committed, delivered, waiters,
                   execVars, callerVars>>

-----------------------------------------------------------------------------
(* The finalizer's task, _run_entry_done. *)

StartFinalizer(e) ==
    /\ fin[e] = "opened"
    /\ fin' = [fin EXCEPT ![e] = "running"]
    /\ UNCHANGED <<inflight, seen, entryVars, execVars, abandons, finFailed, callerVars>>

FinishFinalizer(e) ==
    /\ fin[e] = "running"
    /\ fin' = [fin EXCEPT ![e] = "finished"]
    /\ UNCHANGED <<inflight, seen, entryVars, execVars, abandons, finFailed, callerVars>>

-----------------------------------------------------------------------------
(* The stable execution task, _run_after_admission and _run_admitted. *)

\* The gate is open: claim the admitted capability and dispatch the agent.
StartExecution(e) ==
    /\ exec[e] = "ready"
    /\ exec' = [exec EXCEPT ![e] = "running"]
    /\ runs' = [runs EXCEPT ![e] = @ + 1]
    /\ UNCHANGED <<inflight, seen, entryVars, releases, finVars, callerVars>>

\* The dispatch returns or raises; _finalize_execution follows.
FinishExecution(e, how) ==
    /\ exec[e] = "running"
    /\ exec' = [exec EXCEPT ![e] = how]
    /\ releases' = IF committed[e] THEN [releases EXCEPT ![e] = @ + 1] ELSE releases
    /\ UNCHANGED <<inflight, seen, entryVars, runs, finVars, callerVars>>

\* The child itself is cancelled, perhaps before its first step.
CancelExecution(e) ==
    /\ exec[e] \in {"ready", "running"}
    /\ exec' = [exec EXCEPT ![e] = "cancelled"]
    /\ releases' = IF committed[e] THEN [releases EXCEPT ![e] = @ + 1] ELSE releases
    /\ UNCHANGED <<inflight, seen, entryVars, runs, finVars, callerVars>>

-----------------------------------------------------------------------------
(* prepare_and_execute, after the await on the shared task. *)

\* The shared task ended with a result or a duplicate; one waiter gets the result.
WakeWithAnswer(c) ==
    LET e == on[c] IN
    /\ caller[c] = "waiting"
    /\ Ended(e)
    /\ outcome[e] \in {"result", "duplicate"}
    /\ IF outcome[e] = "duplicate" \/ delivered[e]
       THEN /\ caller' = [caller EXCEPT ![c] = "duplicate"]
            /\ UNCHANGED delivered
       ELSE /\ caller' = [caller EXCEPT ![c] = "result"]
            /\ delivered' = [delivered EXCEPT ![e] = TRUE]
    /\ waiters' = [waiters EXCEPT ![e] = @ - 1]
    /\ DropInflight(e)
    /\ UNCHANGED <<seen, loopOf, idOf, task, outcome, cancelReq, committed,
                   execVars, finVars, on>>

\* The shared task raised.
WakeWithError(c) ==
    LET e == on[c] IN
    /\ caller[c] = "waiting"
    /\ Ended(e)
    /\ outcome[e] = "error"
    /\ caller' = [caller EXCEPT ![c] = "error"]
    /\ waiters' = [waiters EXCEPT ![e] = @ - 1]
    /\ DropInflight(e)
    /\ UNCHANGED <<seen, loopOf, idOf, task, outcome, cancelReq, committed, delivered,
                   execVars, finVars, on>>

\* The await raises CancelledError, _release_execution_waiter follows: the last
\* waiter takes an uncommitted entry down with it.
ReleaseCancelled(c) ==
    LET e    == on[c]
        last == waiters[e] = 1 /\ ~committed[e]
    IN
    /\ caller' = [caller EXCEPT ![c] = "cancelled"]
    /\ waiters' = [waiters EXCEPT ![e] = @ - 1]
    /\ cancelReq' = IF last /\ Alive(e) THEN [cancelReq EXCEPT ![e] = TRUE] ELSE cancelReq
    /\ IF last THEN DropInflight(e) ELSE UNCHANGED inflight
    /\ UNCHANGED <<seen, loopOf, idOf, task, outcome, committed, delivered,
                   execVars, finVars, on>>

\* The caller itself is cancelled: a disconnect, a timeout, a newer message.
CancelCaller(c) ==
    /\ caller[c] = "waiting"
    /\ ReleaseCancelled(c)

\* The shared task ended cancelled, because its execution was.
WakeWithCancel(c) ==
    /\ caller[c] = "waiting"
    /\ Ended(on[c])
    /\ outcome[on[c]] = "cancelled"
    /\ ReleaseCancelled(c)

\* The process dies: the map, the tasks and the callers go, the marks stay.
Crash ==
    /\ \E e \in Entries : Alive(e) \/ task[e] = "done" \/ fin[e] \in {"opened", "running"}
    /\ inflight' = [k \in Loops \X Ids |-> None]
    /\ task' = [e \in Entries |-> IF task[e] \in {"free", "cleaned"} THEN task[e] ELSE "dead"]
    /\ exec' = [e \in Entries |-> IF exec[e] \in {"ready", "running"} THEN "dead" ELSE exec[e]]
    /\ fin' = [e \in Entries |-> IF task[e] # "free" /\ fin[e] # "finished" THEN "dead" ELSE fin[e]]
    /\ caller' = [c \in Callers |-> IF caller[c] = "waiting" THEN "lost" ELSE caller[c]]
    /\ waiters' = [e \in Entries |-> 0]
    /\ cancelReq' = [e \in Entries |-> FALSE]
    /\ UNCHANGED <<seen, loopOf, idOf, outcome, committed, delivered,
                   runs, releases, abandons, finFailed, on>>

-----------------------------------------------------------------------------
EntryStep(e) ==
    \/ StartEntry(e) \/ CancelUnstarted(e) \/ FailPreparation(e)
    \/ AdmitDuplicate(e) \/ Commit(e) \/ ResumeEntry(e)
    \/ FinishEntry(e) \/ CleanupEntry(e)

FinalizerStep(e) == StartFinalizer(e) \/ FinishFinalizer(e)

ExecutionStep(e) ==
    \/ StartExecution(e)
    \/ \E how \in {"ok", "failed"} : FinishExecution(e, how)
    \/ CancelExecution(e)

WakeStep(c) == WakeWithAnswer(c) \/ WakeWithError(c) \/ WakeWithCancel(c)

CallStep(c) ==
    \/ Reject(c)
    \/ \E l \in Loops, i \in Ids :
          \/ \E e \in Entries : Lead(c, l, i, e)
          \/ Attach(c, l, i)
          \/ AnswerUnobserved(c, l, i)

Next ==
    \/ \E c \in Callers : CallStep(c) \/ WakeStep(c) \/ CancelCaller(c)
    \/ \E e \in Entries : EntryStep(e) \/ FinalizerStep(e) \/ ExecutionStep(e)
    \/ Crash

Spec == Init /\ [][Next]_vars

\* Fairness.  The event loop runs every ready task, so the entry's, the
\* finalizer's and the callers' steps are weakly fair.  Preparation, the
\* finalizer's callback and the agent dispatch are bounded by their own timeouts
\* (HTTP timeouts, the in-flight timeout), so they end.  Nothing makes a caller
\* call, be cancelled, or the process crash.
Fairness ==
    /\ \A e \in Entries : WF_vars(EntryStep(e))
    /\ \A e \in Entries : WF_vars(FinalizerStep(e))
    /\ \A e \in Entries : WF_vars(ExecutionStep(e))
    /\ \A c \in Callers : WF_vars(WakeStep(c))

FairSpec == Spec /\ Fairness

-----------------------------------------------------------------------------
(* Safety. *)

\* A durable identity is dispatched to the agent at most once, over all event
\* loops, all entries it ever had and across crashes: the mark is consumed
\* before the gate opens and never given back.
AtMostOneExecution ==
    /\ \A e \in Entries : runs[e] <= 1
    /\ \A e, f \in Entries :
          runs[e] > 0 /\ runs[f] > 0 /\ idOf[e] = idOf[f] /\ idOf[e] \in Durable => e = f

\* Even an identity without a dedupe record never runs twice at the same time on
\* one loop: a committed entry stays in the inflight map until its task has
\* ended, whatever its callers do.
NoOverlappingRuns ==
    \A e, f \in Entries :
        /\ exec[e] \in {"ready", "running"}
        /\ exec[f] \in {"ready", "running"}
        /\ Key(e) = Key(f)
        => e = f

\* Of all callers that share an entry at most one is handed the result.
SingleDelivery ==
    \A c, d \in Callers :
        caller[c] = "result" /\ caller[d] = "result" /\ on[c] = on[d] => c = d

\* Resources staged for an entry are released by exactly one of on_abandon and
\* on_execution_done, never by both, and by one of them once the entry is over.
ReleasedOnce ==
    \A e \in Entries :
        /\ abandons[e] + releases[e] <= 1
        /\ task[e] = "cleaned" => abandons[e] + releases[e] = 1

\* A durable submission is executed once, answered once and cleaned up once.
ExactlyOnce == AtMostOneExecution /\ SingleDelivery /\ ReleasedOnce

\* No caller is told "duplicate" for a run that nobody was admitted to execute:
\* a failed or cancelled preparation never consumes the idempotency key.
DuplicateMeansAdmitted ==
    \A c \in Callers :
        caller[c] = "duplicate" =>
            \E e \in Entries : committed[e] /\ idOf[e] = idOf[on[c]]

\* The shared finalizer reports success only for a run whose execution succeeded
\* or for a durable duplicate, and failure only when it did not succeed.
FinalizerTruthful ==
    \A e \in Entries :
        fin[e] \in {"opened", "running", "finished"} =>
            IF finFailed[e] THEN exec[e] # "ok"
                            ELSE exec[e] = "ok" \/ idOf[e] \in seen

-----------------------------------------------------------------------------
(* Action properties. *)

\* An entry that nobody waits for and that has not committed never commits: the
\* cancellation of the last waiter is delivered before the mark can be consumed,
\* and no later caller can attach to the entry it gave up.
AbandonedNeverCommits ==
    [][\A e \in Entries : waiters[e] = 0 /\ ~committed[e] => ~committed'[e]]_vars

-----------------------------------------------------------------------------
(* Liveness, under FairSpec. *)

\* Every caller that waits is answered, cancelled or lost with the process.
CallersAnswered ==
    \A c \in Callers : caller[c] = "waiting" ~> caller[c] # "waiting"

\* Every entry is wound up: its resources are released and its finalizer has
\* run, also when its task is cancelled before its first step; only a crash
\* prevents that.
EntriesWoundUp ==
    \A e \in Entries :
        task[e] = "created" ~>
            \/ abandons[e] + releases[e] = 1 /\ fin[e] = "finished"
            \/ fin[e] = "dead"

\* Once admitted, an execution settles even if every caller has gone away.
CommittedSettles ==
    \A e \in Entries : committed[e] ~> Settled(e) \/ exec[e] = "dead"

\* Nothing the broker began is left hanging: callers, entries and executions come to
\* their end.
EveryoneSettles == CallersAnswered /\ EntriesWoundUp /\ CommittedSettles

-----------------------------------------------------------------------------
(* What the broker promises, RunOnce, for the durable identities. *)

Reply(c) ==
    CASE caller[c] = "idle" -> "none"
      [] caller[c] = "waiting" -> "pending"
      [] caller[c] \in {"result", "duplicate"} -> caller[c]
      [] OTHER -> "failed"

Contract == INSTANCE RunOnce WITH
    admitted <- {idOf[e] : e \in {f \in Entries : committed[f]}},
    executed <- {idOf[e] : e \in {f \in Entries : runs[f] > 0}},
    asked <- [c \in Callers |-> IF on[c] = None THEN None ELSE idOf[on[c]]],
    reply <- [c \in Callers |-> Reply(c)]

\* The broker with all its interleavings implements the contract: admission only
\* for a caller that still waits, one execution per identity, one result.
ContractSpec == Contract!Spec
=============================================================================
