----------------------------- MODULE HarnessRun -----------------------------
(***************************************************************************)
(* The runs of a Harness session and the one Codex thread they go on in:   *)
(* the emitter of the workflow (webui_broker/periphery.py), the binding of *)
(* the session to a thread (agent_real/codex_session_bridge.py) and of the *)
(* workflow's row to the same thread (start of harness_workflow.py), both  *)
(* driven by _verified_codex_stream (agent_real/_core.py); and the         *)
(* commands a run's child asks to be allowed, which are answered through a *)
(* file.  All runs here are of one session.                                *)
(***************************************************************************)
EXTENDS Naturals, FiniteSets

CONSTANTS
    Works,      \* runs of the session
    Threads,    \* threads Codex can mint
    Orders,     \* commands a child asks to be allowed
    MaxFalls,   \* bound: crashes of the gateway
    NoThread, Placeholder

ASSUME HarnessRunAssumption ==
    /\ NoThread \notin Threads /\ Placeholder \notin Threads /\ NoThread # Placeholder
    /\ MaxFalls \in Nat

VARIABLES
    rowThread,   \* thread_id of the workflow's row; NoThread: there is no row
    bridged,     \* codex_session_threads: the thread, and whether it is past max_age_ms
    work,        \* of a run: where it is, and the thread its plan resumes
    emitter,     \* _harness_workflow_emitters: the run in it, if any
    order,       \* of a command: the run that asked and what its child knows
    pendingOrders,  \* _pending_approvals
    decision,    \* the decision file
    falls,
    allowedBy,   \* commands for which a person pressed "once"
    apiBound     \* a thread was given through the endpoint

orderVars == <<order, pendingOrders, decision, allowedBy>>
sessionVars == <<rowThread, bridged, work, emitter, orderVars, falls, apiBound>>

Live == {"registered", "streaming", "bound"}

HarnessRunTypeOK ==
    /\ rowThread \in Threads \cup {NoThread, Placeholder}
    /\ bridged \in [to : Threads \cup {NoThread}, stale : BOOLEAN]
    /\ work \in [Works -> [at : Live \cup {"idle", "over"}, plan : Threads \cup {NoThread}]]
    /\ emitter \subseteq Works
    /\ order \in [Orders -> [of : SUBSET Works, is : {"idle", "asked", "once", "deny"}]]
    /\ pendingOrders \subseteq Orders
    /\ decision \in [Orders -> {"none", "torn", "once", "deny"}]
    /\ falls \in 0..MaxFalls

HarnessRunInit ==
    /\ rowThread = NoThread
    /\ bridged = [to |-> NoThread, stale |-> FALSE]
    /\ work = [r \in Works |-> [at |-> "idle", plan |-> NoThread]]
    /\ emitter = {}
    /\ order = [c \in Orders |-> [of |-> {}, is |-> "idle"]]
    /\ pendingOrders = {}
    /\ decision = [c \in Orders |-> "none"]
    /\ falls = 0
    /\ allowedBy = {}
    /\ apiBound = FALSE

GoTo(r, at, plan) == work' = [work EXCEPT ![r] = [at |-> at, plan |-> plan]]

\* The children of these runs are gone: what they asked is not allowed any more.
Orphan(runs) ==
    order' = [c \in Orders |->
        IF order[c].is = "asked" /\ order[c].of \subseteq runs THEN [order[c] EXCEPT !.is = "deny"] ELSE order[c]]

-----------------------------------------------------------------------------
(* Runs and the thread of the session. *)

\* register_harness_workflow_emitter admits one live run; the second raises before its try
\* block, so it takes nothing out.
RegisterEmitter(r) ==
    /\ work[r].at = "idle"
    /\ IF emitter = {}
       THEN emitter' = {r} /\ GoTo(r, "registered", NoThread)
       ELSE UNCHANGED emitter /\ GoTo(r, "over", NoThread)
    /\ UNCHANGED <<rowThread, bridged, orderVars, falls, apiBound>>

\* The row is given a thread: it is new, has its placeholder, or names this thread.
StartAccepts(t) == rowThread \in {NoThread, Placeholder, t}

PlannedThread == IF bridged.to = NoThread THEN Placeholder ELSE bridged.to

\* plan_codex_thread and start, with no await between them; then the child is launched.
PlanAndStart(r) ==
    /\ work[r].at = "registered"
    /\ ~bridged.stale
    /\ StartAccepts(PlannedThread)
    /\ rowThread' = PlannedThread
    /\ GoTo(r, "streaming", bridged.to)
    /\ UNCHANGED <<bridged, emitter, orderVars, falls, apiBound>>

\* The binding is stale, or the row has another thread: the run ends.
PlanRefused(r) ==
    /\ work[r].at = "registered"
    /\ bridged.stale \/ ~StartAccepts(PlannedThread)
    /\ GoTo(r, "over", NoThread)
    /\ emitter' = {}
    /\ UNCHANGED <<rowThread, bridged, orderVars, falls, apiBound>>

\* The gateway dies: its runs and registries are gone, rows and files stay.
Fallen ==
    /\ falls < MaxFalls
    /\ falls' = falls + 1
    /\ work' = [r \in Works |-> IF work[r].at \in Live THEN [at |-> "over", plan |-> NoThread] ELSE work[r]]
    /\ emitter' = {} /\ pendingOrders' = {}
    /\ Orphan(Works)
    /\ UNCHANGED <<decision, allowedBy>>

Fall == Fallen /\ UNCHANGED <<rowThread, bridged, apiBound>>

\* The row is written first.
ThreadBoundMutant(r, t) ==
    /\ work[r].at = "streaming" /\ work[r].plan = NoThread
    /\ StartAccepts(t) /\ rowThread' = t
    /\ \/ /\ bridged.to = NoThread /\ bridged' = [to |-> t, stale |-> FALSE]
          /\ GoTo(r, "bound", NoThread)
          /\ UNCHANGED <<emitter, orderVars, falls>>
       \/ Fallen /\ UNCHANGED bridged
    /\ UNCHANGED apiBound

\* The child of a fresh plan reports the thread it started.  The bridge commits it, then
\* the row; the gateway may die in between.
ThreadBound(r, t) ==
    /\ work[r].at = "streaming" /\ work[r].plan = NoThread
    /\ bridged.to = NoThread /\ bridged' = [to |-> t, stale |-> FALSE]
    /\ \/ /\ StartAccepts(t) /\ rowThread' = t
          /\ GoTo(r, "bound", NoThread)
          /\ UNCHANGED <<emitter, orderVars, falls>>
       \/ Fallen /\ UNCHANGED rowThread
    /\ UNCHANGED apiBound

\* The child of a resuming plan reports the same thread; the bridge is left alone.
ThreadResumed(r) ==
    /\ work[r].at = "streaming" /\ work[r].plan # NoThread
    /\ StartAccepts(work[r].plan) /\ rowThread' = work[r].plan
    /\ GoTo(r, "bound", work[r].plan)
    /\ UNCHANGED <<bridged, emitter, orderVars, falls, apiBound>>

\* The row refuses a thread the bridge has just committed; the stream raises.
BindRefused(r, t) ==
    /\ work[r].at = "streaming" /\ work[r].plan = NoThread
    /\ bridged.to = NoThread /\ ~StartAccepts(t)
    /\ bridged' = [to |-> t, stale |-> FALSE]
    /\ GoTo(r, "over", NoThread)
    /\ emitter' = {}
    /\ Orphan({r})
    /\ UNCHANGED <<rowThread, pendingOrders, decision, allowedBy, falls, apiBound>>

\* A run ends at any time; the finally block takes the emitter of the workflow out without
\* looking whose it is.
WorkEnds(r) ==
    /\ work[r].at \in Live
    /\ GoTo(r, "over", NoThread)
    /\ emitter' = {}
    /\ Orphan({r})
    /\ UNCHANGED <<rowThread, bridged, pendingOrders, decision, allowedBy, falls, apiBound>>

\* The endpoint's "start", with a thread of the caller's choice.
ApiStart(t) ==
    /\ StartAccepts(t)
    /\ rowThread' = t
    /\ apiBound' = TRUE
    /\ UNCHANGED <<bridged, work, emitter, orderVars, falls>>

\* A day passes: updated_at_ms is written once, when the thread is bound.
GrowStale ==
    /\ bridged.to # NoThread /\ ~bridged.stale
    /\ bridged' = [bridged EXCEPT !.stale = TRUE]
    /\ UNCHANGED <<rowThread, work, emitter, orderVars, falls, apiBound>>

-----------------------------------------------------------------------------
(* Commands a child asks to be allowed. *)

\* The child asks, and polls the decision file from then on.
AskCommand(r, c) ==
    /\ order[c].is = "idle" /\ work[r].at \in {"streaming", "bound"}
    /\ order' = [order EXCEPT ![c] = [of |-> {r}, is |-> "asked"]]
    /\ UNCHANGED <<rowThread, bridged, work, emitter, pendingOrders, decision, allowedBy, falls, apiBound>>

\* The parent reads approval_required from the stream, perhaps after the child gave up.
RegisterApproval(c) ==
    /\ order[c].is # "idle" /\ decision[c] = "none" /\ c \notin pendingOrders
    /\ \A r \in order[c].of : work[r].at \in Live
    /\ pendingOrders' = pendingOrders \cup {c}
    /\ UNCHANGED <<rowThread, bridged, work, emitter, order, decision, allowedBy, falls, apiBound>>

\* A click writes the file, which is empty for a moment.
ClickBegins(c) ==
    /\ c \in pendingOrders
    /\ decision' = [decision EXCEPT ![c] = "torn"]
    /\ UNCHANGED <<rowThread, bridged, work, emitter, order, pendingOrders, allowedBy, falls, apiBound>>

ClickWritten(c, choice) ==
    /\ decision[c] = "torn"
    /\ decision' = [decision EXCEPT ![c] = choice]
    /\ allowedBy' = IF choice = "once" THEN allowedBy \cup {c} ELSE allowedBy
    /\ UNCHANGED <<rowThread, bridged, work, emitter, order, pendingOrders, falls, apiBound>>

\* _read_approval_choice: a file that cannot be read is a refusal.
ReadChoice(c) == IF decision[c] = "torn" THEN "deny" ELSE decision[c]

\* The child reads a choice, or its wait ends.
ChildDecides(c) ==
    /\ order[c].is = "asked"
    /\ \/ decision[c] # "none" /\ order' = [order EXCEPT ![c].is = ReadChoice(c)]
       \/ decision[c] = "none" /\ order' = [order EXCEPT ![c].is = "deny"]
    /\ UNCHANGED <<rowThread, bridged, work, emitter, pendingOrders, decision, allowedBy, falls, apiBound>>

\* The parent reads approval_resolved.  An entry of a run that ends before that stays.
ClearApproval(c) ==
    /\ c \in pendingOrders /\ order[c].is \in {"once", "deny"}
    /\ \A r \in order[c].of : work[r].at \in Live
    /\ pendingOrders' = pendingOrders \ {c}
    /\ UNCHANGED <<rowThread, bridged, work, emitter, order, decision, allowedBy, falls, apiBound>>

-----------------------------------------------------------------------------
HarnessRunNext ==
    \/ \E r \in Works :
          \/ RegisterEmitter(r) \/ PlanAndStart(r) \/ PlanRefused(r) \/ ThreadResumed(r) \/ WorkEnds(r)
          \/ \E t \in Threads : ThreadBound(r, t) \/ BindRefused(r, t)
          \/ \E c \in Orders : AskCommand(r, c)
    \/ \E t \in Threads : ApiStart(t)
    \/ GrowStale \/ Fall
    \/ \E c \in Orders :
          \/ RegisterApproval(c) \/ ClickBegins(c) \/ ChildDecides(c) \/ ClearApproval(c)
          \/ \E choice \in {"once", "deny"} : ClickWritten(c, choice)

HarnessRunSpec == HarnessRunInit /\ [][HarnessRunNext]_sessionVars

-----------------------------------------------------------------------------
(* Properties. *)

\* Row and bridge name one thread, or the row still has its placeholder, so that the next
\* run of the session can go on: a crash between the two commits is mended by the next
\* start.  A thread given through the endpoint can part them for good.
ThreadsAgree ==
    apiBound \/ /\ rowThread \in {NoThread, Placeholder, bridged.to}
                /\ \A r \in Works : work[r].at = "bound" => rowThread = bridged.to

\* The workflow's events reach its live run: one run at a time has the emitter, and no
\* other run's end takes it away.
EventsReachRun == \A r \in Works : work[r].at \in Live <=> r \in emitter

\* A command runs only if a person pressed "once" for it, whenever its child read the file.
CommandsAllowed == \A c \in Orders : order[c].is = "once" => c \in allowedBy

\* A session's runs come one at a time, go on in one thread and run what was allowed.
SessionKept == HarnessRunTypeOK /\ ThreadsAgree /\ EventsReachRun /\ CommandsAllowed

\* Not kept by the code, and in no configuration: a command for which "once" was the only
\* click is not refused while its child waits.  The file is written in place, and a child
\* that reads it empty refuses (README, section 5).
ClickTaken ==
    [][\A c \in Orders : order[c].is = "asked" /\ order'[c].is = "deny" =>
          decision[c] # "torn"]_sessionVars
=============================================================================
