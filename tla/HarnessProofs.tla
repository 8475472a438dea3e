---------------------------- MODULE HarnessProofs ----------------------------
(***************************************************************************)
(* What the workflow store of Harness promises of operations, proved for   *)
(* every set of keys and flows and every bound.  Gated speaks of effects   *)
(* only; it is kept because the rows carry the history along: whatever has *)
(* an approved row was approved by a person, and what waits was asked for  *)
(* only after everything before it had been.  Then the runs of a session,  *)
(* for every number of runs, threads, commands and crashes; and the other  *)
(* thing the WebUI asks a person for, the login a blocked tool call of     *)
(* WebAuth waits for, for every number of runs, requests and probes.       *)
(***************************************************************************)
EXTENDS Harness, HarnessRun, WebAuth, TLAPS

\* The gates an operation of gate g needs.
Needs(g) == {g} \cup Prior(g)

\* Before start there is nothing.
NothingYet ==
    flow = "none" =>
        /\ \A g \in Gates : gate[g].st = "none"
        /\ \A k \in OpKeys : opRow[k].st = "none"

\* An approved row has a person's approval behind it, its own and those of earlier gates.
ApprovedEarned == \A g \in Gates : gate[g].st = "approved" => Needs(g) \subseteq approvedBy

\* A row that waits was asked for in its turn.
WaitingInTurn == \A g \in Gates : gate[g].st = "waiting" => Prior(g) \subseteq approvedBy

\* A row of an operation was inserted behind its gates.
ClaimedEarned ==
    \A k \in OpKeys : opRow[k].st # "none" =>
        /\ opRow[k].op \in Operations
        /\ Needs(OperationGates[opRow[k].op]) \subseteq approvedBy

IInv ==
    HarnessTypeOK /\ NothingYet /\ ApprovedEarned /\ WaitingInTurn /\ ClaimedEarned /\ OperationOnce

\* Every operation has a gate.
LEMMA GateOfOperation == \A op \in Operations : OperationGates[op] \in Gates
BY DEF Operations, OperationGates, Gates

\* Gate B is not of the light flow, so nothing comes before it there.
LEMMA NothingBeforeB == flow = "light" => Prior("B") = {}
<1> SUFFICES ASSUME flow = "light" PROVE Prior("B") = {}
  OBVIOUS
<1>1. FlowGates[flow] = <<"A", "C", "D", "E">>
  BY DEF FlowGates
<1>2. \A n \in DOMAIN FlowGates[flow] : FlowGates[flow][n] # "B"
  BY <1>1
<1> QED
  BY <1>2 DEF Prior

\* The gates before a gate are those of the flow, which only start sets.
LEMMA PriorKept == flow' = flow => \A g : Prior(g)' = Prior(g)
BY DEF Prior

\* The store begins with the inductive invariant.
LEMMA InitIInv == HarnessInit => IInv
<1> SUFFICES ASSUME HarnessInit PROVE IInv
  OBVIOUS
<1> USE HarnessAssumption DEF HarnessInit, NoGate
<1>1. HarnessTypeOK
  BY DEF HarnessTypeOK, GateStatus
<1>2. NothingYet /\ ApprovedEarned /\ WaitingInTurn /\ ClaimedEarned /\ OperationOnce
  BY DEF NothingYet, ApprovedEarned, WaitingInTurn, ClaimedEarned, OperationOnce
<1> QED
  BY <1>1, <1>2 DEF IInv

\* start.
LEMMA StartKeeps == ASSUME IInv, NEW f \in Flows, StartWorkflow(f) PROVE IInv'
<1> USE HarnessAssumption DEF StartWorkflow
<1>1. HarnessTypeOK'
  BY DEF IInv, HarnessTypeOK
<1>2. f # "none"
  BY DEF FlowGates
<1>3. /\ \A g \in Gates : gate'[g].st = "none"
      /\ \A k \in OpKeys : opRow'[k].st = "none"
  BY DEF IInv, NothingYet
<1>4. OperationOnce'
  BY DEF IInv, OperationOnce
<1>5. NothingYet' /\ ApprovedEarned' /\ WaitingInTurn' /\ ClaimedEarned'
  BY <1>2, <1>3 DEF NothingYet, ApprovedEarned, WaitingInTurn, ClaimedEarned
<1> QED
  BY <1>1, <1>4, <1>5 DEF IInv

\* request_gate: the rows before the gate are approved, so people approved them.
LEMMA RequestKeeps == ASSUME IInv, NEW g \in Gates, RequestGate(g) PROVE IInv'
<1> USE HarnessAssumption DEF RequestGate
<1>1. HarnessTypeOK'
  BY DEF IInv, HarnessTypeOK, GateStatus
<1>2. \A h : Prior(h)' = Prior(h)
  BY PriorKept
<1>3. \A h \in ApprovedGates : h \in approvedBy
  BY DEF IInv, ApprovedEarned, ApprovedGates, Needs
<1>4. Prior(g) \subseteq approvedBy
  BY <1>3 DEF MayRequest
<1>5. \A h \in Gates : gate'[h] = IF h = g THEN [st |-> "waiting", id |-> asks + 1] ELSE gate[h]
  BY DEF IInv, HarnessTypeOK
<1>6. ApprovedEarned' /\ WaitingInTurn'
  BY <1>2, <1>4, <1>5 DEF IInv, ApprovedEarned, WaitingInTurn, Needs
<1>7. NothingYet' /\ OperationOnce'
  BY DEF IInv, NothingYet, OperationOnce
<1>8. ClaimedEarned'
  BY <1>2 DEF IInv, ClaimedEarned, Needs
<1> QED
  BY <1>1, <1>6, <1>7, <1>8 DEF IInv

\* resolve_gate: an approval settles the row that waited and, in the light flow, gate B.
LEMMA ResolveKeeps ==
    ASSUME IInv, NEW id \in 1..MaxAsks, NEW verdict \in {"approved", "rejected", "rework"},
           ResolveGate(id, verdict)
    PROVE  IInv'
<1> USE HarnessAssumption DEF ResolveGate
<1> PICK g \in Decides(id) :
      LET settled == IF verdict = "approved" THEN {g} \cup Combined(g) ELSE {g}
      IN  /\ gate' = [h \in Gates |->
                IF h \in settled THEN [st |-> verdict, id |-> id] ELSE gate[h]]
          /\ approvedBy' = IF verdict = "approved" THEN approvedBy \cup settled ELSE approvedBy
  OBVIOUS
<1> DEFINE settled == IF verdict = "approved" THEN {g} \cup Combined(g) ELSE {g}
<1>0. /\ g \in Gates /\ gate[g].st = "waiting"
      /\ settled \subseteq Gates
      /\ approvedBy \subseteq approvedBy'
      /\ verdict = "approved" => settled \subseteq approvedBy'
      /\ \A h \in Gates : gate'[h] = IF h \in settled THEN [st |-> verdict, id |-> id] ELSE gate[h]
  BY DEF Decides, Combined, Gates
<1>1. HarnessTypeOK'
  <2>1. gate' \in [Gates -> [st : GateStatus, id : 0..MaxAsks]]
    BY <1>0 DEF IInv, HarnessTypeOK, GateStatus
  <2>2. approvedBy' \subseteq Gates
    BY <1>0 DEF IInv, HarnessTypeOK
  <2> QED
    BY <2>1, <2>2 DEF IInv, HarnessTypeOK
<1>2. \A h : Prior(h)' = Prior(h)
  BY PriorKept
<1>3. \A h \in settled : Prior(h) \subseteq approvedBy
  BY <1>0, NothingBeforeB DEF IInv, WaitingInTurn, Combined
<1>4. ApprovedEarned'
  <2> SUFFICES ASSUME NEW h \in Gates, gate'[h].st = "approved"
               PROVE  {h} \cup Prior(h) \subseteq approvedBy'
    BY <1>2 DEF ApprovedEarned, Needs
  <2>1. CASE h \in settled
    <3>1. verdict = "approved"
      BY <2>1, <1>0
    <3> QED
      BY <2>1, <3>1, <1>0, <1>3
  <2>2. CASE h \notin settled
    BY <2>2, <1>0 DEF IInv, ApprovedEarned, Needs
  <2> QED
    BY <2>1, <2>2
<1>5. WaitingInTurn'
  <2> SUFFICES ASSUME NEW h \in Gates, gate'[h].st = "waiting"
               PROVE  Prior(h) \subseteq approvedBy'
    BY <1>2 DEF WaitingInTurn
  <2>1. h \notin settled
    BY <1>0
  <2> QED
    BY <2>1, <1>0 DEF IInv, WaitingInTurn
<1>6. NothingYet' /\ OperationOnce'
  BY DEF IInv, NothingYet, OperationOnce
<1>7. ClaimedEarned'
  BY <1>0, <1>2 DEF IInv, ClaimedEarned, Needs
<1> QED
  BY <1>1, <1>4, <1>5, <1>6, <1>7 DEF IInv

\* A credential pause and its end change the status alone.
LEMMA PauseKeeps == ASSUME IInv, PauseForCredential \/ ResumeCredential PROVE IInv'
<1> USE HarnessAssumption DEF PauseForCredential, ResumeCredential
<1>1. HarnessTypeOK'
  BY DEF IInv, HarnessTypeOK
<1>2. \A h : Prior(h)' = Prior(h)
  BY PriorKept
<1>3. ApprovedEarned' /\ WaitingInTurn' /\ ClaimedEarned'
  BY <1>2 DEF IInv, ApprovedEarned, WaitingInTurn, ClaimedEarned, Needs
<1>4. NothingYet' /\ OperationOnce'
  BY DEF IInv, NothingYet, OperationOnce
<1> QED
  BY <1>1, <1>3, <1>4 DEF IInv

\* The first transaction of execute looks at the row of the gate only; what lies before
\* that gate is known from the history.
LEMMA ClaimKeeps ==
    ASSUME IInv, NEW k \in OpKeys, NEW op \in Operations, ClaimOperation(k, op) PROVE IInv'
<1> USE HarnessAssumption DEF ClaimOperation, KeyFree
<1>1. HarnessTypeOK'
  BY DEF IInv, HarnessTypeOK
<1>2. \A h : Prior(h)' = Prior(h)
  BY PriorKept
<1>3. \A j \in OpKeys : opRow'[j] = IF j = k THEN [op |-> op, st |-> "pending"] ELSE opRow[j]
  BY DEF IInv, HarnessTypeOK
<1>4. Needs(OperationGates[op]) \subseteq approvedBy
  BY GateOfOperation DEF IInv, ApprovedEarned
<1>5. ClaimedEarned'
  BY <1>2, <1>3, <1>4 DEF IInv, ClaimedEarned, Needs
<1>6. OperationOnce'
  BY <1>3 DEF IInv, OperationOnce
<1>7. ApprovedEarned' /\ WaitingInTurn' /\ NothingYet'
  BY <1>2 DEF IInv, ApprovedEarned, WaitingInTurn, NothingYet, Needs
<1> QED
  BY <1>1, <1>5, <1>6, <1>7 DEF IInv

\* The operation ends, with its effect or, if it is lost, perhaps without.
LEMMA EffectKeeps ==
    ASSUME IInv, NEW k \in OpKeys, OperationDone(k) \/ OperationLost(k) PROVE IInv'
<1> USE HarnessAssumption DEF OperationDone, OperationLost
<1>1. /\ effects[k] = 0 /\ opRow[k].st = "pending"
      /\ \A j \in OpKeys : effects[j] \in Nat
  BY DEF IInv, HarnessTypeOK, OperationOnce
<1>2. /\ \A j \in OpKeys \ {k} : effects'[j] = effects[j] /\ opRow'[j] = opRow[j]
      /\ opRow'[k].op = opRow[k].op
      /\ \/ opRow'[k].st = "done" /\ effects'[k] = 1
         \/ opRow'[k].st = "unknown" /\ effects'[k] \in {0, 1}
  BY <1>1 DEF IInv, HarnessTypeOK
<1>3. HarnessTypeOK'
  BY <1>1 DEF IInv, HarnessTypeOK
<1>4. \A h : Prior(h)' = Prior(h)
  BY PriorKept
<1>5. ClaimedEarned'
  BY <1>1, <1>2, <1>4 DEF IInv, ClaimedEarned, Needs
<1>6. OperationOnce'
  BY <1>2 DEF IInv, OperationOnce
<1>7. ApprovedEarned' /\ WaitingInTurn'
  BY <1>4 DEF IInv, ApprovedEarned, WaitingInTurn, Needs
<1>8. NothingYet'
  BY <1>1 DEF IInv, NothingYet
<1> QED
  BY <1>3, <1>5, <1>6, <1>7, <1>8 DEF IInv

\* Every step keeps the inductive invariant.
LEMMA NextIInv == IInv /\ [HarnessNext]_harnessVars => IInv'
<1> SUFFICES ASSUME IInv, [HarnessNext]_harnessVars PROVE IInv'
  OBVIOUS
<1>1. CASE UNCHANGED harnessVars
  <2>1. \A h : Prior(h)' = Prior(h)
    BY <1>1, PriorKept DEF harnessVars
  <2> QED
    BY <1>1, <2>1 DEF harnessVars, IInv, HarnessTypeOK, NothingYet, ApprovedEarned, WaitingInTurn,
       ClaimedEarned, OperationOnce, Needs
<1>2. CASE HarnessNext
  BY <1>2, StartKeeps, RequestKeeps, ResolveKeeps, PauseKeeps, ClaimKeeps, EffectKeeps
     DEF HarnessNext
<1> QED
  BY <1>1, <1>2

\* The inductive invariant says what the runs check.
LEMMA IInvSuffices == IInv => OperationsGated
<1> SUFFICES ASSUME IInv PROVE Gated
  BY DEF IInv, OperationsGated
<1> SUFFICES ASSUME NEW k \in OpKeys, effects[k] > 0
             PROVE  Needs(OperationGates[opRow[k].op]) \subseteq approvedBy
  BY DEF Gated, Needs
<1>1. opRow[k].st # "none"
  BY DEF IInv, OperationOnce
<1> QED
  BY <1>1 DEF IInv, ClaimedEarned

\* An operation takes effect at most once per idempotency key, and only behind a person's
\* approval of its gate and of every gate before it in the flow, for any keys, flows,
\* requests, rejections, pauses and lost outcomes.
THEOREM OperationsBehindGates == HarnessSpec => []OperationsGated
<1>1. HarnessSpec => []IInv
  BY InitIInv, NextIInv, PTL DEF HarnessSpec
<1> QED
  BY <1>1, IInvSuffices, PTL

-----------------------------------------------------------------------------
(* The runs of a session. *)

\* One run has the emitter, a resuming run goes on in the thread of the bridge, and a file
\* says "once" only after a person did.
OneEmitter == \A q, r \in emitter : q = r
PlansAgree == \A r \in Works : work[r].plan \in {NoThread, bridged.to}
FilesEarned == \A c \in Orders : decision[c] = "once" => c \in allowedBy

\* Inductive: the session, and the commands of its runs.
SessionInv ==
    HarnessRunTypeOK /\ ThreadsAgree /\ EventsReachRun /\ OneEmitter /\ PlansAgree
OrderInv == CommandsAllowed /\ FilesEarned

\* A step leaves the types of the commands' state alone, or keeps them.
OrderTypes ==
    /\ order \in [Orders -> [of : SUBSET Works, is : {"idle", "asked", "once", "deny"}]]
    /\ pendingOrders \subseteq Orders
    /\ decision \in [Orders -> {"none", "torn", "once", "deny"}]

\* When runs end, what their children asked is refused, never allowed.
LEMMA OrphanAllowsNone ==
    ASSUME HarnessRunTypeOK, OrderInv, NEW runs \in SUBSET Works, Orphan(runs),
           UNCHANGED <<decision, allowedBy>>, pendingOrders' \subseteq pendingOrders
    PROVE  OrderTypes' /\ OrderInv'
<1>1. OrderTypes'
  BY DEF HarnessRunTypeOK, OrderTypes, Orphan
<1>2. \A c \in Orders : order'[c].is = "once" => order[c].is = "once"
  BY DEF HarnessRunTypeOK, Orphan
<1> QED
  BY <1>1, <1>2 DEF OrderInv, CommandsAllowed, FilesEarned

\* A crash takes every run with it.
LEMMA FallenKeeps ==
    ASSUME HarnessRunTypeOK, OrderInv, PlansAgree, Fallen
    PROVE  /\ work' \in [Works -> [at : Live \cup {"idle", "over"}, plan : Threads \cup {NoThread}]]
           /\ \A r \in Works : work'[r].at \notin Live /\ work'[r].plan \in {NoThread, work[r].plan}
           /\ emitter' = {} /\ falls' \in 0..MaxFalls
           /\ OrderTypes' /\ OrderInv'
<1>1. OrderTypes' /\ OrderInv'
  BY OrphanAllowsNone DEF Fallen
<1>2. falls' \in 0..MaxFalls
  BY HarnessRunAssumption DEF Fallen, HarnessRunTypeOK, HarnessRunAssumption
<1> QED
  BY <1>1, <1>2 DEF Fallen, HarnessRunTypeOK, Live

\* A run that ends leaves the emitter, which it alone had.
LEMMA EndKeeps ==
    ASSUME SessionInv, NEW r \in Works, work[r].at \in Live, GoTo(r, "over", NoThread),
           emitter' = {}, UNCHANGED falls, OrderTypes',
           \/ UNCHANGED <<rowThread, bridged, apiBound>>
           \/ BindRefused(r, bridged'.to) /\ bridged'.to \in Threads
    PROVE  SessionInv'
<1>1. \A q \in Works \ {r} : work'[q] = work[q] /\ work[q].at \notin Live
  BY DEF SessionInv, HarnessRunTypeOK, EventsReachRun, OneEmitter, GoTo
<1>2. work'[r] = [at |-> "over", plan |-> NoThread]
  BY DEF SessionInv, HarnessRunTypeOK, GoTo
<1>3. EventsReachRun' /\ OneEmitter'
  BY <1>1, <1>2 DEF EventsReachRun, OneEmitter, Live
<1>4. CASE UNCHANGED <<rowThread, bridged, apiBound>>
  <2>1. HarnessRunTypeOK'
    BY <1>4 DEF SessionInv, HarnessRunTypeOK, OrderTypes, GoTo, Live
  <2>2. PlansAgree'
    BY <1>1, <1>2, <1>4 DEF SessionInv, PlansAgree
  <2>3. ThreadsAgree'
    BY <1>1, <1>2, <1>4 DEF SessionInv, ThreadsAgree
  <2> QED
    BY <1>3, <2>1, <2>2, <2>3 DEF SessionInv
<1>5. CASE BindRefused(r, bridged'.to) /\ bridged'.to \in Threads
  <2>1. HarnessRunTypeOK'
    <3>1. bridged' \in [to : Threads \cup {NoThread}, stale : BOOLEAN]
      <4> PICK t \in Threads : bridged'.to = t
        BY <1>5
      <4>1. bridged' = [to |-> t, stale |-> FALSE]
        BY <1>5 DEF BindRefused
      <4> QED
        BY <4>1
    <3>2. work' \in [Works -> [at : Live \cup {"idle", "over"}, plan : Threads \cup {NoThread}]]
      BY DEF SessionInv, HarnessRunTypeOK, GoTo
    <3>3. UNCHANGED rowThread
      BY <1>5 DEF BindRefused
    <3> QED
      BY <3>1, <3>2, <3>3 DEF SessionInv, HarnessRunTypeOK, OrderTypes
  <2>2. PlansAgree'
    BY <1>1, <1>2, <1>5 DEF SessionInv, PlansAgree, BindRefused
  <2>3. ThreadsAgree'
    BY <1>5 DEF SessionInv, ThreadsAgree, BindRefused, StartAccepts
  <2> QED
    BY <1>3, <2>1, <2>2, <2>3 DEF SessionInv
<1> QED
  BY <1>4, <1>5

\* A live run goes on: it had the emitter alone, and keeps it.
LEMMA GoOnKeeps ==
    ASSUME SessionInv, NEW r \in Works, work[r].at \in Live,
           NEW at \in Live, NEW plan \in Threads \cup {NoThread}, GoTo(r, at, plan),
           UNCHANGED <<emitter, orderVars, falls, apiBound>>,
           rowThread' \in Threads \cup {NoThread, Placeholder},
           bridged' \in [to : Threads \cup {NoThread}, stale : BOOLEAN],
           bridged.to # NoThread => bridged' = bridged,
           plan \in {NoThread, bridged'.to},
           apiBound \/ /\ rowThread' \in {NoThread, Placeholder, bridged'.to}
                       /\ at = "bound" => rowThread' = bridged'.to
    PROVE  SessionInv'
<1>1. \A q \in Works \ {r} : work'[q] = work[q] /\ work[q].at \notin Live
  BY DEF SessionInv, HarnessRunTypeOK, EventsReachRun, OneEmitter, GoTo
<1>2. work'[r] = [at |-> at, plan |-> plan]
  BY DEF SessionInv, HarnessRunTypeOK, GoTo
<1>3. HarnessRunTypeOK'
  BY DEF SessionInv, HarnessRunTypeOK, GoTo, orderVars
<1>4. EventsReachRun' /\ OneEmitter'
  BY <1>1, <1>2 DEF SessionInv, EventsReachRun, OneEmitter
<1>5. PlansAgree'
  BY <1>1, <1>2 DEF SessionInv, PlansAgree
<1>6. ThreadsAgree'
  BY <1>1, <1>2 DEF ThreadsAgree, Live
<1> QED
  BY <1>3, <1>4, <1>5, <1>6 DEF SessionInv

\* What a step of the commands leaves alone.
LEMMA OrderStepKeeps ==
    ASSUME SessionInv, OrderTypes', UNCHANGED <<rowThread, bridged, work, emitter, falls, apiBound>>
    PROVE  SessionInv'
BY DEF SessionInv, HarnessRunTypeOK, ThreadsAgree, EventsReachRun, OneEmitter, PlansAgree, OrderTypes

\* A step of a run.
LEMMA WorkStepKeeps ==
    ASSUME SessionInv, OrderInv, NEW r \in Works,
           \/ RegisterEmitter(r) \/ PlanAndStart(r) \/ PlanRefused(r) \/ ThreadResumed(r) \/ WorkEnds(r)
           \/ \E t \in Threads : ThreadBound(r, t) \/ BindRefused(r, t)
    PROVE  SessionInv' /\ OrderInv'
<1>1. ASSUME UNCHANGED orderVars PROVE OrderTypes' /\ OrderInv'
  BY <1>1 DEF SessionInv, HarnessRunTypeOK, OrderTypes, OrderInv, CommandsAllowed, FilesEarned, orderVars
<1>2. CASE RegisterEmitter(r)
  <2>1. CASE emitter = {}
    <3>1. \A q \in Works : work[q].at \notin Live
      BY <2>1 DEF SessionInv, EventsReachRun
    <3>2. /\ work' = [work EXCEPT ![r] = [at |-> "registered", plan |-> NoThread]]
          /\ emitter' = {r} /\ UNCHANGED <<rowThread, bridged, orderVars, falls, apiBound>>
      BY <1>2, <2>1 DEF RegisterEmitter, GoTo
    <3>3. HarnessRunTypeOK' /\ EventsReachRun' /\ OneEmitter'
      BY <3>1, <3>2 DEF SessionInv, HarnessRunTypeOK, EventsReachRun, OneEmitter, Live, orderVars
    <3>4. PlansAgree' /\ ThreadsAgree'
      BY <3>1, <3>2 DEF SessionInv, HarnessRunTypeOK, PlansAgree, ThreadsAgree, Live
    <3> QED
      BY <1>1, <3>2, <3>3, <3>4 DEF SessionInv
  <2>2. CASE emitter # {}
    <3>1. /\ work' = [work EXCEPT ![r] = [at |-> "over", plan |-> NoThread]] /\ work[r].at = "idle"
          /\ UNCHANGED <<rowThread, bridged, emitter, orderVars, falls, apiBound>>
      BY <1>2, <2>2 DEF RegisterEmitter, GoTo
    <3>2. HarnessRunTypeOK' /\ EventsReachRun' /\ OneEmitter'
      BY <3>1 DEF SessionInv, HarnessRunTypeOK, EventsReachRun, OneEmitter, Live, orderVars
    <3>3. PlansAgree' /\ ThreadsAgree'
      BY <3>1 DEF SessionInv, HarnessRunTypeOK, PlansAgree, ThreadsAgree, Live
    <3> QED
      BY <1>1, <3>1, <3>2, <3>3 DEF SessionInv
  <2> QED
    BY <2>1, <2>2
<1>3. CASE PlanAndStart(r)
  <2>1. PlannedThread \in Threads \cup {Placeholder} /\ bridged.to \in Threads \cup {NoThread}
        /\ (PlannedThread = bridged.to \/ PlannedThread = Placeholder)
    BY DEF SessionInv, HarnessRunTypeOK, PlannedThread
  <2>2. SessionInv'
    BY <1>3, <2>1, GoOnKeeps DEF PlanAndStart, SessionInv, HarnessRunTypeOK, Live
  <2> QED
    BY <1>1, <1>3, <2>2 DEF PlanAndStart
<1>4. CASE PlanRefused(r)
  BY <1>1, <1>4, EndKeeps DEF PlanRefused, Live
<1>5. CASE ThreadResumed(r)
  <2>1. work[r].plan \in Threads /\ work[r].plan = bridged.to
    BY <1>5 DEF ThreadResumed, SessionInv, HarnessRunTypeOK, PlansAgree
  <2>2. SessionInv'
    BY <1>5, <2>1, GoOnKeeps DEF ThreadResumed, SessionInv, HarnessRunTypeOK, Live
  <2> QED
    BY <1>1, <1>5, <2>2 DEF ThreadResumed
<1>6. CASE WorkEnds(r)
  <2>1. OrderTypes' /\ OrderInv'
    BY <1>6, OrphanAllowsNone DEF SessionInv, WorkEnds
  <2> QED
    BY <1>6, <2>1, EndKeeps DEF WorkEnds
<1>7. ASSUME NEW t \in Threads, BindRefused(r, t) PROVE SessionInv' /\ OrderInv'
  <2>1. OrderTypes' /\ OrderInv'
    BY <1>7, OrphanAllowsNone DEF SessionInv, BindRefused
  <2>2. bridged'.to = t
    BY <1>7 DEF BindRefused
  <2> QED
    BY <1>7, <2>1, <2>2, EndKeeps DEF BindRefused, Live
<1>8. ASSUME NEW t \in Threads, ThreadBound(r, t) PROVE SessionInv' /\ OrderInv'
  <2>1. CASE ~ Fallen
    <3>1. /\ work[r].at \in Live /\ GoTo(r, "bound", NoThread) /\ rowThread' = t
          /\ bridged' = [to |-> t, stale |-> FALSE] /\ bridged.to = NoThread
          /\ UNCHANGED <<emitter, orderVars, falls, apiBound>>
      BY <1>8, <2>1 DEF ThreadBound, Live
    <3>2. bridged' \in [to : Threads \cup {NoThread}, stale : BOOLEAN] /\ bridged'.to = t
      BY <3>1
    <3>3. SessionInv'
      BY <3>1, <3>2, GoOnKeeps DEF Live
    <3> QED
      BY <1>1, <3>1, <3>3
  <2>2. CASE Fallen
    <3>1. /\ bridged' = [to |-> t, stale |-> FALSE] /\ bridged.to = NoThread /\ UNCHANGED apiBound
          /\ rowThread' \in {rowThread, t}
      BY <1>8, <2>2 DEF ThreadBound
    <3>2. /\ work' \in [Works -> [at : Live \cup {"idle", "over"}, plan : Threads \cup {NoThread}]]
          /\ \A q \in Works : work'[q].at \notin Live /\ work'[q].plan \in {NoThread, work[q].plan}
          /\ emitter' = {} /\ falls' \in 0..MaxFalls
          /\ OrderTypes' /\ OrderInv'
      BY <2>2, FallenKeeps DEF SessionInv
    <3>3. HarnessRunTypeOK'
      BY <3>1, <3>2 DEF SessionInv, HarnessRunTypeOK, OrderTypes
    <3>4. ThreadsAgree' /\ EventsReachRun' /\ OneEmitter' /\ PlansAgree'
      BY <3>1, <3>2 DEF SessionInv, ThreadsAgree, EventsReachRun, OneEmitter, PlansAgree, Live
    <3> QED
      BY <3>2, <3>3, <3>4 DEF SessionInv
  <2> QED
    BY <2>1, <2>2
<1> QED
  BY <1>2, <1>3, <1>4, <1>5, <1>6, <1>7, <1>8

\* A step of a command: its child learns "once" from a file that a person's click wrote.
LEMMA CommandStepKeeps ==
    ASSUME SessionInv, OrderInv, NEW c \in Orders,
           \/ \E r \in Works : AskCommand(r, c)
           \/ RegisterApproval(c) \/ ClickBegins(c) \/ ChildDecides(c) \/ ClearApproval(c)
           \/ \E choice \in {"once", "deny"} : ClickWritten(c, choice)
    PROVE  SessionInv' /\ OrderInv'
<1>1. UNCHANGED <<rowThread, bridged, work, emitter, falls, apiBound>>
  BY DEF AskCommand, RegisterApproval, ClickBegins, ChildDecides, ClearApproval, ClickWritten
<1>2. OrderTypes
  BY DEF SessionInv, HarnessRunTypeOK, OrderTypes
<1>3. CASE \E r \in Works : AskCommand(r, c)
  <2>1. OrderTypes' /\ OrderInv'
    BY <1>2, <1>3 DEF OrderTypes, OrderInv, CommandsAllowed, FilesEarned, AskCommand
  <2> QED
    BY <1>1, <2>1, OrderStepKeeps
<1>4. CASE RegisterApproval(c) \/ ClearApproval(c) \/ ClickBegins(c)
  <2>1. OrderTypes' /\ OrderInv'
    BY <1>2, <1>4 DEF OrderTypes, OrderInv, CommandsAllowed, FilesEarned, RegisterApproval,
       ClearApproval, ClickBegins
  <2> QED
    BY <1>1, <2>1, OrderStepKeeps
<1>5. CASE ChildDecides(c)
  <2>1. PICK choice \in {"once", "deny"} :
           order' = [order EXCEPT ![c].is = choice] /\ (choice = "once" => decision[c] = "once")
    BY <1>2, <1>5 DEF OrderTypes, ChildDecides, ReadChoice
  <2>2. UNCHANGED <<pendingOrders, decision, allowedBy>>
    BY <1>5 DEF ChildDecides
  <2>3. OrderTypes'
    BY <1>2, <2>1, <2>2 DEF OrderTypes
  <2>4. \A d \in Orders : order'[d].is = "once" => order[d].is = "once" \/ decision[d] = "once"
    BY <1>2, <2>1 DEF OrderTypes
  <2>5. OrderInv'
    BY <2>2, <2>4 DEF OrderInv, CommandsAllowed, FilesEarned
  <2> QED
    BY <1>1, <2>3, <2>5, OrderStepKeeps
<1>6. ASSUME NEW choice \in {"once", "deny"}, ClickWritten(c, choice) PROVE SessionInv' /\ OrderInv'
  <2>1. OrderTypes' /\ OrderInv'
    BY <1>2, <1>6 DEF OrderTypes, OrderInv, CommandsAllowed, FilesEarned, ClickWritten
  <2> QED
    BY <1>1, <2>1, OrderStepKeeps
<1> QED
  BY <1>3, <1>4, <1>5, <1>6

\* A session's runs come one at a time and go on in one thread, through crashes between the
\* two commits of it, and a child runs no command that nobody allowed.
THEOREM SessionsKept == HarnessRunSpec => []SessionKept
<1>1. HarnessRunInit => SessionInv /\ OrderInv
  BY HarnessRunAssumption DEF HarnessRunAssumption, HarnessRunInit, SessionInv, OrderInv, HarnessRunTypeOK,
     ThreadsAgree, EventsReachRun, OneEmitter, PlansAgree, CommandsAllowed, FilesEarned, Live
<1>2. SessionInv /\ OrderInv /\ [HarnessRunNext]_sessionVars => SessionInv' /\ OrderInv'
  <2> SUFFICES ASSUME SessionInv, OrderInv, [HarnessRunNext]_sessionVars
               PROVE  SessionInv' /\ OrderInv'
    OBVIOUS
  <2>1. ASSUME UNCHANGED orderVars PROVE OrderTypes' /\ OrderInv'
    BY <2>1 DEF SessionInv, HarnessRunTypeOK, OrderTypes, OrderInv, CommandsAllowed, FilesEarned, orderVars
  <2>2. ASSUME NEW t \in Threads, ApiStart(t) PROVE SessionInv' /\ OrderInv'
    BY <2>1, <2>2 DEF SessionInv, HarnessRunTypeOK, ThreadsAgree, EventsReachRun, OneEmitter, PlansAgree,
       ApiStart, OrderTypes
  <2>3. CASE GrowStale
    <3>1. bridged'.to = bridged.to /\ bridged' \in [to : Threads \cup {NoThread}, stale : BOOLEAN]
      BY <2>3 DEF GrowStale, SessionInv, HarnessRunTypeOK
    <3> QED
      BY <2>1, <2>3, <3>1 DEF SessionInv, HarnessRunTypeOK, ThreadsAgree, EventsReachRun, OneEmitter,
         PlansAgree, GrowStale, OrderTypes
  <2>4. CASE Fall
    <3>1. /\ work' \in [Works -> [at : Live \cup {"idle", "over"}, plan : Threads \cup {NoThread}]]
          /\ \A q \in Works : work'[q].at \notin Live /\ work'[q].plan \in {NoThread, work[q].plan}
          /\ emitter' = {} /\ falls' \in 0..MaxFalls
          /\ OrderTypes' /\ OrderInv'
      BY <2>4, FallenKeeps DEF SessionInv, Fall
    <3>2. HarnessRunTypeOK'
      BY <2>4, <3>1 DEF Fall, SessionInv, HarnessRunTypeOK, OrderTypes
    <3>3. ThreadsAgree' /\ EventsReachRun' /\ OneEmitter' /\ PlansAgree'
      BY <2>4, <3>1 DEF Fall, SessionInv, ThreadsAgree, EventsReachRun, OneEmitter, PlansAgree, Live
    <3> QED
      BY <3>1, <3>2, <3>3 DEF SessionInv
  <2>5. CASE UNCHANGED sessionVars
    BY <2>1, <2>5, OrderStepKeeps DEF sessionVars
  <2> QED
    BY <2>2, <2>3, <2>4, <2>5, WorkStepKeeps, CommandStepKeeps DEF HarnessRunNext
<1>3. SessionInv /\ OrderInv => SessionKept
  BY DEF SessionInv, OrderInv, SessionKept
<1> QED
  BY <1>1, <1>2, <1>3, PTL DEF HarnessRunSpec

-----------------------------------------------------------------------------
(***************************************************************************)
(* Inline authorization (WebAuth).  The two properties are about steps, so *)
(* every action is shown to keep AuthInv and to be one that both allow     *)
(* (AuthGoes).  Most of them are of one of three kinds: they leave the     *)
(* records and answers alone (OthersGo), drop records (DropsGo) or answer  *)
(* one request (AnswersGo).                                                *)
(***************************************************************************)

\* Nothing has been done for a request that is not registered yet, and nothing that a person
\* or a probe could do for one whose credential is being checked.
Untried(a) ==
    /\ shown[a] = "none" /\ opening[a] = "no" /\ rec[a].login = NoLogin /\ watcher[a] = NoTask
    /\ \A p \in Probers : probe[p].stage # "idle" => probe[p].ask # a
RegistersOnce ==
    \A a \in Asks :
        /\ asker[a] = NoOne \/ reg[a] = "entered" => rec[a] = NoRecord /\ toolAnswer[a] = "none"
        /\ asker[a] = NoOne => reg[a] = "none"
        /\ asker[a] = NoOne \/ reg[a] # "none" => Untried(a)
        /\ reg[a] = "checking" => toolAnswer[a] # "success" /\ rec[a].state \notin Terminal

\* A run asks after it has begun, and a probe is of a request.
RunsAsk ==
    /\ \A a \in Asks : asker[a] # NoOne => running[asker[a]] # "new"
    /\ \A p \in Probers : probe[p].stage # "idle" => probe[p].ask \in Asks

\* A request that is open has no answer; one that the server granted has, and so has one
\* that the browser was told of.
OpenUnanswered == \A a \in Asks : rec[a].state \in {"pending", "late"} => toolAnswer[a] = "none"
GrantedAnswered ==
    \A a \in Asks :
        RunLive(a) /\ "success" \in {shown[a], rec[a].state} => cred /\ toolAnswer[a] = "success"
OneOpen == \A a, b \in Asks : a # b /\ asker[a] = asker[b] => ~(MayWrite(a) /\ MayWrite(b))

\* A completion watcher has a record to watch.
Watched == \A a \in Asks : watcher[a] # NoTask => Present(a)

AuthInv ==
    AuthTypeOK /\ RegistersOnce /\ RunsAsk /\ OpenUnanswered /\ GrantedAnswered /\ OneOpen /\ Watched

AuthRecs == [Asks -> [state : States \cup {"absent"}, login : Logins \cup {NoLogin}]]
AuthLogins == [Logins -> {"unused", "open", "granted", "closed"}]
AuthProbes ==
    [Probers -> [ask : Asks \cup {NoOne}, login : Logins \cup {NoLogin},
                 stage : {"idle", "poll", "ended", "verify", "last"}]]
AuthWatchers == [Asks -> {NoTask, "sleep"} \cup Probers]

\* The steps AnswersSound and LoginsShared speak of.
AnswerStep ==
    \A a \in Asks :
        /\ toolAnswer'[a] = "success" /\ toolAnswer[a] # "success" =>
              toolAnswer[a] = "none" /\ MayWrite(a) /\ cred
        /\ toolAnswer[a] = "success" => toolAnswer'[a] = "success" \/ running'[asker[a]] = "over"
LoginStep ==
    /\ \A a \in Asks : watcher'[a] # NoTask => rec'[a] # NoRecord
    /\ \A l \in Logins : login[l] = "open" /\ login'[l] = "closed" =>
          \/ \A a \in Asks : rec'[a].login # l
          \/ \E p \in Probers : probe[p].login = l /\ probe'[p].stage = "ended"

\* The requests of the runs, and the answers to them.
AsksHeld == RegistersOnce /\ OpenUnanswered /\ GrantedAnswered /\ OneOpen
AuthGoes == AuthInv' /\ AnswerStep /\ LoginStep

LEMMA AuthStarts == AuthInit => AuthInv
<1> SUFFICES ASSUME AuthInit PROVE AuthInv
  OBVIOUS
<1> USE DEF AuthInit
<1>1. AuthTypeOK
  BY DEF AuthTypeOK, NoRecord, NoProbe, Services
<1>2. RegistersOnce /\ RunsAsk
  BY DEF RegistersOnce, RunsAsk, Untried, NoRecord, NoProbe
<1>3. OpenUnanswered /\ Watched
  BY DEF OpenUnanswered, Watched
<1>4. \A a \in Asks : ~RunLive(a)
  BY DEF RunLive
<1> QED  BY <1>1, <1>2, <1>3, <1>4 DEF AuthInv, GrantedAnswered, OneOpen, MayWrite

\* What is torn down is referred to by none of the records that remain.
LEMMA TornDownIs ==
    ASSUME AuthTypeOK, NEW lgs, NEW rr, NEW known
    PROVE  /\ TornDown(lgs, rr, known) \in AuthLogins
           /\ \A l \in Logins : TornDown(lgs, rr, known)[l] # login[l] => \A a \in Asks : rr[a].login # l
BY DEF AuthTypeOK, TornDown, AuthLogins

\* Records are dropped with their watchers, and the logins nobody else refers to.
Dropped(D) ==
    /\ \A a \in D : rec'[a] = NoRecord /\ watcher'[a] = NoTask
    /\ \A a \in Asks \ D : rec'[a] = rec[a] /\ watcher'[a] = watcher[a]
    /\ \A l \in Logins : login'[l] # login[l] => \A a \in Asks : rec'[a].login # l
    /\ rec' \in AuthRecs /\ login' \in AuthLogins /\ watcher' \in AuthWatchers
LEMMA DropIs == ASSUME AuthTypeOK, NEW D \in SUBSET Asks, Drop(D) PROVE Dropped(D)
<1> DEFINE rr == [a \in Asks |-> IF a \in D THEN NoRecord ELSE rec[a]]
           lgs == {rec[a].login : a \in D} \ {NoLogin}
<1>1. rec' = rr /\ login' = TornDown(lgs, rr, TRUE)
  BY DEF Drop
<1>2. rr \in AuthRecs
  BY DEF AuthTypeOK, AuthRecs, NoRecord, States
<1>3. /\ watcher' \in AuthWatchers
      /\ \A a \in D : watcher'[a] = NoTask
      /\ \A a \in Asks \ D : watcher'[a] = watcher[a]
  BY DEF Drop, Unwatched, AuthTypeOK, AuthWatchers
<1>4. \A a \in D : rr[a] = NoRecord
  OBVIOUS
<1>5. \A a \in Asks \ D : rr[a] = rec[a]
  OBVIOUS
<1> HIDE DEF rr, lgs
<1>6. TornDown(lgs, rr, TRUE) \in AuthLogins
  BY TornDownIs
<1>7. \A l \in Logins : TornDown(lgs, rr, TRUE)[l] # login[l] => \A a \in Asks : rr[a].login # l
  BY DEF TornDown
<1> QED  BY <1>1, <1>2, <1>3, <1>4, <1>5, <1>6, <1>7 DEF Dropped

\* A step that leaves the records and the answers alone: logins, watchers and probes of
\* requests that are registered.
LEMMA OthersGo ==
    ASSUME AuthInv, AuthTypeOK', UNCHANGED <<running, asker, toolAnswer, rec, reg, shown>>,
           cred => cred',
           \A a \in Asks : asker[a] = NoOne \/ reg[a] # "none" => Untried(a)',
           \A a \in Asks : watcher'[a] # NoTask => Present(a),
           \A p \in Probers : probe'[p].stage # "idle" => probe'[p].ask \in Asks,
           \A l \in Logins : login[l] = "open" /\ login'[l] = "closed" =>
              \/ \A a \in Asks : rec[a].login # l
              \/ \E p \in Probers : probe[p].login = l /\ probe'[p].stage = "ended"
    PROVE  AuthGoes
<1>1. RegistersOnce'
  BY DEF AuthInv, RegistersOnce
<1>2. RunsAsk' /\ OpenUnanswered' /\ Watched'
  BY DEF AuthInv, RunsAsk, OpenUnanswered, Watched, Present
<1>3. GrantedAnswered' /\ OneOpen'
  BY DEF AuthInv, GrantedAnswered, OneOpen, RunLive, MayWrite, PendingLive
<1>4. AnswerStep /\ LoginStep
  BY DEF AnswerStep, LoginStep, Present
<1> QED  BY <1>1, <1>2, <1>3, <1>4 DEF AuthGoes, AuthInv

\* Records are dropped: a request may be refused at the same time, and a person told.
LEMMA DropsGo ==
    ASSUME AuthInv, AuthTypeOK', NEW D \in SUBSET Asks, Dropped(D), UNCHANGED <<asker, opening, cred, probe>>,
           \A r \in Runs : running'[r] \in {running[r], "over"},
           \A b \in Asks : reg'[b] \in {reg[b], "none"},
           \A b \in Asks : toolAnswer'[b] # toolAnswer[b] =>
              \/ /\ toolAnswer'[b] = "refused" /\ toolAnswer[b] # "success"
                 /\ rec'[b].state \notin {"pending", "late"} /\ asker[b] # NoOne /\ reg'[b] # "entered"
              \/ toolAnswer'[b] = "none" /\ running'[asker[b]] = "over",
           \A b \in Asks : shown'[b] # shown[b] =>
              /\ shown'[b] = "none" \/ (asker[b] # NoOne /\ reg'[b] = "none")
              /\ shown'[b] = "success" => rec[b].state = "success"
    PROVE  AuthGoes
<1>1. \A b \in Asks : rec'[b] \in {rec[b], NoRecord} /\ watcher'[b] \in {watcher[b], NoTask}
  BY DEF Dropped
<1>2. NoRecord.state = "absent" /\ NoRecord.login = NoLogin
  BY DEF NoRecord
<1>3. RegistersOnce'
  <2> SUFFICES ASSUME NEW b \in Asks
               PROVE  /\ asker[b] = NoOne \/ reg'[b] = "entered" => rec'[b] = NoRecord /\ toolAnswer'[b] = "none"
                      /\ asker[b] = NoOne => reg'[b] = "none"
                      /\ asker[b] = NoOne \/ reg'[b] # "none" => Untried(b)'
                      /\ reg'[b] = "checking" => toolAnswer'[b] # "success" /\ rec'[b].state \notin Terminal
    BY DEF AuthInv, RegistersOnce
  <2>1. asker[b] = NoOne => reg'[b] = "none"
    BY DEF AuthInv, RegistersOnce
  <2>2. ASSUME asker[b] = NoOne \/ reg'[b] = "entered"  PROVE rec'[b] = NoRecord /\ toolAnswer'[b] = "none"
    BY <1>1, <2>2 DEF AuthInv, RegistersOnce
  <2>3. ASSUME asker[b] = NoOne \/ reg'[b] # "none"  PROVE Untried(b)'
    BY <1>1, <1>2, <2>3 DEF AuthInv, RegistersOnce, Untried
  <2>4. ASSUME reg'[b] = "checking"  PROVE toolAnswer'[b] # "success" /\ rec'[b].state \notin Terminal
    BY <1>1, <1>2, <2>4 DEF AuthInv, RegistersOnce, Terminal
  <2> QED  BY <2>1, <2>2, <2>3, <2>4
<1>4. RunsAsk'
  BY DEF AuthInv, AuthTypeOK, RunsAsk
<1>5. OpenUnanswered'
  BY <1>1, <1>2 DEF AuthInv, OpenUnanswered
<1>6. Watched'
  BY DEF Dropped, AuthInv, Watched, Present
<1>7. \A b \in Asks : RunLive(b)' => RunLive(b)
  BY DEF RunLive, AuthInv, AuthTypeOK
<1>8. GrantedAnswered'
  <2> SUFFICES ASSUME NEW b \in Asks, RunLive(b)', "success" \in {shown'[b], rec'[b].state}
               PROVE  cred' /\ toolAnswer'[b] = "success"
    BY DEF GrantedAnswered
  <2>1. "success" \in {shown[b], rec[b].state}
    BY <1>1, <1>2
  <2>2. cred /\ toolAnswer[b] = "success"
    BY <1>7, <2>1 DEF AuthInv, GrantedAnswered
  <2>3. running'[asker[b]] # "over"
    BY DEF RunLive
  <2>4. toolAnswer'[b] = toolAnswer[b]
    BY <2>2, <2>3
  <2> QED  BY <2>2, <2>4
<1>9. OneOpen'
  BY <1>1, <1>2, <1>7 DEF AuthInv, OneOpen, MayWrite, PendingLive
<1>10. AnswerStep
  BY DEF AuthInv, AnswerStep
<1>11. LoginStep
  BY <1>6 DEF LoginStep, Watched, Present, Dropped
<1> QED  BY <1>3, <1>4, <1>5, <1>6, <1>8, <1>9, <1>10, <1>11 DEF AuthGoes, AuthInv

\* A request is answered, and its login torn down unless it was granted.
LEMMA ResolveIs ==
    ASSUME AuthTypeOK, NEW a \in Asks, NEW s \in Terminal, Resolve(a, s)
    PROVE  /\ rec' \in AuthRecs /\ rec'[a].state = s /\ \A b \in Asks \ {a} : rec'[b] = rec[b]
           /\ login' \in AuthLogins
           /\ \A l \in Logins : login'[l] # login[l] => \A b \in Asks : rec'[b].login # l
<1>1. PICK kept \in {rec[a].login, NoLogin} :
          /\ rec' = [rec EXCEPT ![a] = [state |-> s, login |-> kept]]
          /\ login' = TornDown({rec[a].login} \ {NoLogin, kept}, rec', TRUE)
  BY DEF Resolve
<1>2. rec \in AuthRecs /\ kept \in Logins \cup {NoLogin}
  BY DEF AuthTypeOK, AuthRecs
<1>3. /\ rec' \in AuthRecs /\ rec'[a].state = s /\ \A b \in Asks \ {a} : rec'[b] = rec[b]
  BY <1>1, <1>2 DEF AuthRecs, States
<1>4. login' \in AuthLogins
  BY <1>1, TornDownIs
<1>5. \A l \in Logins : login'[l] # login[l] => \A b \in Asks : rec'[b].login # l
  BY <1>1 DEF TornDown
<1> QED  BY <1>3, <1>4, <1>5

LEMMA AnswersGo ==
    ASSUME AuthInv, AuthTypeOK', NEW a \in Asks, NEW s \in Terminal, MayWrite(a), Resolve(a, s),
           s = "success" => cred, toolAnswer' = [toolAnswer EXCEPT ![a] = s],
           UNCHANGED <<running, asker, opening, cred>>, reg' = [reg EXCEPT ![a] = "none"],
           shown'[a] \in {shown[a], s}, \A b \in Asks \ {a} : shown'[b] = shown[b],
           \A b \in Asks : watcher'[b] # NoTask => watcher[b] # NoTask,
           \A q \in Probers : probe'[q].stage # "idle" => probe'[q] = probe[q]
    PROVE  AuthGoes
<1>1. /\ rec'[a].state = s /\ \A b \in Asks \ {a} : rec'[b] = rec[b]
      /\ \A l \in Logins : login'[l] # login[l] => \A b \in Asks : rec'[b].login # l
  BY ResolveIs DEF AuthInv
<1>2. rec[a].state = "pending" /\ RunLive(a) /\ asker[a] # NoOne /\ toolAnswer[a] = "none"
  BY DEF MayWrite, PendingLive, RunLive, AuthInv, OpenUnanswered
<1>3. /\ toolAnswer'[a] = s /\ reg'[a] = "none"
      /\ \A b \in Asks \ {a} : toolAnswer'[b] = toolAnswer[b] /\ reg'[b] = reg[b]
  BY DEF AuthInv, AuthTypeOK
<1>4. RegistersOnce'
  BY <1>1, <1>2, <1>3 DEF AuthInv, RegistersOnce, Untried
<1>5. RunsAsk'
  BY DEF AuthInv, RunsAsk
<1>6. OpenUnanswered'
  BY <1>1, <1>3 DEF AuthInv, OpenUnanswered, Terminal
<1>7. GrantedAnswered'
  BY <1>1, <1>2, <1>3 DEF AuthInv, GrantedAnswered, RunLive, Terminal
<1>8. OneOpen'
  BY <1>1 DEF AuthInv, OneOpen, MayWrite, PendingLive, RunLive, Terminal
<1>9. Watched'
  BY <1>1 DEF AuthInv, Watched, Present, NoRecord, Terminal
<1>10. AnswerStep
  BY <1>2, <1>3, <1>7 DEF AuthInv, AnswerStep
<1>11. LoginStep
  BY <1>1, <1>9 DEF LoginStep, Watched, Present
<1> QED  BY <1>4, <1>5, <1>6, <1>7, <1>8, <1>9, <1>10, <1>11 DEF AuthGoes, AuthInv

-----------------------------------------------------------------------------
\* A run begins.
LEMMA RunStartGoes == ASSUME AuthInv, NEW r \in Runs, RunStart(r) PROVE AuthGoes
<1> USE DEF RunStart, askVars
<1>0. AuthTypeOK
  BY DEF AuthInv
<1>1. running' = [running EXCEPT ![r] = "live"] /\ running[r] = "new"
  OBVIOUS
<1>2. AuthTypeOK'
  BY <1>0 DEF AuthTypeOK
<1>3. \A a \in Asks : RunLive(a)' <=> RunLive(a)
  BY <1>0 DEF AuthInv, RunsAsk, RunLive, AuthTypeOK
<1>4. RegistersOnce' /\ OpenUnanswered' /\ Watched'
  BY DEF AuthInv, RegistersOnce, Untried, OpenUnanswered, Watched, Present
<1>5. RunsAsk'
  BY <1>0 DEF AuthInv, RunsAsk, AuthTypeOK
<1>6. GrantedAnswered' /\ OneOpen'
  BY <1>3 DEF AuthInv, GrantedAnswered, OneOpen, MayWrite, PendingLive
<1>7. AnswerStep /\ LoginStep
  BY <1>4 DEF AnswerStep, LoginStep, Watched, Present
<1> QED  BY <1>2, <1>4, <1>5, <1>6, <1>7 DEF AuthGoes, AuthInv

\* A tool call asks.
LEMMA AskGoes ==
    ASSUME AuthInv, NEW a \in Asks, NEW r \in Runs, NEW s \in Services, Ask(a, r, s)
    PROVE  AuthGoes
<1> USE AuthAssumption DEF Ask
<1>0. AuthTypeOK
  BY DEF AuthInv
<1>1. AuthTypeOK'
  BY <1>0 DEF AuthTypeOK
<1>2. rec[a] = NoRecord /\ toolAnswer[a] = "none" /\ Untried(a)
  BY DEF AuthInv, RegistersOnce
<1>3. /\ asker'[a] = r /\ reg'[a] = "entered" /\ r # NoOne
      /\ \A b \in Asks \ {a} : asker'[b] = asker[b] /\ reg'[b] = reg[b]
  BY <1>0 DEF AuthTypeOK
<1>4. RegistersOnce'
  BY <1>2, <1>3 DEF AuthInv, RegistersOnce, Untried
<1>5. RunsAsk' /\ OpenUnanswered' /\ Watched'
  BY <1>3 DEF AuthInv, RunsAsk, OpenUnanswered, Watched, Present
<1>6. GrantedAnswered'
  BY <1>2, <1>3 DEF AuthInv, GrantedAnswered, RunLive, Untried, NoRecord
<1>7. OneOpen'
  BY <1>2, <1>3 DEF AuthInv, OneOpen, MayWrite, PendingLive, RunLive, NoRecord
<1>8. AnswerStep /\ LoginStep
  BY <1>5 DEF AnswerStep, LoginStep, Watched, Present
<1> QED  BY <1>1, <1>4, <1>5, <1>6, <1>7, <1>8 DEF AuthGoes, AuthInv

\* No record is dropped.
LEMMA NoneDropped == ASSUME AuthTypeOK, UNCHANGED <<rec, login, watcher>> PROVE Dropped({})
BY DEF Dropped, AuthTypeOK, AuthRecs, AuthLogins, AuthWatchers

\* Telling a person, and writing an answer, change one request.
LEMMA TellIs ==
    ASSUME AuthTypeOK, NEW a \in Asks, NEW s \in Terminal \cup {"pending"}, Tell(a, s)
    PROVE  /\ shown' \in [Asks -> Terminal \cup {"none", "pending"}]
           /\ \A b \in Asks : shown'[b] # shown[b] => b = a /\ shown'[a] = s /\ RunLive(a)
           /\ RunLive(a) => shown'[a] = s
BY DEF AuthTypeOK, Tell
LEMMA PublishIs ==
    ASSUME AuthTypeOK, NEW a \in Asks, NEW s \in Terminal, NEW wrote \in BOOLEAN, Publish(a, s, wrote)
    PROVE  /\ toolAnswer' \in [Asks -> Terminal \cup {"none"}]
           /\ \A b \in Asks : toolAnswer'[b] # toolAnswer[b] => b = a /\ toolAnswer'[a] = s
           /\ wrote => toolAnswer' = [toolAnswer EXCEPT ![a] = s]
BY DEF AuthTypeOK, Publish

LEMMA RefuseGoes ==
    ASSUME AuthInv, NEW a \in Asks, NEW wrote \in BOOLEAN, RefuseRegistration(a, wrote)
    PROVE  AuthGoes
<1>1. /\ UNCHANGED <<running, asker, service, blocked, rec, opening, login, cred, watcher, probe>>
      /\ reg[a] = "entered" /\ reg' = [reg EXCEPT ![a] = "none"]
      /\ Publish(a, "refused", wrote) /\ Tell(a, "refused")
  BY DEF RefuseRegistration, askVars
<1>2. AuthTypeOK /\ "refused" \in Terminal
  BY DEF AuthInv, Terminal
<1>3. AuthTypeOK'
  BY <1>1, <1>2, TellIs, PublishIs DEF AuthTypeOK
<1>4. rec[a] = NoRecord /\ toolAnswer[a] = "none" /\ asker[a] # NoOne
  BY <1>1 DEF AuthInv, RegistersOnce
<1>5. reg'[a] = "none" /\ \A b \in Asks : reg'[b] \in {reg[b], "none"}
  BY <1>1, <1>2 DEF AuthTypeOK
<1>6. Dropped({}) /\ \A r \in Runs : running'[r] \in {running[r], "over"}
  BY <1>1, <1>2, NoneDropped
<1>7. \A b \in Asks : toolAnswer'[b] # toolAnswer[b] => b = a /\ toolAnswer'[b] = "refused"
  BY <1>1, <1>2, PublishIs
<1>8. \A b \in Asks : shown'[b] # shown[b] => b = a /\ shown'[b] = "refused"
  BY <1>1, <1>2, TellIs
<1> QED  BY <1>1, <1>3, <1>4, <1>5, <1>6, <1>7, <1>8, DropsGo DEF NoRecord

LEMMA AuthorizeGoes ==
    ASSUME AuthInv, NEW a \in Asks, Authorize(a)
    PROVE  AuthGoes
<1> USE DEF Authorize, askVars, Published
<1>1. AuthTypeOK'
  BY AuthAssumption DEF AuthInv, RunsAsk, AuthTypeOK, Logins, NoProbe
<1>2. \A b \in Asks : asker[b] = NoOne \/ reg[b] # "none" => Untried(b)'
  BY AuthAssumption DEF AuthInv, AuthTypeOK, RegistersOnce, Untried, NoRecord, NoProbe
<1>3. /\ \A b \in Asks : watcher'[b] # NoTask => Present(b)
      /\ \A q \in Probers : probe'[q].stage # "idle" => probe'[q].ask \in Asks
  BY AuthAssumption DEF AuthInv, AuthTypeOK, Watched, RunsAsk, Present, NoRecord, NoProbe
<1>4. \A l \in Logins : login[l] = "open" /\ login'[l] = "closed" =>
          \/ \A b \in Asks : rec[b].login # l
          \/ \E q \in Probers : probe[q].login = l /\ probe'[q].stage = "ended"
  BY AuthAssumption DEF AuthInv, AuthTypeOK, Logins
<1> QED  BY <1>1, <1>2, <1>3, <1>4, OthersGo

LEMMA StartFlowGoes ==
    ASSUME AuthInv, NEW a \in Asks, NEW k, StartFlow(a, k) \/ StartFlowFails(a)
    PROVE  AuthGoes
<1>1. /\ UNCHANGED <<running, asker, service, blocked, toolAnswer, rec, reg, cred, watcher, probe, shown>>
      /\ opening[a] = "starting" /\ opening' = [opening EXCEPT ![a] = opening'[a]]
      /\ opening'[a] \in {"no"} \cup Logins
  BY DEF StartFlow, StartFlowFails, askVars, AuthInv, AuthTypeOK, Logins
<1>2. login' \in AuthLogins /\ \A l \in Logins : login'[l] \in {login[l], "open"}
  BY DEF StartFlow, StartFlowFails, AuthInv, AuthTypeOK, AuthLogins
<1>3. AuthTypeOK'
  BY <1>1, <1>2 DEF AuthInv, AuthTypeOK, AuthLogins
<1>4. \A b \in Asks : asker[b] = NoOne \/ reg[b] # "none" => Untried(b)'
  BY <1>1 DEF AuthInv, AuthTypeOK, RegistersOnce, Untried
<1> QED  BY <1>1, <1>2, <1>3, <1>4, OthersGo DEF AuthInv, Watched, RunsAsk

\* A thread begins to probe a request that is open.
LEMMA ProbeBegins ==
    ASSUME AuthInv, NEW a \in Asks, NEW p \in Probers, NEW stage \in {"poll", "last"},
           Snapshot(p, a, stage), opening[a] # "no" \/ shown[a] # "none" \/ watcher[a] # NoTask
               \/ rec[a].login # NoLogin
    PROVE  /\ probe' \in AuthProbes
           /\ \A q \in Probers : probe'[q].stage # "idle" => probe'[q].ask \in Asks
           /\ \A b \in Asks : asker[b] = NoOne \/ reg[b] # "none" =>
                  \A q \in Probers : probe'[q].stage # "idle" => probe'[q].ask # b
<1>1. probe' = [probe EXCEPT ![p] = [ask |-> a, login |-> rec[a].login, stage |-> stage]]
  BY DEF Snapshot
<1>2. rec[a].login \in Logins \cup {NoLogin}
  BY DEF AuthInv, AuthTypeOK
<1>3. probe \in AuthProbes
  BY DEF AuthInv, AuthTypeOK, AuthProbes
<1>4. probe' \in AuthProbes
  BY <1>1, <1>2, <1>3 DEF AuthProbes
<1>5. probe'[p].ask = a /\ \A q \in Probers \ {p} : probe'[q] = probe[q]
  BY <1>1, <1>3 DEF AuthProbes
<1>6. ~(asker[a] = NoOne \/ reg[a] # "none")
  BY DEF AuthInv, RegistersOnce, Untried
<1> QED  BY <1>4, <1>5, <1>6 DEF AuthInv, RunsAsk, RegistersOnce, Untried

LEMMA WatchGoes ==
    ASSUME AuthInv, NEW a \in Asks, NEW p,
           WatchStops(a) \/ (p \in Probers /\ (WatchProbes(a, p) \/ Confirm(a, p)))
    PROVE  AuthGoes
<1>1. UNCHANGED <<running, asker, service, blocked, toolAnswer, rec, reg, opening, login, cred, shown>>
  BY DEF WatchStops, WatchProbes, Confirm, askVars
<1>2. watcher' \in AuthWatchers /\ \A b \in Asks : watcher'[b] # NoTask => watcher[b] # NoTask
  BY AuthAssumption DEF WatchStops, WatchProbes, Confirm, AuthInv, AuthTypeOK, AuthWatchers
<1>3. /\ probe' \in AuthProbes
      /\ \A q \in Probers : probe'[q].stage # "idle" => probe'[q].ask \in Asks
      /\ \A b \in Asks : asker[b] = NoOne \/ reg[b] # "none" =>
             \A q \in Probers : probe'[q].stage # "idle" => probe'[q].ask # b
  <2>1. CASE WatchStops(a)
    BY <2>1 DEF WatchStops, AuthInv, AuthTypeOK, AuthProbes, RunsAsk, RegistersOnce, Untried
  <2>2. CASE p \in Probers /\ (WatchProbes(a, p) \/ Confirm(a, p))
    <3>1. Snapshot(p, a, "poll") /\ (shown[a] # "none" \/ watcher[a] # NoTask)
      BY <2>2, AuthAssumption DEF WatchProbes, Confirm, Published
    <3> QED  BY <2>2, <3>1, ProbeBegins
  <2> QED  BY <2>1, <2>2
<1>4. AuthTypeOK'
  BY <1>1, <1>2, <1>3 DEF AuthInv, AuthTypeOK, AuthWatchers, AuthProbes
<1>5. \A b \in Asks : asker[b] = NoOne \/ reg[b] # "none" => Untried(b)'
  BY <1>1, <1>2, <1>3 DEF AuthInv, RegistersOnce, Untried
<1> QED  BY <1>1, <1>2, <1>3, <1>4, <1>5, OthersGo DEF AuthInv, Watched

\* The provider answers a login process.
LEMMA KepCallbackGoes ==
    ASSUME AuthInv, NEW a \in Asks, NEW p \in Probers, KepCallback(a, p)
    PROVE  AuthGoes
<1>1. /\ UNCHANGED <<running, asker, service, blocked, toolAnswer, rec, reg, opening, watcher, shown>>
      /\ cred' \in {cred, TRUE} /\ rec[a].login \in KepLogins
  BY DEF KepCallback, askVars
<1>2. cred' \in BOOLEAN /\ (cred => cred')
  <2>1. cred \in BOOLEAN
    BY DEF AuthInv, AuthTypeOK
  <2>2. CASE cred' = cred
    BY <2>1, <2>2
  <2>3. CASE cred' = TRUE
    BY <2>3
  <2> QED  BY <1>1, <2>2, <2>3
<1>3. login' \in AuthLogins /\ \A l \in Logins : login'[l] \in {login[l], "granted"}
  BY DEF KepCallback, AuthInv, AuthTypeOK, AuthLogins
<1>4. /\ probe' \in AuthProbes
      /\ \A q \in Probers : probe'[q].stage # "idle" => probe'[q].ask \in Asks
      /\ \A b \in Asks : asker[b] = NoOne \/ reg[b] # "none" =>
             \A q \in Probers : probe'[q].stage # "idle" => probe'[q].ask # b
  <2>1. CASE PendingLive(a)
    <3>1. Snapshot(p, a, "last") /\ rec[a].login # NoLogin
      BY <1>1, <2>1, AuthAssumption DEF KepCallback
    <3> QED  BY <3>1, ProbeBegins
  <2>2. CASE ~PendingLive(a)
    BY <2>2 DEF KepCallback, AuthInv, AuthTypeOK, AuthProbes, RunsAsk, RegistersOnce, Untried
  <2> QED  BY <2>1, <2>2
<1>5. AuthTypeOK'
  BY <1>1, <1>2, <1>3, <1>4 DEF AuthInv, AuthTypeOK, AuthLogins, AuthProbes
<1>6. \A b \in Asks : asker[b] = NoOne \/ reg[b] # "none" => Untried(b)'
  BY <1>1, <1>4 DEF AuthInv, RegistersOnce, Untried
<1> QED  BY <1>1, <1>2, <1>3, <1>4, <1>5, <1>6, OthersGo DEF AuthInv, Watched

\* A probe asks the provider.
LEMMA ProbePollGoes ==
    ASSUME AuthInv, NEW p \in Probers, ProbePoll(p)
    PROVE  AuthGoes
<1>1. UNCHANGED <<running, asker, service, blocked, toolAnswer, rec, reg, opening, watcher, shown>>
  BY DEF ProbePoll, askVars
<1>2. PICK s \in {"verify", "last", "ended"} : probe' = [probe EXCEPT ![p].stage = s]
  BY DEF ProbePoll
<1>3. probe \in AuthProbes /\ probe[p].stage = "poll" /\ probe[p].ask \in Asks
  BY DEF ProbePoll, AuthInv, AuthTypeOK, AuthProbes, RunsAsk
<1>4. /\ probe' \in AuthProbes
      /\ probe'[p].ask = probe[p].ask /\ \A q \in Probers \ {p} : probe'[q] = probe[q]
  BY <1>2, <1>3 DEF AuthProbes
<1>5. cred' \in BOOLEAN /\ (cred => cred')
  BY DEF ProbePoll, AuthInv, AuthTypeOK
<1>6. /\ login' \in AuthLogins
      /\ \A l \in Logins : login'[l] # login[l] =>
            l = probe[p].login /\ (login'[l] = "closed" => probe'[p].stage = "ended")
  <2>1. CASE UNCHANGED login
    BY <2>1 DEF AuthInv, AuthTypeOK, AuthLogins
  <2>2. CASE login' = [login EXCEPT ![probe[p].login] = "granted"]
    BY <2>2 DEF AuthInv, AuthTypeOK, AuthLogins
  <2>3. CASE /\ login' = [login EXCEPT ![probe[p].login] = "closed"]
             /\ probe' = [probe EXCEPT ![p].stage = "ended"]
    <3>1. probe'[p].stage = "ended"
      BY <2>3, <1>3 DEF AuthProbes
    <3> QED  BY <2>3, <3>1 DEF AuthInv, AuthTypeOK, AuthLogins
  <2> QED  BY <2>1, <2>2, <2>3 DEF ProbePoll
<1>7. AuthTypeOK'
  BY <1>1, <1>4, <1>5, <1>6 DEF AuthInv, AuthTypeOK, AuthLogins, AuthProbes
<1>8. \A b \in Asks : asker[b] = NoOne \/ reg[b] # "none" => Untried(b)'
  BY <1>1, <1>3, <1>4 DEF AuthInv, RegistersOnce, Untried
<1>9. \A q \in Probers : probe'[q].stage # "idle" => probe'[q].ask \in Asks
  BY <1>3, <1>4 DEF AuthInv, RunsAsk
<1>10. \A l \in Logins : login[l] = "open" /\ login'[l] = "closed" =>
           \E q \in Probers : probe[q].login = l /\ probe'[q].stage = "ended"
  BY <1>6
<1> QED  BY <1>1, <1>5, <1>7, <1>8, <1>9, <1>10, OthersGo DEF AuthInv, Watched


\* A request is registered, after the dead ones were purged, or refused as a duplicate.
LEMMA RegisterAskGoes ==
    ASSUME AuthInv, NEW a \in Asks, NEW wrote \in BOOLEAN, RegisterAsk(a, wrote)
    PROVE  AuthGoes
<1> DEFINE rr == [b \in Asks |-> IF b \in Doomed THEN NoRecord ELSE rec[b]]
           lgs == {rec[b].login : b \in Doomed} \ {NoLogin}
<1>1. /\ UNCHANGED <<running, asker, service, blocked, opening, cred, probe>>
      /\ reg[a] = "entered" /\ login' = TornDown(lgs, rr, TRUE) /\ watcher' = Unwatched(Doomed)
      /\ Doomed \in SUBSET Asks
  BY DEF RegisterAsk, askVars, Doomed
<1>2. AuthTypeOK /\ "refused" \in Terminal
  BY DEF AuthInv, Terminal
<1>3. /\ rec[a] = NoRecord /\ toolAnswer[a] = "none" /\ asker[a] # NoOne /\ Untried(a)
      /\ a \notin Doomed
  BY <1>1 DEF AuthInv, RegistersOnce, Doomed, Present
<1>4. ASSUME Duplicate(a)  PROVE AuthGoes
  <2>1. /\ rec' = rr /\ reg' = [reg EXCEPT ![a] = "none"]
        /\ Publish(a, "refused", wrote) /\ Tell(a, "refused")
    BY <1>4 DEF RegisterAsk
  <2>2. Drop(Doomed)
    BY <1>1, <2>1 DEF Drop
  <2>3. Dropped(Doomed)
    BY <1>1, <1>2, <2>2, DropIs
  <2>4. AuthTypeOK'
    <3>1. toolAnswer' \in [Asks -> Terminal \cup {"none"}] /\ shown' \in [Asks -> Terminal \cup {"none", "pending"}]
      BY <1>2, <2>1, TellIs, PublishIs
    <3>2. reg' \in [Asks -> {"none", "entered", "checking"}]
      BY <1>2, <2>1 DEF AuthTypeOK
    <3>3. rec' \in AuthRecs /\ login' \in AuthLogins /\ watcher' \in AuthWatchers
      BY <2>3 DEF Dropped
    <3> HIDE DEF rr, lgs
    <3> QED  BY <1>1, <1>2, <3>1, <3>2, <3>3 DEF AuthTypeOK, AuthRecs, AuthLogins, AuthWatchers
  <2>5. reg'[a] = "none" /\ \A b \in Asks : reg'[b] \in {reg[b], "none"}
    BY <1>2, <2>1 DEF AuthTypeOK
  <2>6. \A b \in Asks : toolAnswer'[b] # toolAnswer[b] => b = a /\ toolAnswer'[b] = "refused"
    BY <1>2, <2>1, PublishIs
  <2>7. \A b \in Asks : shown'[b] # shown[b] => b = a /\ shown'[b] = "refused"
    BY <1>2, <2>1, TellIs
  <2>8. rec'[a].state = "absent"
    BY <1>3, <2>3 DEF Dropped, NoRecord
  <2>9. \A q \in Runs : running'[q] \in {running[q], "over"}
    BY <1>1
  <2> QED  BY <1>1, <1>3, <2>3, <2>4, <2>5, <2>6, <2>7, <2>8, <2>9, DropsGo
<1>5. ASSUME ~Duplicate(a)  PROVE AuthGoes
  <2>1. /\ rec' = [rr EXCEPT ![a] = [state |-> "pending", login |-> NoLogin]]
        /\ reg' = [reg EXCEPT ![a] = "checking"] /\ UNCHANGED <<toolAnswer, shown>>
    BY <1>5 DEF RegisterAsk
  <2>2. rr \in AuthRecs
    BY <1>2 DEF AuthTypeOK, AuthRecs, NoRecord, States
  <2>3. /\ rec' \in AuthRecs /\ rec'[a] = [state |-> "pending", login |-> NoLogin]
        /\ \A b \in Asks \ {a} : rec'[b] = rr[b]
    BY <2>1, <2>2 DEF AuthRecs, States
  <2>4. \A b \in Asks : rr[b] = IF b \in Doomed THEN NoRecord ELSE rec[b]
    OBVIOUS
  <2>5. /\ reg'[a] = "checking" /\ \A b \in Asks \ {a} : reg'[b] = reg[b]
        /\ reg' \in [Asks -> {"none", "entered", "checking"}]
    BY <1>2, <2>1 DEF AuthTypeOK
  <2>6. /\ watcher' \in AuthWatchers
        /\ \A b \in Asks : watcher'[b] # NoTask => b \notin Doomed /\ watcher[b] # NoTask
        /\ \A b \in Asks : watcher'[b] \in {watcher[b], NoTask}
    BY <1>1, <1>2 DEF Unwatched, AuthTypeOK, AuthWatchers
  <2>7. /\ login' \in AuthLogins
        /\ \A l \in Logins : login'[l] # login[l] => \A b \in Asks : rr[b].login # l
    <3> HIDE DEF rr, lgs
    <3>1. TornDown(lgs, rr, TRUE) \in AuthLogins
      BY <1>2, TornDownIs
    <3>2. \A l \in Logins : TornDown(lgs, rr, TRUE)[l] # login[l] => \A b \in Asks : rr[b].login # l
      BY DEF TornDown
    <3> QED  BY <1>1, <3>1, <3>2
  <2> HIDE DEF rr, lgs
  <2>8. \A l \in Logins : login'[l] # login[l] => \A b \in Asks : rec'[b].login # l
    BY <2>3, <2>7, AuthAssumption DEF Logins
  <2>9. AuthTypeOK'
    BY <1>1, <1>2, <2>1, <2>3, <2>5, <2>6, <2>7 DEF AuthTypeOK, AuthRecs, AuthLogins, AuthWatchers
  <2>10. NoRecord.state = "absent" /\ NoRecord.login = NoLogin
    BY DEF NoRecord
  <2>11. \A b \in Asks \ {a} : rec'[b] \in {rec[b], NoRecord}
    BY <2>3, <2>4
  <2>12. RegistersOnce'
    <3> SUFFICES ASSUME NEW b \in Asks
                 PROVE  /\ asker[b] = NoOne \/ reg'[b] = "entered" => rec'[b] = NoRecord /\ toolAnswer[b] = "none"
                        /\ asker[b] = NoOne => reg'[b] = "none"
                        /\ asker[b] = NoOne \/ reg'[b] # "none" => Untried(b)'
                        /\ reg'[b] = "checking" => toolAnswer[b] # "success" /\ rec'[b].state \notin Terminal
      BY <1>1, <2>1 DEF RegistersOnce
    <3>1. CASE b = a
      BY <1>1, <1>3, <2>1, <2>3, <2>5, <2>6, <3>1 DEF Untried, Terminal
    <3>2. CASE b # a
      <4>1. asker[b] = NoOne \/ reg[b] # "none" => Untried(b)'
        BY <1>1, <2>1, <2>6, <2>10, <2>11, <3>2 DEF AuthInv, RegistersOnce, Untried
      <4> QED  BY <2>5, <2>10, <2>11, <3>2, <4>1 DEF AuthInv, RegistersOnce, Terminal
    <3> QED  BY <3>1, <3>2
  <2>13. RunsAsk'
    BY <1>1 DEF AuthInv, RunsAsk
  <2>14. OpenUnanswered'
    BY <1>3, <2>1, <2>10, <2>11 DEF AuthInv, OpenUnanswered
  <2>15. \A b \in Asks : RunLive(b)' <=> RunLive(b)
    BY <1>1 DEF RunLive
  <2>16. GrantedAnswered'
    BY <1>1, <2>1, <2>3, <2>10, <2>11, <2>15 DEF AuthInv, GrantedAnswered
  <2>17. OneOpen'
    <3> SUFFICES ASSUME NEW b \in Asks, NEW c \in Asks, b # c, asker[b] = asker[c], b # a,
                        MayWrite(b)', MayWrite(c)'
                 PROVE  FALSE
      BY <1>1 DEF OneOpen
    <3>1. rec'[b].state = "pending" /\ rec'[c].state = "pending" /\ RunLive(b) /\ RunLive(c)
      BY <2>15 DEF MayWrite, PendingLive
    <3>2. b \notin Doomed /\ rec[b].state = "pending"
      BY <2>3, <2>4, <2>10, <3>1
    <3>3. c # a
      BY <1>5, <3>2 DEF Duplicate
    <3>4. rec[c].state = "pending"
      BY <2>10, <2>11, <3>1, <3>3
    <3> QED  BY <3>1, <3>2, <3>4 DEF AuthInv, OneOpen, MayWrite, PendingLive
  <2>18. Watched'
    BY <2>3, <2>4, <2>6, <1>3 DEF AuthInv, Watched, Present, Untried
  <2>19. AnswerStep /\ LoginStep
    BY <2>1, <2>8, <2>18 DEF AnswerStep, LoginStep, Watched, Present
  <2> QED  BY <2>9, <2>12, <2>13, <2>14, <2>16, <2>17, <2>18, <2>19 DEF AuthGoes, AuthInv
<1> QED  BY <1>4, <1>5

\* The credential was checked before the user is asked.
LEMMA RegisterCheckedGoes ==
    ASSUME AuthInv, NEW a \in Asks, NEW v \in BOOLEAN, NEW wrote \in BOOLEAN, RegisterChecked(a, v, wrote)
    PROVE  AuthGoes
<1>1. /\ UNCHANGED <<running, asker, service, blocked, opening, cred, probe>>
      /\ reg[a] = "checking" /\ reg' = [reg EXCEPT ![a] = "none"] /\ (v => cred)
  BY DEF RegisterChecked, askVars, Verifies
<1>2. AuthTypeOK /\ "refused" \in Terminal /\ "success" \in Terminal
  BY DEF AuthInv, Terminal
<1>3. asker[a] # NoOne /\ toolAnswer[a] # "success"
  BY <1>1 DEF AuthInv, RegistersOnce
<1>4. reg'[a] = "none" /\ \A b \in Asks : reg'[b] \in {reg[b], "none"}
  BY <1>1, <1>2 DEF AuthTypeOK
<1>5. reg' \in [Asks -> {"none", "entered", "checking"}] /\ \A q \in Runs : running'[q] \in {running[q], "over"}
  BY <1>1, <1>2 DEF AuthTypeOK
<1>6. ASSUME Tell(a, "pending"), UNCHANGED <<toolAnswer, rec, login, watcher>>  PROVE AuthGoes
  <2>1. Dropped({})
    BY <1>2, <1>6, NoneDropped
  <2>2. AuthTypeOK' /\ \A b \in Asks : shown'[b] # shown[b] => b = a /\ shown'[b] = "pending"
    BY <1>1, <1>2, <1>5, <1>6, TellIs DEF AuthTypeOK
  <2> QED  BY <1>1, <1>3, <1>4, <1>5, <1>6, <2>1, <2>2, DropsGo
<1>7. ASSUME v, MayWrite(a), wrote, Publish(a, "success", wrote), Resolve(a, "success"), Tell(a, "success"),
             UNCHANGED watcher
      PROVE  AuthGoes
  <2>1. rec' \in AuthRecs /\ login' \in AuthLogins
    BY <1>2, <1>7, ResolveIs
  <2>2. toolAnswer' = [toolAnswer EXCEPT ![a] = "success"] /\ toolAnswer' \in [Asks -> Terminal \cup {"none"}]
    <3>1. toolAnswer' = [toolAnswer EXCEPT ![a] = "success"]
      BY <1>7 DEF Publish
    <3> QED  BY <1>2, <3>1 DEF AuthTypeOK
  <2>3. /\ shown' \in [Asks -> Terminal \cup {"none", "pending"}]
        /\ shown'[a] \in {shown[a], "success"} /\ \A b \in Asks \ {a} : shown'[b] = shown[b]
    BY <1>2, <1>7, TellIs
  <2>4. AuthTypeOK'
    BY <1>1, <1>2, <1>5, <1>7, <2>1, <2>2, <2>3 DEF AuthTypeOK, AuthRecs, AuthLogins
  <2>5. "success" = "success" => cred
    BY <1>1, <1>7
  <2> HIDE DEF Resolve
  <2> QED  BY <1>1, <1>2, <1>7, <2>2, <2>3, <2>4, <2>5, AnswersGo
<1>8. ASSUME Drop({a}), Publish(a, "refused", wrote), Tell(a, "refused")  PROVE AuthGoes
  <2>1. Dropped({a})
    BY <1>2, <1>8, DropIs
  <2>2. AuthTypeOK'
    BY <1>1, <1>2, <1>5, <1>8, <2>1, TellIs, PublishIs
       DEF AuthTypeOK, Dropped, AuthRecs, AuthLogins, AuthWatchers
  <2>3. \A b \in Asks : toolAnswer'[b] # toolAnswer[b] => b = a /\ toolAnswer'[b] = "refused"
    BY <1>2, <1>8, PublishIs
  <2>4. \A b \in Asks : shown'[b] # shown[b] => b = a /\ shown'[b] = "refused"
    BY <1>2, <1>8, TellIs
  <2>5. rec'[a].state = "absent"
    BY <2>1 DEF Dropped, NoRecord
  <2> QED  BY <1>1, <1>3, <1>4, <1>5, <2>1, <2>2, <2>3, <2>4, <2>5, DropsGo
<1> QED  BY <1>6, <1>7, <1>8 DEF RegisterChecked

\* A login that was started is handed to its request, if that is still there.
LEMMA FlowStartedGoes == ASSUME AuthInv, NEW a \in Asks, FlowStarted(a) PROVE AuthGoes
<1> DEFINE l == opening[a]
           rr == [rec EXCEPT ![a].login = l]
<1>1. /\ UNCHANGED <<running, asker, service, blocked, toolAnswer, reg, cred, probe, shown>>
      /\ l \in Logins /\ opening' = [opening EXCEPT ![a] = "no"]
  BY DEF FlowStarted, askVars
<1>2. AuthTypeOK
  BY DEF AuthInv
<1>3. asker[a] # NoOne /\ reg[a] = "none"
  BY <1>1, AuthAssumption DEF AuthInv, RegistersOnce, Untried, Logins
<1>4. /\ opening' \in [Asks -> {"no", "starting"} \cup Logins]
      /\ \A b \in Asks \ {a} : opening'[b] = opening[b]
  BY <1>1, <1>2 DEF AuthTypeOK
<1>5. ASSUME UNCHANGED <<rec, watcher>>, login' = TornDown({l}, rec, FALSE)  PROVE AuthGoes
  <2>1. login' \in AuthLogins /\ \A k \in Logins : login'[k] # login[k] => \A b \in Asks : rec[b].login # k
    <3> HIDE DEF l
    <3>1. TornDown({l}, rec, FALSE) \in AuthLogins
      BY <1>2, TornDownIs
    <3>2. \A k \in Logins : TornDown({l}, rec, FALSE)[k] # login[k] => \A b \in Asks : rec[b].login # k
      BY DEF TornDown
    <3> QED  BY <1>5, <3>1, <3>2
  <2>2. AuthTypeOK'
    BY <1>1, <1>2, <1>4, <1>5, <2>1 DEF AuthTypeOK, AuthLogins
  <2>3. \A b \in Asks : asker[b] = NoOne \/ reg[b] # "none" => Untried(b)'
    BY <1>1, <1>3, <1>4, <1>5 DEF AuthInv, RegistersOnce, Untried
  <2> QED  BY <1>1, <1>5, <2>1, <2>2, <2>3, OthersGo DEF AuthInv, Watched, RunsAsk
<1>6. ASSUME PendingLive(a), rec' = rr, login' = TornDown({rec[a].login} \ {l, NoLogin}, rr, FALSE),
             watcher' = [watcher EXCEPT ![a] = IF l \in LarkLogins THEN "sleep" ELSE NoTask]
      PROVE  AuthGoes
  <2>1. /\ rec' \in AuthRecs /\ rec'[a].state = "pending"
        /\ \A b \in Asks : rec'[b].state = rec[b].state
        /\ \A b \in Asks \ {a} : rec'[b] = rec[b]
    BY <1>1, <1>2, <1>6 DEF AuthTypeOK, AuthRecs, PendingLive
  <2>2. login' \in AuthLogins /\ \A k \in Logins : login'[k] # login[k] => \A b \in Asks : rec'[b].login # k
    <3> DEFINE lgs == {rec[a].login} \ {l, NoLogin}
    <3>1. login' = TornDown(lgs, rr, FALSE)
      BY <1>6
    <3> HIDE DEF rr, l, lgs
    <3>2. TornDown(lgs, rr, FALSE) \in AuthLogins
      BY <1>2, TornDownIs
    <3>3. \A k \in Logins : TornDown(lgs, rr, FALSE)[k] # login[k] => \A b \in Asks : rr[b].login # k
      BY DEF TornDown
    <3> QED  BY <1>6, <3>1, <3>2, <3>3
  <2>3. watcher' \in AuthWatchers /\ \A b \in Asks \ {a} : watcher'[b] = watcher[b]
    BY <1>2, <1>6 DEF AuthTypeOK, AuthWatchers
  <2>4. AuthTypeOK'
    BY <1>1, <1>2, <1>4, <2>1, <2>2, <2>3 DEF AuthTypeOK, AuthRecs, AuthLogins, AuthWatchers
  <2>5. RegistersOnce'
    <3> SUFFICES ASSUME NEW b \in Asks
                 PROVE  /\ asker[b] = NoOne \/ reg[b] = "entered" => rec'[b] = NoRecord /\ toolAnswer[b] = "none"
                        /\ asker[b] = NoOne => reg[b] = "none"
                        /\ asker[b] = NoOne \/ reg[b] # "none" => Untried(b)'
                        /\ reg[b] = "checking" => toolAnswer[b] # "success" /\ rec'[b].state \notin Terminal
      BY <1>1 DEF RegistersOnce
    <3>1. asker[b] = NoOne \/ reg[b] # "none" => b # a
      BY <1>3
    <3>2. b # a /\ Untried(b) => Untried(b)'
      BY <1>1, <1>4, <2>1, <2>3 DEF Untried
    <3> QED  BY <1>3, <2>1, <3>1, <3>2 DEF AuthInv, RegistersOnce
  <2>6. RunsAsk' /\ OpenUnanswered'
    BY <1>1, <2>1 DEF AuthInv, RunsAsk, OpenUnanswered
  <2>7. \A b \in Asks : (RunLive(b)' <=> RunLive(b)) /\ (MayWrite(b)' <=> MayWrite(b))
    BY <1>1, <2>1 DEF RunLive, MayWrite, PendingLive
  <2>8. GrantedAnswered' /\ OneOpen'
    BY <1>1, <2>1, <2>7 DEF AuthInv, GrantedAnswered, OneOpen
  <2>9. Watched'
    BY <2>1, <2>3 DEF AuthInv, Watched, Present, NoRecord
  <2>10. AnswerStep /\ LoginStep
    BY <1>1, <2>2, <2>9 DEF AnswerStep, LoginStep, Watched, Present
  <2> QED  BY <2>4, <2>5, <2>6, <2>8, <2>9, <2>10 DEF AuthGoes, AuthInv
<1> QED  BY <1>5, <1>6 DEF FlowStarted

\* A success is one that was verified.
LEMMA OutcomeIs ==
    ASSUME NEW p, NEW v \in BOOLEAN
    PROVE  Outcome(p, v) \in Terminal \cup {"pending"} /\ (Outcome(p, v) = "success" => v)
<1>1. Outcome(p, v) \in Terminal \cup {"pending"}
  BY DEF Outcome, Terminal
<1>2. ASSUME v = FALSE PROVE Outcome(p, v) # "success"
  BY <1>2 DEF Outcome
<1> QED  BY <1>1, <1>2

\* A probe answers its request, or leaves it.
LEMMA ProbeEndsGoes ==
    ASSUME AuthInv, NEW p \in Probers, NEW v \in BOOLEAN, NEW wrote \in BOOLEAN, ProbeEnds(p, v, wrote)
    PROVE  AuthGoes
<1> DEFINE a == probe[p].ask
           s == Outcome(p, v)
           writes == s # "pending" /\ MayWrite(a) /\ wrote
<1>1. /\ UNCHANGED <<running, asker, service, blocked, reg, opening, cred, shown>>
      /\ probe[p].stage # "idle" /\ (v => cred) /\ probe' = [probe EXCEPT ![p] = NoProbe]
  BY DEF ProbeEnds, askVars, Verifies
<1>2. AuthTypeOK /\ probe \in AuthProbes
  BY DEF AuthInv, AuthTypeOK, AuthProbes
<1>3. a \in Asks /\ reg[a] = "none" /\ asker[a] # NoOne
  BY <1>1 DEF AuthInv, RunsAsk, RegistersOnce, Untried
<1>4. /\ probe' \in AuthProbes /\ probe'[p].stage = "idle"
      /\ \A q \in Probers : probe'[q].stage # "idle" => probe'[q] = probe[q]
  BY <1>1, <1>2 DEF AuthProbes, NoProbe
<1>5. s \in Terminal \cup {"pending"} /\ (s = "success" => cred)
  BY <1>1, OutcomeIs
<1>6. ASSUME writes, Publish(a, s, wrote), Resolve(a, s),
             watcher' = [watcher EXCEPT ![a] = IF s # "success" \/ @ = p THEN NoTask ELSE @]
      PROVE  AuthGoes
  <2>1. s \in Terminal /\ MayWrite(a) /\ wrote
    BY <1>5, <1>6
  <2>2. Resolve(a, s) /\ Publish(a, s, wrote)
    BY <1>6
  <2>3. /\ watcher' \in AuthWatchers /\ \A b \in Asks : watcher'[b] # NoTask => watcher[b] # NoTask
    BY <1>2, <1>6 DEF AuthTypeOK, AuthWatchers
  <2>4. reg' = [reg EXCEPT ![a] = "none"]
    BY <1>1, <1>2, <1>3 DEF AuthTypeOK
  <2> HIDE DEF s, a
  <2>5. rec' \in AuthRecs /\ login' \in AuthLogins
    BY <1>2, <1>3, <2>1, <2>2, ResolveIs
  <2>6. toolAnswer' = [toolAnswer EXCEPT ![a] = s] /\ toolAnswer' \in [Asks -> Terminal \cup {"none"}]
    <3>1. toolAnswer' = [toolAnswer EXCEPT ![a] = s]
      BY <2>1, <2>2 DEF Publish
    <3> QED  BY <1>2, <1>3, <2>1, <3>1 DEF AuthTypeOK
  <2>7. AuthTypeOK'
    BY <1>1, <1>2, <1>4, <2>3, <2>5, <2>6 DEF AuthTypeOK, AuthRecs, AuthLogins, AuthWatchers, AuthProbes
  <2> QED  BY <1>1, <1>3, <1>4, <1>5, <2>1, <2>2, <2>3, <2>4, <2>6, <2>7, AnswersGo
<1>7. ASSUME UNCHANGED <<toolAnswer, rec, login>>,
             watcher' = [watcher EXCEPT ![a] = IF @ # p THEN @ ELSE IF s = "pending" THEN "sleep" ELSE NoTask]
      PROVE  AuthGoes
  <2>1. /\ watcher' \in AuthWatchers /\ \A b \in Asks \ {a} : watcher'[b] = watcher[b]
        /\ watcher'[a] # NoTask => watcher[a] # NoTask
    BY <1>2, <1>3, <1>7, AuthAssumption DEF AuthTypeOK, AuthWatchers
  <2>2. AuthTypeOK'
    BY <1>1, <1>2, <1>4, <1>7, <2>1 DEF AuthTypeOK, AuthWatchers, AuthProbes
  <2>3. \A b \in Asks : asker[b] = NoOne \/ reg[b] # "none" => Untried(b)'
    BY <1>1, <1>3, <1>4, <1>7, <2>1 DEF AuthInv, RegistersOnce, Untried
  <2>4. \A q \in Probers : probe'[q].stage # "idle" => probe'[q].ask \in Asks
    BY <1>4 DEF AuthInv, RunsAsk
  <2> HIDE DEF s, a
  <2> QED  BY <1>1, <1>7, <2>1, <2>2, <2>3, <2>4, OthersGo DEF AuthInv, Watched
<1> QED  BY <1>6, <1>7 DEF ProbeEnds

\* The child reports what it read.
LEMMA ChildReportsGoes ==
    ASSUME AuthInv, NEW a \in Asks, NEW claim \in Terminal, ChildReports(a, claim)
    PROVE  AuthGoes
<1> DEFINE s == ShownState(a, claim)
<1>1. /\ UNCHANGED <<running, asker, service, toolAnswer, reg, opening, cred, probe>>
      /\ blocked' = blocked \ {a} /\ reg[a] = "none" /\ asker[a] # NoOne
      /\ Tell(a, s) /\ Drop({a})
  BY DEF ChildReports, askVars, RunLive
<1>2. AuthTypeOK
  BY DEF AuthInv
<1>3. s \in Terminal /\ (s = "success" => rec[a].state = "success")
  BY DEF ShownState, Consumed, Terminal
<1> HIDE DEF s
<1>4. Dropped({a})
  BY <1>1, <1>2, DropIs
<1>5. AuthTypeOK'
  BY <1>1, <1>2, <1>3, <1>4, TellIs DEF AuthTypeOK, Dropped, AuthRecs, AuthLogins, AuthWatchers
<1>6. \A b \in Asks : shown'[b] # shown[b] => b = a /\ shown'[b] = s
  BY <1>1, <1>2, <1>3, TellIs
<1> QED  BY <1>1, <1>3, <1>4, <1>5, <1>6, DropsGo

\* Open requests are cancelled.
LEMMA CancelGoes ==
    ASSUME AuthInv, NEW D \in SUBSET Cancellable, NEW wrote \in BOOLEAN, CancelAll(D, wrote)
    PROVE  AuthGoes
<1>1. /\ UNCHANGED <<running, asker, service, blocked, reg, opening, cred, probe, shown>>
      /\ D \in SUBSET Asks /\ Drop(D)
      /\ toolAnswer' = [b \in Asks |-> IF b \in D /\ wrote THEN "refused" ELSE toolAnswer[b]]
  BY DEF CancelAll, askVars, Cancellable
<1>2. AuthTypeOK
  BY DEF AuthInv
<1>3. Dropped(D)
  BY <1>1, <1>2, DropIs
<1>4. AuthTypeOK'
  BY <1>1, <1>2, <1>3 DEF AuthTypeOK, Dropped, AuthRecs, AuthLogins, AuthWatchers, Terminal
<1>5. \A b \in D : rec[b].state \in {"pending", "late"}
  BY DEF Cancellable
<1>6. \A b \in D : toolAnswer[b] = "none" /\ asker[b] # NoOne /\ reg[b] # "entered"
  BY <1>1, <1>5 DEF AuthInv, OpenUnanswered, RegistersOnce, NoRecord
<1>7. \A b \in D : rec'[b].state = "absent"
  BY <1>3 DEF Dropped, NoRecord
<1>8. \A b \in Asks : toolAnswer'[b] # toolAnswer[b] => b \in D /\ toolAnswer'[b] = "refused"
  BY <1>1
<1> QED  BY <1>1, <1>3, <1>4, <1>6, <1>7, <1>8, DropsGo

\* A record is dropped with nothing said.
LEMMA AbandonAskGoes == ASSUME AuthInv, NEW a \in Asks, AbandonAsk(a) PROVE AuthGoes
<1>1. /\ UNCHANGED <<running, asker, service, blocked, toolAnswer, reg, opening, cred, probe, shown>>
      /\ Drop({a})
  BY DEF AbandonAsk, askVars
<1>2. AuthTypeOK
  BY DEF AuthInv
<1>3. Dropped({a})
  BY <1>1, <1>2, DropIs
<1>4. AuthTypeOK'
  BY <1>1, <1>2, <1>3 DEF AuthTypeOK, Dropped, AuthRecs, AuthLogins, AuthWatchers
<1> QED  BY <1>1, <1>3, <1>4, DropsGo

\* A run ends, with its records, answers and stream.
LEMMA RunEndGoes == ASSUME AuthInv, NEW r \in Runs, RunEnd(r) PROVE AuthGoes
<1> DEFINE D == {a \in Asks : asker[a] = r}
           K == {a \in D : Present(a)}
<1>1. /\ UNCHANGED <<asker, service, reg, opening, cred, probe>>
      /\ running' = [running EXCEPT ![r] = "over"] /\ Drop(K)
      /\ toolAnswer' = [a \in Asks |-> IF a \in D THEN "none" ELSE toolAnswer[a]]
      /\ shown' = [a \in Asks |-> IF a \in D THEN "none" ELSE shown[a]]
      /\ blocked' = blocked \ D
  BY DEF RunEnd, askVars
<1>2. AuthTypeOK
  BY DEF AuthInv
<1>3. \A a \in D : asker[a] = r
  OBVIOUS
<1>4. K \in SUBSET Asks
  OBVIOUS
<1> HIDE DEF D, K
<1>5. Dropped(K)
  BY <1>1, <1>2, <1>4, DropIs
<1>6. running'[r] = "over" /\ \A q \in Runs : running'[q] \in {running[q], "over"}
  BY <1>1, <1>2 DEF AuthTypeOK
<1>7. AuthTypeOK'
  BY <1>1, <1>2, <1>5 DEF AuthTypeOK, Dropped, AuthRecs, AuthLogins, AuthWatchers
<1>8. \A b \in Asks : toolAnswer'[b] # toolAnswer[b] => toolAnswer'[b] = "none" /\ running'[asker[b]] = "over"
  BY <1>1, <1>3, <1>6
<1>9. \A b \in Asks : shown'[b] # shown[b] => shown'[b] = "none"
  BY <1>1
<1> QED  BY <1>1, <1>4, <1>5, <1>6, <1>7, <1>8, <1>9, DropsGo

\* A record passes its deadline.
LEMMA LapseGoes == ASSUME AuthInv, NEW a \in Asks, Lapse(a) PROVE AuthGoes
<1>1. /\ UNCHANGED <<running, asker, service, blocked, toolAnswer, reg, opening, login, cred, watcher, probe, shown>>
      /\ rec[a].state = "pending" /\ rec' = [rec EXCEPT ![a].state = "late"]
  BY DEF Lapse, askVars
<1>2. AuthTypeOK
  BY DEF AuthInv
<1>3. /\ rec' \in AuthRecs /\ rec'[a].state = "late" /\ rec'[a].login = rec[a].login
      /\ \A b \in Asks \ {a} : rec'[b] = rec[b]
  BY <1>1, <1>2 DEF AuthTypeOK, AuthRecs, States
<1>4. AuthTypeOK'
  BY <1>1, <1>2, <1>3 DEF AuthTypeOK, AuthRecs
<1>5. asker[a] # NoOne /\ reg[a] # "entered" /\ toolAnswer[a] = "none"
  BY <1>1 DEF AuthInv, RegistersOnce, NoRecord, OpenUnanswered
<1>6. RegistersOnce'
  BY <1>1, <1>3, <1>5 DEF AuthInv, RegistersOnce, Untried, Terminal
<1>7. RunsAsk' /\ OpenUnanswered'
  BY <1>1, <1>3, <1>5 DEF AuthInv, RunsAsk, OpenUnanswered
<1>8. \A b \in Asks : (RunLive(b)' <=> RunLive(b)) /\ (MayWrite(b)' => MayWrite(b))
  BY <1>1, <1>3 DEF RunLive, MayWrite, PendingLive
<1>9. GrantedAnswered'
  BY <1>1, <1>3, <1>8 DEF AuthInv, GrantedAnswered
<1>10. OneOpen'
  BY <1>1, <1>8 DEF AuthInv, OneOpen
<1>11. Watched'
  BY <1>1, <1>3 DEF AuthInv, Watched, Present, NoRecord
<1>12. AnswerStep /\ LoginStep
  BY <1>1, <1>11 DEF AnswerStep, LoginStep, Watched, Present
<1> QED  BY <1>4, <1>6, <1>7, <1>9, <1>10, <1>11, <1>12 DEF AuthGoes, AuthInv

-----------------------------------------------------------------------------
\* Every step keeps the invariant, and is one that the properties allow.
LEMMA AuthMoves == ASSUME AuthInv, [AuthNext]_authVars PROVE AuthInv' /\ [AnswerStep /\ LoginStep]_authVars
<1>1. ASSUME UNCHANGED authVars  PROVE AuthInv'
  <2> USE <1>1 DEF authVars
  <2>1. AuthTypeOK' /\ RegistersOnce' /\ RunsAsk'
    BY DEF AuthInv, AuthTypeOK, RegistersOnce, RunsAsk, Untried
  <2> QED  BY <2>1 DEF AuthInv, OpenUnanswered, GrantedAnswered, OneOpen, Watched, RunLive, MayWrite,
                       PendingLive, Present
<1>2. ASSUME AuthNext  PROVE AuthGoes
  <2>1. ASSUME NEW r \in Runs, RunStart(r) \/ RunEnd(r)  PROVE AuthGoes
    BY <2>1, RunStartGoes, RunEndGoes
  <2>2. ASSUME NEW a \in Asks, NEW r \in Runs, NEW s \in Services, Ask(a, r, s)  PROVE AuthGoes
    BY <2>2, AskGoes
  <2>3. ASSUME NEW a \in Asks, NEW wrote \in BOOLEAN,
               RefuseRegistration(a, wrote) \/ RegisterAsk(a, wrote) \/ Cancel(a, wrote)
        PROVE  AuthGoes
    <3>1. CASE RefuseRegistration(a, wrote)
      BY <3>1, RefuseGoes
    <3>2. CASE RegisterAsk(a, wrote)
      BY <3>2, RegisterAskGoes
    <3>3. CASE Cancel(a, wrote)
      <4>1. {a} \in SUBSET Cancellable /\ CancelAll({a}, wrote)
        BY <3>3 DEF Cancel
      <4> QED  BY <4>1, CancelGoes
    <3> QED  BY <2>3, <3>1, <3>2, <3>3
  <2>4. ASSUME NEW a \in Asks, NEW v \in BOOLEAN, NEW wrote \in BOOLEAN, RegisterChecked(a, v, wrote)
        PROVE  AuthGoes
    BY <2>4, RegisterCheckedGoes
  <2>5. ASSUME NEW a \in Asks, \/ Authorize(a) \/ StartFlowFails(a) \/ FlowStarted(a)
                              \/ WatchStops(a) \/ AbandonAsk(a) \/ Lapse(a)
        PROVE  AuthGoes
    <3>1. CASE StartFlowFails(a)
      BY <3>1, StartFlowGoes
    <3>2. CASE WatchStops(a)
      BY <3>2, WatchGoes
    <3> QED  BY <2>5, <3>1, <3>2, AuthorizeGoes, FlowStartedGoes, AbandonAskGoes, LapseGoes
  <2>6. ASSUME NEW a \in Asks, NEW l \in Logins, StartFlow(a, l)  PROVE AuthGoes
    BY <2>6, StartFlowGoes
  <2>7. ASSUME NEW a \in Asks, NEW p \in Probers, WatchProbes(a, p) \/ Confirm(a, p) \/ KepCallback(a, p)
        PROVE  AuthGoes
    BY <2>7, WatchGoes, KepCallbackGoes
  <2>8. ASSUME NEW p \in Probers, ProbePoll(p)  PROVE AuthGoes
    BY <2>8, ProbePollGoes
  <2>9. ASSUME NEW p \in Probers, NEW v \in BOOLEAN, NEW wrote \in BOOLEAN, ProbeEnds(p, v, wrote)
        PROVE  AuthGoes
    BY <2>9, ProbeEndsGoes
  <2>10. ASSUME NEW a \in Asks, NEW claim \in Terminal, ChildReports(a, claim)  PROVE AuthGoes
    BY <2>10, ChildReportsGoes
  <2>11. ASSUME NEW wrote \in BOOLEAN, StopChat(wrote)  PROVE AuthGoes
    BY <2>11, CancelGoes DEF StopChat
  <2> QED  BY <1>2, <2>1, <2>2, <2>3, <2>4, <2>5, <2>6, <2>7, <2>8, <2>9, <2>10, <2>11
           DEF AuthNext
<1> QED  BY <1>1, <1>2 DEF AuthGoes

(* A tool call is told success only while its run executes, before the     *)
(* deadline of its record and with the credential stored; what it was told *)
(* stays; and success is shown only where the server granted it.           *)
THEOREM AnswersStaySound == AuthSpec => AnswersSound
<1>1. AuthInit => AuthInv
  BY AuthStarts
<1>2. AuthInv /\ [AuthNext]_authVars => AuthInv' /\ [AnswerStep /\ LoginStep]_authVars
  BY AuthMoves
<1>3. AuthInv => AuthTypeOK /\ GrantsServerSide
  BY DEF AuthInv, GrantedAnswered, OneOpen, GrantsServerSide
<1>4. [AnswerStep /\ LoginStep]_authVars =>
          [\A a \in Asks :
              /\ toolAnswer'[a] = "success" /\ toolAnswer[a] # "success" =>
                    toolAnswer[a] = "none" /\ MayWrite(a) /\ cred
              /\ toolAnswer[a] = "success" => toolAnswer'[a] = "success" \/ running'[asker[a]] = "over"]_authVars
  BY DEF AnswerStep
<1> QED  BY <1>1, <1>2, <1>3, <1>4, PTL DEF AuthSpec, AnswersSound

(* Tearing down one request ends no login that another still refers to,    *)
(* and no watcher outlives its record.                                     *)
THEOREM LoginsStayShared == AuthSpec => LoginsShared
<1>1. AuthInit => AuthInv
  BY AuthStarts
<1>2. AuthInv /\ [AuthNext]_authVars => AuthInv' /\ [AnswerStep /\ LoginStep]_authVars
  BY AuthMoves
<1>3. [AnswerStep /\ LoginStep]_authVars =>
          [/\ \A a \in Asks : watcher'[a] # NoTask => rec'[a] # NoRecord
           /\ \A l \in Logins : login[l] = "open" /\ login'[l] = "closed" =>
                \/ \A a \in Asks : rec'[a].login # l
                \/ \E p \in Probers : probe[p].login = l /\ probe'[p].stage = "ended"]_authVars
  BY DEF LoginStep
<1> QED  BY <1>1, <1>2, <1>3, PTL DEF AuthSpec, LoginsShared
=============================================================================
