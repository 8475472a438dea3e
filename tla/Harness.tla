------------------------------- MODULE Harness -------------------------------
(***************************************************************************)
(* The workflow of a Harness session: its row, gates and operations        *)
(* (agent_real/harness_workflow.py), as the workflow and approval          *)
(* endpoints of webui_broker_server.py use them.  A workflow id is a hash  *)
(* of profile, actor and session, so another person's workflow is another  *)
(* row and one workflow is enough; its thread is in HarnessRun.  A request *)
(* is one transaction, except that of an operation: its row is committed   *)
(* before the adapter is called and again after.  set_stage overwrites a   *)
(* row that is only shown, and is left out.                                *)
(***************************************************************************)
EXTENDS Naturals, Sequences, FiniteSets

CONSTANTS
    OpKeys,     \* idempotency keys
    Flows,      \* flows a workflow may be started with
    MaxAsks,    \* bound: gate requests that insert or reopen a row
    MaxPauses   \* bound: pauses for a credential

Gates == {"A", "B", "C", "D", "E", "F"}

FlowGates ==
    [dev    |-> <<"A", "B", "C", "D", "E">>,
     light  |-> <<"A", "C", "D", "E">>,
     bugfix |-> <<"F", "C", "D", "E">>]

\* One operation stands for those with the same gate.
OperationGates == [git_push |-> "D", deploy |-> "E", spec_defect_route |-> "F"]
Operations == DOMAIN OperationGates

ASSUME HarnessAssumption ==
    /\ Flows \subseteq DOMAIN FlowGates
    /\ MaxAsks \in Nat /\ MaxPauses \in Nat

VARIABLES
    flow,        \* of the row; "none": there is no row
    wfStatus,
    gate,        \* of a gate's row: its status and the approval id it waits under
    opRow,       \* of a key: its operation and how far it is; "unknown" is a pending row
                 \* whose request is gone
    asks, pauses,
    approvedBy,  \* gates a person approved, ever
    effects      \* how often a key's operation took effect

harnessVars == <<flow, wfStatus, gate, opRow, asks, pauses, approvedBy, effects>>

NoGate == [st |-> "none", id |-> 0]
GateStatus == {"none", "waiting", "approved", "rejected", "rework"}

HarnessTypeOK ==
    /\ flow \in Flows \cup {"none"}
    /\ wfStatus \in {"running", "waiting_gate", "waiting_credential", "rejected", "rework"}
    /\ gate \in [Gates -> [st : GateStatus, id : 0..MaxAsks]]
    /\ opRow \in [OpKeys -> [op : Operations \cup {"none"}, st : {"none", "pending", "done", "unknown"}]]
    /\ asks \in 0..MaxAsks /\ pauses \in 0..MaxPauses
    /\ approvedBy \subseteq Gates
    /\ effects \in [OpKeys -> Nat]

HarnessInit ==
    /\ flow = "none" /\ wfStatus = "running"
    /\ gate = [g \in Gates |-> NoGate]
    /\ opRow = [k \in OpKeys |-> [op |-> "none", st |-> "none"]]
    /\ asks = 0 /\ pauses = 0
    /\ approvedBy = {}
    /\ effects = [k \in OpKeys |-> 0]

\* start inserts the row; the flow is never changed after that.
StartWorkflow(f) ==
    /\ flow = "none"
    /\ flow' = f /\ wfStatus' = "running"
    /\ UNCHANGED <<gate, opRow, asks, pauses, approvedBy, effects>>

-----------------------------------------------------------------------------
(* Gates. *)

InFlow(g) == \E i \in DOMAIN FlowGates[flow] : FlowGates[flow][i] = g
Prior(g) ==
    {FlowGates[flow][i] : i \in {j \in DOMAIN FlowGates[flow] :
        \E n \in DOMAIN FlowGates[flow] : j < n /\ FlowGates[flow][n] = g}}
ApprovedGates == {g \in Gates : gate[g].st = "approved"}

\* The order of the gates is not looked at.
MayRequestMutant(g) == InFlow(g)

\* A gate of the flow whose earlier gates are approved.
MayRequest(g) == InFlow(g) /\ Prior(g) \subseteq ApprovedGates

\* request_gate: a row that waits is handed out as it is; a decided one is asked again
\* under a new id.
RequestGate(g) ==
    /\ flow # "none"
    /\ MayRequest(g)
    /\ gate[g].st # "waiting"
    /\ asks < MaxAsks
    /\ asks' = asks + 1
    /\ gate' = [gate EXCEPT ![g] = [st |-> "waiting", id |-> asks + 1]]
    /\ wfStatus' = "waiting_gate"
    /\ UNCHANGED <<flow, opRow, pauses, approvedBy, effects>>

\* In the light flow the approval of gate A is that of B too.
Combined(g) == IF flow = "light" /\ g = "A" THEN {"B"} ELSE {}

\* The rows an approval id may decide: the one that waits under it.
Decides(id) == {g \in Gates : gate[g] = [st |-> "waiting", id |-> id]}

\* resolve_gate, by the person whose workflow it is; the workflow runs again on an approval.
ResolveGate(id, verdict) ==
    /\ flow # "none"
    /\ \E g \in Decides(id) :
          LET settled == IF verdict = "approved" THEN {g} \cup Combined(g) ELSE {g}
          IN  /\ gate' = [h \in Gates |->
                    IF h \in settled THEN [st |-> verdict, id |-> id] ELSE gate[h]]
              /\ approvedBy' = IF verdict = "approved" THEN approvedBy \cup settled ELSE approvedBy
    /\ wfStatus' = IF verdict = "approved" THEN "running" ELSE verdict
    /\ UNCHANGED <<flow, opRow, asks, pauses, effects>>

\* pause_for_credential, whatever the status is.
PauseForCredential ==
    /\ flow # "none" /\ pauses < MaxPauses
    /\ pauses' = pauses + 1
    /\ wfStatus' = "waiting_credential"
    /\ UNCHANGED <<flow, gate, opRow, asks, approvedBy, effects>>

\* resume_credential, once the credential is verified: the workflow runs, whatever it
\* waited for before the pause.
ResumeCredential ==
    /\ flow # "none" /\ wfStatus = "waiting_credential"
    /\ wfStatus' = "running"
    /\ UNCHANGED <<flow, gate, opRow, asks, pauses, approvedBy, effects>>

-----------------------------------------------------------------------------
(* Operations. *)

\* A key that was used before replays its result or is refused.
KeyFree(k) == opRow[k].st = "none"

\* The first transaction of execute, up to its commit.
ClaimOperation(k, op) ==
    /\ flow # "none" /\ wfStatus = "running"
    /\ gate[OperationGates[op]].st = "approved"
    /\ KeyFree(k)
    /\ opRow' = [opRow EXCEPT ![k] = [op |-> op, st |-> "pending"]]
    /\ UNCHANGED <<flow, wfStatus, gate, asks, pauses, approvedBy, effects>>

\* The adapter's result is recorded.
OperationDone(k) ==
    /\ opRow[k].st = "pending"
    /\ opRow' = [opRow EXCEPT ![k].st = "done"]
    /\ effects' = [effects EXCEPT ![k] = @ + 1]
    /\ UNCHANGED <<flow, wfStatus, gate, asks, pauses, approvedBy>>

\* The adapter raises, or the gateway dies before the result is recorded, with the effect
\* or without it: the row stays pending.
OperationLost(k) ==
    /\ opRow[k].st = "pending"
    /\ opRow' = [opRow EXCEPT ![k].st = "unknown"]
    /\ \E took \in BOOLEAN : effects' = [effects EXCEPT ![k] = IF took THEN @ + 1 ELSE @]
    /\ UNCHANGED <<flow, wfStatus, gate, asks, pauses, approvedBy>>

-----------------------------------------------------------------------------
HarnessNext ==
    \/ \E f \in Flows : StartWorkflow(f)
    \/ \E g \in Gates : RequestGate(g)
    \/ \E id \in 1..MaxAsks, verdict \in {"approved", "rejected", "rework"} : ResolveGate(id, verdict)
    \/ PauseForCredential \/ ResumeCredential
    \/ \E k \in OpKeys :
          \/ \E op \in Operations : ClaimOperation(k, op)
          \/ OperationDone(k) \/ OperationLost(k)

HarnessSpec == HarnessInit /\ [][HarnessNext]_harnessVars

-----------------------------------------------------------------------------
(* Properties. *)

\* An operation takes effect only if a person approved its gate and every gate before it
\* in the flow, whatever was asked again, paused, resumed or retried in between.
Gated ==
    \A k \in OpKeys : effects[k] > 0 =>
        {OperationGates[opRow[k].op]} \cup Prior(OperationGates[opRow[k].op]) \subseteq approvedBy

\* A key's operation takes effect at most once, and did if its result is recorded: an
\* outcome that is not known is never tried again (execute).
OperationOnce ==
    \A k \in OpKeys :
        /\ effects[k] <= 1
        /\ opRow[k].st = "done" => effects[k] = 1
        /\ opRow[k].st \in {"none", "pending"} => effects[k] = 0

\* What the store promises of operations: behind their gates, and once per key.
OperationsGated == HarnessTypeOK /\ Gated /\ OperationOnce

\* Not kept by the code, and in no configuration: no operation is begun while a gate of
\* the flow stands rejected.  A credential pause and its resumption overwrite the status
\* that a rejection left (README, section 5).
RejectionHolds ==
    [][\A k \in OpKeys : opRow[k].st = "none" /\ opRow'[k].st = "pending" =>
          \A g \in Gates : gate[g].st # "rejected"]_harnessVars
=============================================================================
