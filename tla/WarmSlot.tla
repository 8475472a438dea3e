------------------------------ MODULE WarmSlot ------------------------------
(***************************************************************************)
(* The warm AIAgent worker of a profile (agent_real/warm_worker.py) as     *)
(* _stream_aiagent_subprocess drives it (agent_real/streaming.py).  A run  *)
(* takes the profile's slot, opens its env scope (which carries the auth   *)
(* broker of the turn), sends its request to the worker process and reads  *)
(* events until done.  Without a slot, or when the worker fails early, the *)
(* run has a one-shot process of its own.  The lock is per profile, the    *)
(* registered worker per event loop; a worker is named after the run that  *)
(* created it.                                                             *)
(***************************************************************************)
EXTENDS Integers, Sequences, FiniteSets

CONSTANTS Runs, RunLoops, LoopOf,
          MaxDeaths,   \* bound: deaths of worker processes
          NoRun

ASSUME SlotAssumption ==
    /\ LoopOf \in [Runs -> RunLoops]
    /\ MaxDeaths \in Nat
    /\ NoRun \notin Runs

VARIABLES
    registered,   \* _AIAGENT_WARM_WORKERS
    slotLock,         \* the profile lock: the run that holds it
    closed,       \* runs whose _AiagentWarmRun was closed
    phase, wk,       \* of a run: where it is, its worker
    scope,        \* runs whose env scope is open
    begun,        \* runs that saw a first event
    heard,        \* whose events a run was given
    proc,         \* of a worker: its process
    inbox, told, out,   \* of a process: requests unanswered, the head's content
                        \* written, events unread
    deaths,
    strayed       \* runs that left a request with a worker that is kept, or whose worker
                  \* another run discarded

runVars == <<phase, scope, begun, heard>>
procVars == <<proc, inbox, told, out>>
warmVars == <<registered, slotLock, closed, wk, runVars, procVars, deaths, strayed>>

Warm == {"spawn", "boot", "ready", "drain", "reading", "leaving"}
Events == [of : Runs, kind : {"content", "done"}]

WarmTypeOK ==
    /\ registered \in [RunLoops -> Runs \cup {NoRun}]
    /\ slotLock \in Runs \cup {NoRun}
    /\ closed \subseteq Runs
    /\ phase \in [Runs -> Warm \cup {"idle", "parked", "eof", "solo", "over"}]
    /\ wk \in [Runs -> Runs \cup {NoRun}]
    /\ \A r \in Runs : phase[r] \in Warm => wk[r] # NoRun
    /\ scope \subseteq Runs /\ begun \subseteq Runs
    /\ heard \in [Runs -> SUBSET Runs]
    /\ proc \in [Runs -> {"none", "up", "dead"}]
    /\ inbox \in [Runs -> Seq(Runs)] /\ out \in [Runs -> Seq(Events)]
    /\ told \in [Runs -> BOOLEAN]
    /\ deaths \in 0..MaxDeaths
    /\ strayed \subseteq Runs

WarmInit ==
    /\ registered = [l \in RunLoops |-> NoRun]
    /\ slotLock = NoRun
    /\ closed = {}
    /\ phase = [r \in Runs |-> "idle"]
    /\ wk = [r \in Runs |-> NoRun]
    /\ scope = {} /\ begun = {}
    /\ heard = [r \in Runs |-> {}]
    /\ proc = [w \in Runs |-> "none"]
    /\ inbox = [w \in Runs |-> <<>>]
    /\ told = [w \in Runs |-> FALSE]
    /\ out = [w \in Runs |-> <<>>]
    /\ deaths = 0
    /\ strayed = {}

At(r, where) == phase' = [phase EXCEPT ![r] = where]

-----------------------------------------------------------------------------
(* The slot. *)

\* _get_aiagent_warm_worker.
Got(r) == IF registered[LoopOf[r]] = NoRun THEN r ELSE registered[LoopOf[r]]

\* acquire_run finds the slot free, or parks.  The env scope is entered with no await in
\* between; if that fails the slot is given back.
RunArrives(r) ==
    /\ phase[r] = "idle"
    /\ registered' = [registered EXCEPT ![LoopOf[r]] = Got(r)]
    /\ wk' = [wk EXCEPT ![r] = Got(r)]
    /\ \/ slotLock # NoRun /\ At(r, "parked") /\ UNCHANGED <<slotLock, scope>>
       \/ slotLock = NoRun /\ At(r, "spawn") /\ slotLock' = r /\ scope' = scope \cup {r}
       \/ slotLock = NoRun /\ At(r, "over") /\ UNCHANGED <<slotLock, scope>>
    /\ UNCHANGED <<closed, begun, heard, procVars, deaths, strayed>>

\* A parked run polls: acquire(False) succeeds.
AcquireSlot(r) ==
    /\ phase[r] = "parked"
    /\ slotLock = NoRun
    /\ \/ At(r, "spawn") /\ slotLock' = r /\ scope' = scope \cup {r}
       \/ At(r, "over") /\ UNCHANGED <<slotLock, scope>>
    /\ UNCHANGED <<registered, closed, wk, begun, heard, procVars, deaths, strayed>>

\* The deadline passes: the run goes on without the slot.
WaitTimeout(r) ==
    /\ phase[r] = "parked"
    /\ slotLock # NoRun
    /\ At(r, "solo")
    /\ scope' = scope \cup {r}
    /\ UNCHANGED <<registered, slotLock, closed, wk, begun, heard, procVars, deaths, strayed>>

\* A cancel while the run is parked; it holds nothing.
CancelParked(r) ==
    /\ phase[r] = "parked"
    /\ At(r, "over")
    /\ UNCHANGED <<registered, slotLock, closed, wk, scope, begun, heard, procVars, deaths, strayed>>

\* _AiagentWarmRun.close.
Close(r) ==
    /\ slotLock' = IF r \in closed THEN slotLock ELSE NoRun
    /\ closed' = closed \cup {r}

Reset(w) ==
    /\ inbox' = [inbox EXCEPT ![w] = <<>>]
    /\ told' = [told EXCEPT ![w] = FALSE]
    /\ out' = [out EXCEPT ![w] = <<>>]

\* _discard_aiagent_warm_worker: whatever worker is registered is dropped and killed.
Discard(r) ==
    LET w == registered[LoopOf[r]] IN
    /\ registered' = [registered EXCEPT ![LoopOf[r]] = NoRun]
    /\ strayed' = strayed \cup {q \in Runs \ {r} : w # NoRun /\ wk[q] = w /\ phase[q] \in Warm \cup {"parked"}}
    /\ IF w = NoRun
       THEN UNCHANGED procVars
       ELSE proc' = [proc EXCEPT ![w] = "none"] /\ Reset(w)

-----------------------------------------------------------------------------
(* Starting the worker. *)

\* start_locked_run writes the request; drain suspends if the pipe is full.
Write(r) ==
    /\ inbox' = [inbox EXCEPT ![wk[r]] = Append(@, r)]
    /\ At(r, "drain") \/ At(r, "reading")

\* _sandbox_spawn is done; _ensure_started finds the process alive, or builds one.
Spawned(r) ==
    /\ phase[r] = "spawn"
    /\ IF proc[wk[r]] = "up"
       THEN Write(r) /\ UNCHANGED <<proc, told, out>>
       ELSE At(r, "boot") /\ proc' = [proc EXCEPT ![wk[r]] = "none"] /\ Reset(wk[r])
    /\ UNCHANGED <<registered, slotLock, closed, wk, scope, begun, heard, deaths, strayed>>

\* create_subprocess_exec returns.
Booted(r) ==
    /\ phase[r] = "boot"
    /\ proc' = [proc EXCEPT ![wk[r]] = "up"]
    /\ Reset(wk[r])
    /\ At(r, "ready")
    /\ UNCHANGED <<registered, slotLock, closed, wk, scope, begun, heard, deaths, strayed>>

\* The ready event.
Ready(r) ==
    /\ phase[r] = "ready"
    /\ proc[wk[r]] = "up"
    /\ Write(r)
    /\ UNCHANGED <<registered, slotLock, closed, wk, scope, begun, heard, proc, told, out, deaths, strayed>>

\* The start raises (no process, not ready in time, gone before ready): the run closes its
\* slot, discards the worker and falls back.
StartFails(r) ==
    /\ phase[r] \in {"boot", "ready"}
    /\ Close(r)
    /\ Discard(r)
    /\ At(r, "solo")
    /\ UNCHANGED <<wk, scope, begun, heard, deaths>>

Drained(r) ==
    /\ phase[r] = "drain"
    /\ At(r, "reading")
    /\ UNCHANGED <<registered, slotLock, closed, wk, scope, begun, heard, procVars, deaths, strayed>>

\* A failed spawn, or a cancel before using_warm_worker is set: the slot is given back and the scope
\* left; the worker is kept.
CancelStart(r) ==
    /\ phase[r] \in {"spawn", "boot", "ready", "drain"}
    /\ Close(r)
    /\ strayed' = IF phase[r] = "drain" THEN strayed \cup {r} ELSE strayed
    /\ scope' = scope \ {r}
    /\ At(r, "over")
    /\ UNCHANGED <<registered, wk, begun, heard, procVars, deaths>>

-----------------------------------------------------------------------------
(* Reading. *)

\* readline returns an event.
Read(r) ==
    LET w == wk[r]
        e == Head(out[w]) IN
    /\ phase[r] = "reading"
    /\ out[w] # <<>>
    /\ out' = [out EXCEPT ![w] = Tail(@)]
    /\ heard' = [heard EXCEPT ![r] = @ \cup {e.of}]
    /\ begun' = begun \cup {r}
    /\ IF e.kind = "done" THEN At(r, "leaving") ELSE UNCHANGED phase
    /\ UNCHANGED <<registered, slotLock, closed, wk, scope, proc, inbox, told, deaths, strayed>>

\* readline meets the end of the stream: it closes worker and slot and raises.
ReadEnds(r) ==
    LET w == wk[r] IN
    /\ phase[r] = "reading"
    /\ proc[w] # "up" /\ out[w] = <<>>
    /\ proc' = [proc EXCEPT ![w] = "none"]
    /\ Reset(w)
    /\ Close(r)
    /\ At(r, "eof")
    /\ UNCHANGED <<registered, wk, scope, begun, heard, deaths, strayed>>

\* The stream's task sees the exception: a one-shot process if nothing was read yet, else
\* the run is left.
Resume(r) ==
    /\ phase[r] = "eof"
    /\ Discard(r)
    /\ Close(r)
    /\ IF r \in begun
       THEN At(r, "over") /\ scope' = scope \ {r}
       ELSE At(r, "solo") /\ UNCHANGED scope
    /\ UNCHANGED <<wk, begun, heard, deaths>>

\* Mutant: the run is stopped and its worker goes on.
StopKeeps(r) ==
    /\ phase[r] = "reading"
    /\ At(r, "leaving")
    /\ UNCHANGED <<registered, slotLock, closed, wk, scope, begun, heard, procVars, deaths, strayed>>

\* A cancel, an abandoned generator or the stall timeout before done.
StopRead(r) ==
    /\ phase[r] = "reading"
    /\ Discard(r)
    /\ At(r, "leaving")
    /\ UNCHANGED <<slotLock, closed, wk, scope, begun, heard, deaths>>

\* Mutant: the slot is not given back.
LeaveHolding(r) ==
    /\ phase[r] = "leaving"
    /\ scope' = scope \ {r}
    /\ At(r, "over")
    /\ UNCHANGED <<registered, slotLock, closed, wk, begun, heard, procVars, deaths, strayed>>

\* The finally block: the scope is left, then the slot.
Leave(r) ==
    /\ phase[r] = "leaving"
    /\ scope' = scope \ {r}
    /\ Close(r)
    /\ At(r, "over")
    /\ UNCHANGED <<registered, wk, begun, heard, procVars, deaths, strayed>>

SoloEnds(r) ==
    /\ phase[r] = "solo"
    /\ scope' = scope \ {r}
    /\ At(r, "over")
    /\ UNCHANGED <<registered, slotLock, closed, wk, begun, heard, procVars, deaths, strayed>>

-----------------------------------------------------------------------------
(* The worker process: worker_main serves one request after the other. *)

Emit(w, kind) ==
    /\ proc[w] = "up" /\ inbox[w] # <<>>
    /\ out' = [out EXCEPT ![w] = Append(@, [of |-> Head(inbox[w]), kind |-> kind])]
    /\ \/ kind = "content" /\ ~told[w] /\ told' = [told EXCEPT ![w] = TRUE] /\ UNCHANGED inbox
       \/ kind = "done" /\ inbox' = [inbox EXCEPT ![w] = Tail(@)] /\ told' = [told EXCEPT ![w] = FALSE]
    /\ UNCHANGED <<registered, slotLock, closed, wk, runVars, proc, deaths, strayed>>

Die(w) ==
    /\ proc[w] = "up"
    /\ deaths < MaxDeaths
    /\ proc' = [proc EXCEPT ![w] = "dead"]
    /\ inbox' = [inbox EXCEPT ![w] = <<>>]
    /\ deaths' = deaths + 1
    /\ UNCHANGED <<registered, slotLock, closed, wk, runVars, told, out, strayed>>

-----------------------------------------------------------------------------
Step(r) ==
    \/ RunArrives(r) \/ AcquireSlot(r) \/ WaitTimeout(r) \/ CancelParked(r)
    \/ Spawned(r) \/ Booted(r) \/ Ready(r) \/ StartFails(r) \/ Drained(r) \/ CancelStart(r)
    \/ Read(r) \/ ReadEnds(r) \/ Resume(r) \/ StopRead(r) \/ Leave(r) \/ SoloEnds(r)

WarmNext ==
    \/ \E r \in Runs : Step(r)
    \/ \E w \in Runs : Die(w) \/ \E kind \in {"content", "done"} : Emit(w, kind)

WarmSpec == WarmInit /\ [][WarmNext]_warmVars

\* Every wait of a run has a time limit: for the slot, for ready, for the next event (the
\* stall timeout, Stop).  A full pipe is the exception, so Drained needs the worker.
WarmFairness ==
    \A r \in Runs :
          /\ WF_warmVars(AcquireSlot(r) \/ WaitTimeout(r))
          /\ WF_warmVars(Spawned(r)) /\ WF_warmVars(Booted(r) \/ StartFails(r))
          /\ WF_warmVars(Ready(r) \/ StartFails(r)) /\ WF_warmVars(Drained(r))
          /\ WF_warmVars(Read(r) \/ ReadEnds(r) \/ StopRead(r))
          /\ WF_warmVars(Resume(r)) /\ WF_warmVars(Leave(r)) /\ WF_warmVars(SoloEnds(r))

-----------------------------------------------------------------------------
(* Properties. *)

\* A run that uses the warm worker holds the slot: no other run's teardown gives it away.
SlotHeld == \A r \in Runs : phase[r] \in Warm => slotLock = r

\* A run is given events of its own request only, as long as no run strayed: none was
\* cancelled while its request filled the pipe, none had its worker discarded by another
\* run.
OwnAnswer == strayed = {} => \A r \in Runs : heard[r] \subseteq {r}

Executing == {w \in Runs : proc[w] = "up" /\ inbox[w] # <<>>}

\* No worker goes on with a run whose env scope, and so whose auth broker, is gone; with
\* the same exception.
OrphanKilled == strayed = {} => \A w \in Executing : Head(inbox[w]) \in scope

\* Warm runs of one profile never overlap, on several event loops either; with the same
\* exception.
NeverOverlap == strayed = {} => Cardinality(Executing) <= 1

\* Warm runs are kept apart: one at a time, in its own slot and scope, each with its own
\* answer.
RunsIsolated == SlotHeld /\ OwnAnswer /\ OrphanKilled /\ NeverOverlap

\* The slot never stays taken, whatever is cancelled, times out or dies: no profile is
\* wedged.
SlotFreed == \A r \in Runs : slotLock = r ~> slotLock # r

\* A run parked for the slot (acquire_run) comes to an end, with or without it.
RunsEnd == \A r \in Runs : phase[r] = "parked" ~> phase[r] = "over"

\* A profile is never wedged: the slot comes free and who waits for it goes on.
NeverWedged == SlotFreed /\ RunsEnd
=============================================================================
