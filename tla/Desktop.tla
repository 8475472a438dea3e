------------------------------- MODULE Desktop -------------------------------
(***************************************************************************)
(* Desktop containers of a host (desktop_sandbox.py, the spawn path of     *)
(* agent_real/_core.py and the takeover of desktop_viewer.py).             *)
(*                                                                         *)
(* ensure() brings a profile's container up under two file locks, one of   *)
(* the profile and one of the host.  A turn calls it first and registers   *)
(* its lease in turns.json afterwards; the viewer calls it without a       *)
(* lease.  The idle sweep reads the last use without a lock and then,      *)
(* under the profile lock, the turn leases and the human lease.  A gateway *)
(* may die at any point, which frees its locks and voids its lease.        *)
(***************************************************************************)
EXTENDS Naturals, FiniteSets

CONSTANTS Profiles,   \* desktop profiles of the host
          Ensures,    \* calls of ensure(), each followed by its turn if it has one
          Takeovers,  \* takeovers of a screen by a person
          Quota,      \* max_containers_per_host
          Sweeper,    \* the sweep thread, as the holder of a lock
          Free        \* nobody holds the lock; no profile

ASSUME DesktopAssumption == Quota \in Nat \ {0} /\ IsFiniteSet(Profiles)
                            /\ Ensures \cap Takeovers = {} /\ Sweeper \notin Ensures \cup Takeovers
                            /\ Free \notin Profiles \cup Ensures \cup Takeovers \cup {Sweeper}

VARIABLES box,      \* a profile's container
          drifted,  \* it was created from another specification
          fresh,    \* its last_used is within the idle window
          human,    \* a person holds the screen's lease
          plock,    \* holder of <state>/profile.lock
          hlock,    \* holder of <root>/host.lock
          call,     \* an ensure() call and its turn
          take,     \* a takeover
          sweep     \* the sweep thread, at one container

deskVars == <<box, drifted, fresh, human, plock, hlock, call, take, sweep>>

NoCall == [pc |-> "none", p |-> Free, turn |-> FALSE,
           started |-> FALSE, created |-> FALSE]
CallOver == [NoCall EXCEPT !.pc = "done"]
NoTake == [pc |-> "none", p |-> Free]

Boxes == {"none", "stopped", "running"}
CallSet == [pc : {"none", "locked", "host", "rebuild", "start", "room", "up", "screen", "rollback",
                  "ready", "joining", "live", "leaving", "done"},
            p : Profiles \cup {Free}, turn : BOOLEAN, started : BOOLEAN, created : BOOLEAN]
TakeSet == [pc : {"none", "locked", "done"}, p : Profiles \cup {Free}]
SweepSet == [pc : {"idle", "stale", "locked", "counted", "clear"}, p : Profiles \cup {Free}]

DeskTypeOK ==
  /\ box \in [Profiles -> Boxes]
  /\ drifted \in [Profiles -> BOOLEAN] /\ fresh \in [Profiles -> BOOLEAN]
  /\ human \in [Profiles -> BOOLEAN]
  /\ plock \in [Profiles -> Ensures \cup Takeovers \cup {Sweeper, Free}]
  /\ hlock \in Ensures \cup {Free}
  /\ call \in [Ensures -> CallSet] /\ take \in [Takeovers -> TakeSet] /\ sweep \in SweepSet

DeskInit ==
  /\ box = [p \in Profiles |-> "none"] /\ drifted = [p \in Profiles |-> FALSE]
  /\ fresh = [p \in Profiles |-> FALSE] /\ human = [p \in Profiles |-> FALSE]
  /\ plock = [p \in Profiles |-> Free] /\ hlock = Free
  /\ call = [e \in Ensures |-> NoCall] /\ take = [k \in Takeovers |-> NoTake]
  /\ sweep = [pc |-> "idle", p |-> NoCall.p]

-----------------------------------------------------------------------------
(* The turn leases in turns.json. *)

LiveTurns(p) == {e \in Ensures : call[e].p = p /\ call[e].pc \in {"live", "leaving"}}
Writing(p) == \E e \in Ensures : call[e].p = p /\ call[e].pc \in {"joining", "leaving"}

\* active_turn_count reads the file without its lock: while _write_private has
\* truncated it, the file may read as empty.
Counts(p) == {Cardinality(LiveTurns(p))} \cup (IF Writing(p) THEN {0} ELSE {})

-----------------------------------------------------------------------------
(* ensure(). *)

Running == {p \in Profiles : box[p] = "running"}
HostFree == hlock = Free
RoomFor(p) == Cardinality(Running \ {p}) < Quota

\* The call waits for the profile lock; one that waited too long fails.
EnsureBegin(e, p, turn) ==
  /\ call[e].pc = "none"
  /\ \/ /\ plock[p] = Free
        /\ plock' = [plock EXCEPT ![p] = e]
        /\ call' = [call EXCEPT ![e] = [NoCall EXCEPT !.pc = "locked", !.p = p, !.turn = turn]]
     \/ /\ plock[p] # Free /\ UNCHANGED plock
        /\ call' = [call EXCEPT ![e] = CallOver]
  /\ UNCHANGED <<box, drifted, fresh, human, hlock, take, sweep>>

\* Mutant: the host lock is not waited for.
TakeHostNow(e) ==
  /\ call[e].pc = "locked"
  /\ hlock' = e /\ call' = [call EXCEPT ![e].pc = "host"]
  /\ UNCHANGED <<box, drifted, fresh, human, plock, take, sweep>>

TakeHost(e) ==
  /\ call[e].pc = "locked" /\ HostFree
  /\ hlock' = e /\ call' = [call EXCEPT ![e].pc = "host"]
  /\ UNCHANGED <<box, drifted, fresh, human, plock, take, sweep>>

\* Inspect and reconcile: a drifted container is rebuilt unless turns are active.
Inspect(e) ==
  LET p == call[e].p IN
  /\ call[e].pc = "host"
  /\ \E n \in Counts(p) :
       call' = [call EXCEPT ![e].pc =
                  CASE box[p] # "none" /\ drifted[p] /\ n = 0 -> "rebuild"
                    [] box[p] = "running" /\ ~(drifted[p] /\ n = 0) -> "up"
                    [] OTHER -> "start"]
  /\ UNCHANGED <<box, drifted, fresh, human, plock, hlock, take, sweep>>

\* podman rm -f of the drifted container.
Rebuild(e) ==
  LET p == call[e].p IN
  /\ call[e].pc = "rebuild"
  /\ box' = [box EXCEPT ![p] = "none"] /\ drifted' = [drifted EXCEPT ![p] = FALSE]
  /\ call' = [call EXCEPT ![e].pc = "start"]
  /\ UNCHANGED <<fresh, human, plock, hlock, take, sweep>>

\* _check_quota: the host's running containers other than this one.
CheckQuota(e) ==
  /\ call[e].pc = "start"
  /\ call' = [call EXCEPT ![e].pc = IF RoomFor(call[e].p) THEN "room" ELSE "rollback"]
  /\ UNCHANGED <<box, drifted, fresh, human, plock, hlock, take, sweep>>

\* podman run or podman start.  A failed one leaves the container as it was or
\* only created; a podman run that timed out may have left it running, which
\* this call does not count as started.
StartContainer(e) ==
  LET p == call[e].p
      new == box[p] = "none"
  IN
  /\ call[e].pc = "room"
  /\ \/ /\ box' = [box EXCEPT ![p] = "running"]
        /\ call' = [call EXCEPT ![e].pc = "up", ![e].started = TRUE, ![e].created = new]
     \/ /\ \E b \in {box[p], "stopped", "running"} : box' = [box EXCEPT ![p] = b]
        /\ call' = [call EXCEPT ![e].pc = "rollback"]
  /\ UNCHANGED <<drifted, fresh, human, plock, hlock, take, sweep>>

\* The container is seen running and last_used stamped before the host lock goes.
SeenRunning(e) ==
  LET p == call[e].p IN
  /\ call[e].pc = "up"
  /\ \/ /\ box[p] = "running"
        /\ fresh' = [fresh EXCEPT ![p] = TRUE] /\ hlock' = Free
        /\ call' = [call EXCEPT ![e].pc = "screen"]
     \/ /\ call' = [call EXCEPT ![e].pc = "rollback"] /\ UNCHANGED <<fresh, hlock>>
  /\ UNCHANGED <<box, drifted, human, plock, take, sweep>>

\* The screen phase, outside the host lock.
ScreenUp(e) ==
  LET p == call[e].p IN
  /\ call[e].pc = "screen"
  /\ \/ /\ box[p] = "running"
        /\ fresh' = [fresh EXCEPT ![p] = TRUE] /\ plock' = [plock EXCEPT ![p] = Free]
        /\ call' = [call EXCEPT ![e] = IF @.turn THEN [@ EXCEPT !.pc = "ready"] ELSE CallOver]
     \/ /\ call' = [call EXCEPT ![e].pc = "rollback"] /\ UNCHANGED <<fresh, plock>>
  /\ UNCHANGED <<box, drifted, human, hlock, take, sweep>>

Unlocked(l, e) == IF l = e THEN Free ELSE l

\* The host lock is released by the time the error is handled; a container that
\* this call started is stopped, and removed if it was created here.  The
\* rollback is best effort.
Rollback(e) ==
  LET p == call[e].p IN
  /\ call[e].pc = "rollback"
  /\ \E b \in IF ~call[e].started THEN {box[p]}
              ELSE {box[p], "stopped"} \cup (IF call[e].created THEN {"none"} ELSE {}) :
       box' = [box EXCEPT ![p] = IF box[p] = "none" THEN "none" ELSE b]
  /\ drifted' = [drifted EXCEPT ![p] = @ /\ box'[p] # "none"]
  /\ hlock' = Unlocked(hlock, e) /\ plock' = [plock EXCEPT ![p] = Unlocked(@, e)]
  /\ call' = [call EXCEPT ![e] = CallOver]
  /\ UNCHANGED <<fresh, human, take, sweep>>

-----------------------------------------------------------------------------
(* The turn. *)

\* begin_turn under the turns lock: turns.json is truncated and written.
\* A lease that cannot be taken is only logged, and the turn runs without.
BeginTurn(e) ==
  /\ call[e].pc = "ready"
  /\ \/ ~Writing(call[e].p) /\ call' = [call EXCEPT ![e].pc = "joining"]
     \/ call' = [call EXCEPT ![e] = CallOver]
  /\ UNCHANGED <<box, drifted, fresh, human, plock, hlock, take, sweep>>

LeaseWritten(e) ==
  /\ call[e].pc = "joining" /\ call' = [call EXCEPT ![e].pc = "live"]
  /\ UNCHANGED <<box, drifted, fresh, human, plock, hlock, take, sweep>>

\* end_turn, which also stamps last_used.
EndTurn(e) ==
  /\ \/ call[e].pc = "live" /\ ~Writing(call[e].p)
        /\ call' = [call EXCEPT ![e].pc = "leaving"] /\ UNCHANGED fresh
     \/ call[e].pc = "leaving"
        /\ call' = [call EXCEPT ![e] = CallOver]
        /\ fresh' = [fresh EXCEPT ![call[e].p] = TRUE]
  /\ UNCHANGED <<box, drifted, human, plock, hlock, take, sweep>>

\* The gateway process of a call dies: the kernel frees its locks, and the
\* lease's pid is no longer alive.
GatewayDies(e) ==
  /\ call[e].pc \notin {"none", "done"}
  /\ call' = [call EXCEPT ![e] = CallOver]
  /\ hlock' = Unlocked(hlock, e)
  /\ plock' = [p \in Profiles |-> Unlocked(plock[p], e)]
  /\ UNCHANGED <<box, drifted, fresh, human, take, sweep>>

-----------------------------------------------------------------------------
(* The viewer's takeover. *)

\* Mutant: the takeover does not take the profile lock.
TakeoverNoLock(k, p) ==
  /\ take[k].pc = "none"
  /\ take' = [take EXCEPT ![k] = [pc |-> "locked", p |-> p]]
  /\ UNCHANGED <<box, drifted, fresh, human, plock, hlock, call, sweep>>

\* acquire_lease waits for the profile lock; one that waited too long fails.
TakeoverLock(k, p) ==
  /\ take[k].pc = "none"
  /\ plock[p] = Free /\ plock' = [plock EXCEPT ![p] = k]
  /\ take' = [take EXCEPT ![k] = [pc |-> "locked", p |-> p]]
  /\ UNCHANGED <<box, drifted, fresh, human, hlock, call, sweep>>

\* Under the lock: only a running container is taken over, and it is used.
TakeoverEnd(k) ==
  LET p == take[k].p IN
  /\ take[k].pc = "locked" /\ take' = [take EXCEPT ![k] = [NoTake EXCEPT !.pc = "done"]]
  /\ human' = [human EXCEPT ![p] = @ \/ box[p] = "running"]
  /\ fresh' = [fresh EXCEPT ![p] = @ \/ box[p] = "running"]
  /\ plock' = [plock EXCEPT ![p] = Unlocked(@, k)]
  /\ UNCHANGED <<box, drifted, hlock, call, sweep>>

\* release_lease takes no lock.
HandBack(p) ==
  /\ human[p] /\ human' = [human EXCEPT ![p] = FALSE]
  /\ UNCHANGED <<box, drifted, fresh, plock, hlock, call, take, sweep>>

-----------------------------------------------------------------------------
(* The idle sweep. *)

SweepTo(pc) == sweep' = [sweep EXCEPT !.pc = pc, !.p = IF pc = "idle" THEN Free ELSE @]

\* A running container whose last use is outside the window; no lock is held.
SweepRead(p) ==
  /\ sweep.pc = "idle" /\ box[p] = "running" /\ ~fresh[p]
  /\ sweep' = [pc |-> "stale", p |-> p]
  /\ UNCHANGED <<box, drifted, fresh, human, plock, hlock, call, take>>

\* The lock is tried once; an ensure in flight skips the container.
SweepLock ==
  /\ sweep.pc = "stale"
  /\ IF plock[sweep.p] = Free
     THEN plock' = [plock EXCEPT ![sweep.p] = Sweeper] /\ SweepTo("locked")
     ELSE SweepTo("idle") /\ UNCHANGED plock
  /\ UNCHANGED <<box, drifted, fresh, human, hlock, call, take>>

SweepSkips == plock' = [plock EXCEPT ![sweep.p] = Free] /\ SweepTo("idle")

SweepCount ==
  /\ sweep.pc = "locked"
  /\ \E n \in Counts(sweep.p) :
       IF n = 0 THEN SweepTo("counted") /\ UNCHANGED plock ELSE SweepSkips
  /\ UNCHANGED <<box, drifted, fresh, human, hlock, call, take>>

SweepHuman ==
  /\ sweep.pc = "counted"
  /\ IF human[sweep.p] THEN SweepSkips ELSE SweepTo("clear") /\ UNCHANGED plock
  /\ UNCHANGED <<box, drifted, fresh, human, hlock, call, take>>

\* podman stop, which may fail; the lock goes with it.
SweepStop ==
  /\ sweep.pc = "clear"
  /\ \E b \in {"stopped", box[sweep.p]} :
       box' = [box EXCEPT ![sweep.p] = IF @ = "running" THEN b ELSE @]
  /\ SweepSkips
  /\ UNCHANGED <<drifted, fresh, human, hlock, call, take>>

-----------------------------------------------------------------------------
(* The host. *)

\* The idle window passes without a use.
WindowPasses(p) ==
  /\ fresh[p] /\ fresh' = [fresh EXCEPT ![p] = FALSE]
  /\ UNCHANGED <<box, drifted, human, plock, hlock, call, take, sweep>>

\* The shared configuration or the image changes under an existing container.
SpecChanges(p) ==
  /\ box[p] # "none" /\ ~drifted[p] /\ drifted' = [drifted EXCEPT ![p] = TRUE]
  /\ UNCHANGED <<box, fresh, human, plock, hlock, call, take, sweep>>

ContainerExits(p) ==
  /\ box[p] = "running" /\ box' = [box EXCEPT ![p] = "stopped"]
  /\ UNCHANGED <<drifted, fresh, human, plock, hlock, call, take, sweep>>

DeskNext ==
  \/ \E e \in Ensures, p \in Profiles, turn \in BOOLEAN : EnsureBegin(e, p, turn)
  \/ \E e \in Ensures :
       \/ TakeHost(e) \/ Inspect(e) \/ Rebuild(e) \/ CheckQuota(e) \/ StartContainer(e)
       \/ SeenRunning(e) \/ ScreenUp(e) \/ Rollback(e)
       \/ BeginTurn(e) \/ LeaseWritten(e) \/ EndTurn(e) \/ GatewayDies(e)
  \/ \E k \in Takeovers, p \in Profiles : TakeoverLock(k, p)
  \/ \E k \in Takeovers : TakeoverEnd(k)
  \/ \E p \in Profiles : \/ HandBack(p) \/ SweepRead(p) \/ WindowPasses(p)
                         \/ SpecChanges(p) \/ ContainerExits(p)
  \/ SweepLock \/ SweepCount \/ SweepHuman \/ SweepStop

DeskSpec == DeskInit /\ [][DeskNext]_deskVars

-----------------------------------------------------------------------------
(* Properties. *)

\* Calls of ensure() in several gateways, each checking the quota before it
\* starts its container, never have more containers running than the quota.
QuotaHeld == DeskTypeOK /\ Cardinality(Running) <= Quota

Swept(p) == sweep.pc = "clear" /\ sweep.p = p /\ box[p] = "running" /\ box'[p] = "stopped"
            /\ sweep'.pc = "idle"

\* The sweep never stops a container while a person holds its screen, also when
\* the takeover comes between its reads and its stop.
HumanKept == [][\A p \in Profiles : Swept(p) => ~human[p]]_deskVars

\* The sweep stops a container only when no turn lease is alive.
SweptIdle == [][\A p \in Profiles : Swept(p) => LiveTurns(p) = {}]_deskVars
=============================================================================
