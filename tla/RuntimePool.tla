----------------------------- MODULE RuntimePool -----------------------------
(***************************************************************************)
(* The pool of profile runtimes (pool.py) and the scope every runtime      *)
(* opens around a run (runtime.py): the process-wide HERMES_HOME variable, *)
(* switched to the tenant's home under a lock that exists once per event   *)
(* loop.  Three helpers of the router and of the WebUI seam open the same  *)
(* scope without a pool entry.                                             *)
(*                                                                         *)
(* _acquire contains no await that can suspend (the cold-start semaphore   *)
(* is released in the stretch that takes it), so it is one action.  A pool *)
(* entry is named after the task whose cold start created it.              *)
(***************************************************************************)
EXTENDS Integers, FiniteSets

CONSTANTS Loops,      \* event loops of the process
          Profiles,   \* profile names, each with its home
          Tasks,      \* single dispatches, or single scopes
          MaxLoaded,  \* max_loaded_runtimes
          IdleEvict,  \* idle_evict_seconds, in ticks
          MaxTime,    \* bound on the clock
          Base,       \* the value of HERMES_HOME the process started with
          None

ASSUME PoolAssumption ==
    /\ MaxLoaded \in Nat \ {0}
    /\ IdleEvict \in Nat
    /\ MaxTime \in Nat
    /\ IsFiniteSet(Tasks)
    /\ Base \notin Profiles
    /\ None \notin Tasks \cup Loops \cup Profiles

VARIABLES
    now,       \* the pool's clock
    loaded,    \* _entries: the entry of a profile
    place,     \* the order of _entries: the higher, the later it was moved to the end
    inFlight,  \* entry.in_flight
    lastUsed,  \* entry.last_used
    pc,        \* where a task is
    loopOf,    \* the loop, the profile and the pool entry of a task
    home,
    held,
    lock,      \* _ENV_LOCKS: the task that holds the loop's lock
    env,       \* os.environ["HERMES_HOME"]
    original,  \* the value a task captured when it entered its scope
    detached   \* a cancelled runner that has not finished yet

poolVars == <<loaded, place, inFlight, lastUsed>>
taskVars == <<pc, loopOf, home, held>>
envVars  == <<lock, env, original, detached>>
vars == <<now, poolVars, taskVars, envVars>>

PcStates == {"idle", "queued", "running", "finishing", "done"}

TypeOK ==
    /\ now \in 0..MaxTime
    /\ loaded \in [Profiles -> Tasks \cup {None}]
    /\ place \in [Profiles -> Nat]
    /\ inFlight \in [Tasks -> Nat]
    /\ lastUsed \in [Tasks -> 0..MaxTime]
    /\ pc \in [Tasks -> PcStates]
    /\ loopOf \in [Tasks -> Loops \cup {None}]
    /\ home \in [Tasks -> Profiles \cup {None}]
    /\ held \in [Tasks -> Tasks \cup {None}]
    /\ lock \in [Loops -> Tasks \cup {None}]
    /\ env \in Profiles \cup {Base}
    /\ original \in [Tasks -> Profiles \cup {Base}]
    /\ detached \in [Tasks -> BOOLEAN]

Init ==
    /\ now = 0
    /\ loaded = [p \in Profiles |-> None]
    /\ place = [p \in Profiles |-> 0]
    /\ inFlight = [t \in Tasks |-> 0]
    /\ lastUsed = [t \in Tasks |-> 0]
    /\ pc = [t \in Tasks |-> "idle"]
    /\ loopOf = [t \in Tasks |-> None]
    /\ home = [t \in Tasks |-> None]
    /\ held = [t \in Tasks |-> None]
    /\ lock = [l \in Loops |-> None]
    /\ env = Base
    /\ original = [t \in Tasks |-> Base]
    /\ detached = [t \in Tasks |-> FALSE]

-----------------------------------------------------------------------------
(* The pool. *)

\* _evict_idle_inplace: what it leaves.
Swept ==
    {p \in Profiles : /\ loaded[p] # None
                      /\ inFlight[loaded[p]] > 0 \/ lastUsed[loaded[p]] >= now - IdleEvict}

\* _evict_to_capacity: the oldest idle entries, until there is room for one more.
Victims(S) ==
    LET idle   == {p \in S : inFlight[loaded[p]] = 0}
        excess == Cardinality(S) - MaxLoaded + 1
    IN  {p \in idle : Cardinality({q \in idle : place[q] < place[p]}) < excess}

\* p moves to the young end, behind all that were acquired so far.
ToYoungEnd(p, kept) ==
    place' = [q \in Profiles |-> IF q = p THEN Cardinality({t \in Tasks : held[t] # None})
                                 ELSE IF q \in kept THEN place[q] ELSE 0]

\* A loaded runtime.
Hit(t, p) ==
    LET e == loaded[p] IN
    /\ p \in Swept
    /\ loaded' = [q \in Profiles |-> IF q \in Swept THEN loaded[q] ELSE None]
    /\ ToYoungEnd(p, Swept)
    /\ inFlight' = [inFlight EXCEPT ![e] = @ + 1]
    /\ lastUsed' = [lastUsed EXCEPT ![e] = now]
    /\ held' = [held EXCEPT ![t] = e]

\* A cold start: make room, create the runtime.
ColdStart(t, p) ==
    LET kept == Swept \ Victims(Swept) IN
    /\ p \notin Swept
    /\ loaded' = [q \in Profiles |-> IF q = p THEN t ELSE IF q \in kept THEN loaded[q] ELSE None]
    /\ ToYoungEnd(p, kept)
    /\ inFlight' = [inFlight EXCEPT ![t] = 1]
    /\ lastUsed' = [lastUsed EXCEPT ![t] = now]
    /\ held' = [held EXCEPT ![t] = t]

\* RuntimePool.dispatch up to the env lock: sweep, then hit or cold start.
Acquire(t, l, p) ==
    /\ pc[t] = "idle"
    /\ Hit(t, p) \/ ColdStart(t, p)
    /\ pc' = [pc EXCEPT ![t] = "queued"]
    /\ loopOf' = [loopOf EXCEPT ![t] = l]
    /\ home' = [home EXCEPT ![t] = p]
    /\ UNCHANGED <<now, envVars>>

\* A scope without a pool entry: diagnostics, image preparation, goal commands,
\* gateway commands.
Scope(t, l, p) ==
    /\ pc[t] = "idle"
    /\ pc' = [pc EXCEPT ![t] = "queued"]
    /\ loopOf' = [loopOf EXCEPT ![t] = l]
    /\ home' = [home EXCEPT ![t] = p]
    /\ UNCHANGED <<now, poolVars, held, envVars>>

\* The finally block of RuntimePool.dispatch.
Release(t) ==
    /\ pc[t] = "finishing"
    /\ pc' = [pc EXCEPT ![t] = "done"]
    /\ IF held[t] # None
       THEN /\ inFlight' = [inFlight EXCEPT ![held[t]] = @ - 1]
            /\ lastUsed' = [lastUsed EXCEPT ![held[t]] = now]
       ELSE UNCHANGED <<inFlight, lastUsed>>
    /\ UNCHANGED <<now, loaded, place, loopOf, home, held, envVars>>

-----------------------------------------------------------------------------
(* The scope. *)

\* Mutant: the variable is switched without the lock.
EnterScopeUnlocked(t) ==
    /\ pc[t] = "queued"
    /\ lock' = [lock EXCEPT ![loopOf[t]] = t]
    /\ original' = [original EXCEPT ![t] = env]
    /\ env' = home[t]
    /\ pc' = [pc EXCEPT ![t] = "running"]
    /\ UNCHANGED <<now, poolVars, loopOf, home, held, detached>>

\* The lock of the task's loop is free: capture, switch, start the runner.
EnterScope(t) ==
    /\ pc[t] = "queued"
    /\ lock[loopOf[t]] = None
    /\ lock' = [lock EXCEPT ![loopOf[t]] = t]
    /\ original' = [original EXCEPT ![t] = env]
    /\ env' = home[t]
    /\ pc' = [pc EXCEPT ![t] = "running"]
    /\ UNCHANGED <<now, poolVars, loopOf, home, held, detached>>

\* Mutant: the lock stays taken.
RestoreLocked(t) ==
    /\ env' = original[t]
    /\ lock' = lock
    /\ pc' = [pc EXCEPT ![t] = "finishing"]

\* The finally block of the scope: restore, unlock.
Restore(t) ==
    /\ env' = original[t]
    /\ lock' = [lock EXCEPT ![loopOf[t]] = None]
    /\ pc' = [pc EXCEPT ![t] = "finishing"]

\* The runner returns or raises.
RunnerEnds(t) ==
    /\ pc[t] = "running"
    /\ Restore(t)
    /\ UNCHANGED <<now, poolVars, loopOf, home, held, original, detached>>

\* The in-flight timeout or the cancellation of the caller hits the scope: the
\* runner of a dispatch is cancelled and left to finish on its own.
CancelRunning(t) ==
    /\ pc[t] = "running"
    /\ Restore(t)
    /\ detached' = [detached EXCEPT ![t] = held[t] # None]
    /\ UNCHANGED <<now, poolVars, loopOf, home, held, original>>

\* The timeout or the cancellation hits a task that still waits for the lock.
CancelQueued(t) ==
    /\ pc[t] = "queued"
    /\ pc' = [pc EXCEPT ![t] = "finishing"]
    /\ UNCHANGED <<now, poolVars, loopOf, home, held, envVars>>

\* The cancelled runner has run its own cleanup.
RunnerGone(t) ==
    /\ detached[t]
    /\ detached' = [detached EXCEPT ![t] = FALSE]
    /\ UNCHANGED <<now, poolVars, taskVars, lock, env, original>>

Tick ==
    /\ now < MaxTime
    /\ now' = now + 1
    /\ UNCHANGED <<poolVars, taskVars, envVars>>

-----------------------------------------------------------------------------
TaskStep(t) ==
    EnterScope(t) \/ RunnerEnds(t) \/ CancelRunning(t) \/ CancelQueued(t) \/ Release(t)

Next ==
    \/ \E t \in Tasks :
          \/ \E l \in Loops, p \in Profiles : Acquire(t, l, p) \/ Scope(t, l, p)
          \/ TaskStep(t)
          \/ RunnerGone(t)
    \/ Tick

Spec == Init /\ [][Next]_vars

\* The event loop runs every ready task; asyncio.Lock serves its waiters; a runner
\* ends by itself or by the in-flight timeout.  Nothing makes a waiting task time out.
PoolFairness ==
    \A t \in Tasks : /\ WF_vars(EnterScope(t))
                     /\ WF_vars(RunnerEnds(t) \/ CancelRunning(t))
                     /\ WF_vars(Release(t))

FairSpec == Spec /\ PoolFairness

-----------------------------------------------------------------------------
(* Properties. *)

Holding(e) == {t \in Tasks : held[t] = e /\ pc[t] \in {"queued", "running", "finishing"}}

\* A runtime that a dispatch uses is never evicted, neither by the idle sweep
\* nor by the capacity limit, so a profile has one runtime at a time.
InUseIsLoaded ==
    \A t \in Tasks :
        held[t] # None /\ pc[t] \in {"queued", "running", "finishing"} =>
            loaded[home[t]] = held[t]

\* in_flight is the number of dispatches in progress, whatever way they end: a
\* count too high would pin the runtime for ever, one too low would evict it.
InFlightExact == \A e \in Tasks : inFlight[e] = Cardinality(Holding(e))

\* What a dispatch uses is kept and counted until the dispatch is over, however it ends.
InUseKept == InUseIsLoaded /\ InFlightExact

\* A run that has not been cancelled sees its own tenant's home in HERMES_HOME.
RunSeesOwnHome == \A t \in Tasks : pc[t] = "running" => env = home[t]

\* When no scope is open HERMES_HOME has its original value: no run leaves the
\* process on a tenant's profile.
HomeRestored == (\A t \in Tasks : pc[t] # "running") => env = Base

\* HERMES_HOME is the home of the open scope, and the original value without one.
HomeFollowsScope == RunSeesOwnHome /\ HomeRestored

\* A dispatch keeps its runtime and its home until it ends.
DispatchesApart == InUseKept /\ HomeFollowsScope

\* Not kept by the code, and in no configuration (README, section 5): the same for every
\* piece of runner code, a cancelled runner's cleanup included.
RunnerSeesOwnHome == \A t \in Tasks : pc[t] = "running" \/ detached[t] => env = home[t]

\* Every dispatch ends and gives its runtime back.
DispatchEnds == \A t \in Tasks : pc[t] = "queued" ~> pc[t] = "done"
=============================================================================
