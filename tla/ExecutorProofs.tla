--------------------------- MODULE ExecutorProofs ---------------------------
(***************************************************************************)
(* Theorems about what executes runs: the pool of runtimes with its env    *)
(* scope (RuntimePool) and the warm worker of a profile (WarmSlot).        *)
(***************************************************************************)
EXTENDS RuntimePool, WarmSlot, FiniteSetTheorems, SequenceTheorems, TLAPS

InUse == {"queued", "running", "finishing"}

\* A task that acquired has a profile and a loop; its entry is of the same profile.
Placed ==
    \A t \in Tasks :
        /\ pc[t] # "idle" => home[t] \in Profiles /\ loopOf[t] \in Loops
        /\ held[t] # None => pc[t] # "idle" /\ pc[held[t]] # "idle" /\ home[held[t]] = home[t]

\* A loaded entry is of its profile.
LoadedOfProfile ==
    \A p \in Profiles : loaded[p] # None => pc[loaded[p]] # "idle" /\ home[loaded[p]] = p

\* Inductive: what the pool keeps and counts, on any number of loops.
PoolInv == TypeOK /\ Placed /\ LoadedOfProfile /\ InUseKept

\* The lock of a loop is held by the scope that is open on it.
LockHeld ==
    /\ \A t \in Tasks : pc[t] = "running" => lock[loopOf[t]] = t /\ original[t] = Base
    /\ \A l \in Loops : lock[l] # None => pc[lock[l]] = "running" /\ loopOf[lock[l]] = l

\* Inductive on one loop: with the lock, the variable follows the open scope.
ScopeInv == PoolInv /\ LockHeld /\ HomeFollowsScope

-----------------------------------------------------------------------------
(* The pool. *)

\* The dispatches of an entry are finitely many, and one in use counts.
LEMMA HoldingFinite ==
    ASSUME NEW e \in Tasks
    PROVE  /\ IsFiniteSet(Holding(e))
           /\ Cardinality(Holding(e)) \in Nat
           /\ \A t \in Holding(e) : Cardinality(Holding(e)) > 0
<1>1. IsFiniteSet(Holding(e))
  BY FS_Subset, PoolAssumption DEF Holding, PoolAssumption
<1>2. Cardinality(Holding(e)) \in Nat
  BY <1>1, FS_CardinalityType
<1>3. ASSUME NEW t \in Holding(e) PROVE Cardinality(Holding(e)) > 0
  BY <1>1, <1>2, <1>3, FS_EmptySet
<1> QED
  BY <1>1, <1>2, <1>3

\* An entry in use survives the idle sweep and the capacity limit.
LEMMA InUseSurvives ==
    ASSUME PoolInv, NEW t \in Tasks, held[t] # None, pc[t] \in InUse
    PROVE  /\ home[t] \in Swept \ Victims(Swept)
           /\ loaded[home[t]] = held[t]
<1>1. held[t] \in Tasks /\ home[t] \in Profiles /\ loaded[home[t]] = held[t]
  BY DEF PoolInv, TypeOK, Placed, InUseKept, InUseIsLoaded, InUse
<1>2. t \in Holding(held[t])
  BY DEF Holding, InUse
<1>3. inFlight[held[t]] > 0
  BY <1>1, <1>2, HoldingFinite DEF PoolInv, InUseKept, InFlightExact
<1>4. home[t] \in Swept
  BY <1>1, <1>3 DEF Swept
<1>5. home[t] \notin Victims(Swept)
  BY <1>1, <1>3 DEF Victims
<1> QED
  BY <1>1, <1>4, <1>5

\* A task that joins an entry is counted with it.
LEMMA Joins ==
    ASSUME PoolInv, NEW t \in Tasks, pc[t] = "idle", NEW e \in Tasks,
           held' = [held EXCEPT ![t] = e], pc' = [pc EXCEPT ![t] = "queued"],
           inFlight' = [inFlight EXCEPT ![e] = Cardinality(Holding(e)) + 1]
    PROVE  InFlightExact'
<1>1. t \notin Holding(e) /\ IsFiniteSet(Holding(e)) /\ Holding(e)' = Holding(e) \cup {t}
  BY HoldingFinite DEF Holding, PoolInv, TypeOK
<1>2. Cardinality(Holding(e)') = Cardinality(Holding(e)) + 1
  BY <1>1, FS_AddElement
<1>3. ASSUME NEW f \in Tasks, f # e PROVE Holding(f)' = Holding(f)
  BY <1>3 DEF Holding, PoolInv, TypeOK
<1>4. ASSUME NEW f \in Tasks PROVE inFlight'[f] = Cardinality(Holding(f)')
  <2>1. CASE f = e
    BY <2>1, <1>2 DEF PoolInv, TypeOK
  <2>2. CASE f # e
    BY <2>2, <1>3 DEF PoolInv, TypeOK, InUseKept, InFlightExact
  <2> QED
    BY <2>1, <2>2
<1> QED
  BY <1>4 DEF InFlightExact

\* When nobody joins or leaves, the counts stay right.
LEMMA CountsStay ==
    ASSUME InFlightExact, UNCHANGED <<inFlight, held>>,
           \A t \in Tasks : held[t] # None => (pc'[t] \in InUse <=> pc[t] \in InUse)
    PROVE  InFlightExact'
<1>1. ASSUME NEW e \in Tasks PROVE Holding(e)' = Holding(e)
  BY PoolAssumption DEF Holding, InUse, PoolAssumption
<1> QED
  BY <1>1 DEF InFlightExact

\* A hit uses the loaded entry; what others use stays.
LEMMA HitPoolInv ==
    ASSUME PoolInv, NEW t \in Tasks, NEW l \in Loops, NEW p \in Profiles,
           Acquire(t, l, p), Hit(t, p)
    PROVE  PoolInv'
<1> DEFINE e == loaded[p]
<1>1. e \in Tasks /\ e # None /\ pc[e] # "idle" /\ home[e] = p /\ e # t
  BY PoolAssumption DEF PoolInv, TypeOK, LoadedOfProfile, Hit, Swept, Acquire
<1>2. inFlight[e] = Cardinality(Holding(e)) /\ Cardinality(Holding(e)) \in Nat
  BY <1>1, HoldingFinite DEF PoolInv, InUseKept, InFlightExact
<1>3. inFlight' = [inFlight EXCEPT ![e] = Cardinality(Holding(e)) + 1]
  BY <1>1, <1>2 DEF Hit, PoolInv, TypeOK
<1>4. place' \in [Profiles -> Nat]
  <2>1. Cardinality({u \in Tasks : held[u] # None}) \in Nat
    BY FS_Subset, FS_CardinalityType, PoolAssumption DEF PoolAssumption
  <2> QED
    BY <2>1 DEF Hit, ToYoungEnd, PoolInv, TypeOK
<1>5. TypeOK'
  BY <1>1, <1>2, <1>3, <1>4 DEF PoolInv, TypeOK, Acquire, Hit, envVars, PcStates
<1>6. Placed'
  BY <1>1 DEF PoolInv, TypeOK, Placed, Acquire, Hit
<1>7. LoadedOfProfile'
  BY DEF PoolInv, TypeOK, LoadedOfProfile, Acquire, Hit
<1>8. InFlightExact'
  BY <1>1, <1>3, Joins DEF Acquire, Hit
<1>9. InUseIsLoaded'
  <2> SUFFICES ASSUME NEW u \in Tasks, held'[u] # None, pc'[u] \in InUse
               PROVE  loaded'[home'[u]] = held'[u]
    BY DEF InUseIsLoaded, InUse
  <2>1. CASE u = t
    BY <2>1, <1>1 DEF PoolInv, TypeOK, Acquire, Hit
  <2>2. CASE u # t
    <3>1. held[u] # None /\ pc[u] \in InUse /\ held'[u] = held[u] /\ home'[u] = home[u]
      BY <2>2 DEF PoolInv, TypeOK, Acquire, Hit
    <3>2. home[u] \in Swept /\ loaded[home[u]] = held[u]
      BY <3>1, InUseSurvives
    <3> QED
      BY <3>1, <3>2 DEF Hit, Swept
  <2> QED
    BY <2>1, <2>2
<1> QED
  BY <1>5, <1>6, <1>7, <1>8, <1>9 DEF PoolInv, InUseKept

\* A cold start evicts no entry in use.
LEMMA ColdStartPoolInv ==
    ASSUME PoolInv, NEW t \in Tasks, NEW l \in Loops, NEW p \in Profiles,
           Acquire(t, l, p), ColdStart(t, p)
    PROVE  PoolInv'
<1> DEFINE kept == Swept \ Victims(Swept)
<1>1. pc[t] = "idle" /\ held[t] = None /\ t # None
  BY PoolAssumption DEF PoolInv, Placed, Acquire, PoolAssumption
<1>2. Holding(t) = {}
  BY <1>1 DEF PoolInv, Placed, Holding
<1>3. inFlight' = [inFlight EXCEPT ![t] = Cardinality(Holding(t)) + 1]
  <2>1. Cardinality(Holding(t)) = 0
    BY <1>2, FS_EmptySet, Zenon
  <2>2. Cardinality(Holding(t)) + 1 = 1
    BY <2>1
  <2> QED
    BY <2>2 DEF ColdStart
<1>4. place' \in [Profiles -> Nat]
  <2>1. Cardinality({u \in Tasks : held[u] # None}) \in Nat
    BY FS_Subset, FS_CardinalityType, PoolAssumption DEF PoolAssumption
  <2> QED
    BY <2>1 DEF ColdStart, ToYoungEnd, PoolInv, TypeOK
<1>5. TypeOK'
  BY <1>1, <1>4 DEF PoolInv, TypeOK, Acquire, ColdStart, envVars, PcStates
<1>6. Placed'
  BY <1>1 DEF PoolInv, TypeOK, Placed, Acquire, ColdStart
<1>7. LoadedOfProfile'
  BY <1>1 DEF PoolInv, TypeOK, LoadedOfProfile, Acquire, ColdStart
<1>8. InFlightExact'
  BY <1>1, <1>3, Joins DEF Acquire, ColdStart
<1>9. InUseIsLoaded'
  <2> SUFFICES ASSUME NEW u \in Tasks, held'[u] # None, pc'[u] \in InUse
               PROVE  loaded'[home'[u]] = held'[u]
    BY DEF InUseIsLoaded, InUse
  <2>1. CASE u = t
    BY <2>1, <1>1 DEF PoolInv, TypeOK, Acquire, ColdStart
  <2>2. CASE u # t
    <3>1. held[u] # None /\ pc[u] \in InUse /\ held'[u] = held[u] /\ home'[u] = home[u]
      BY <2>2 DEF PoolInv, TypeOK, Acquire, ColdStart
    <3>2. home[u] \in kept /\ loaded[home[u]] = held[u]
      BY <3>1, InUseSurvives
    <3>3. home[u] # p /\ home[u] \in Profiles
      BY <3>2 DEF ColdStart, Swept
    <3> QED
      BY <3>1, <3>2, <3>3 DEF ColdStart
  <2> QED
    BY <2>1, <2>2
<1> QED
  BY <1>5, <1>6, <1>7, <1>8, <1>9 DEF PoolInv, InUseKept

\* The end of a dispatch takes its count back, however the dispatch ended.
LEMMA ReleasePoolInv ==
    ASSUME PoolInv, NEW t \in Tasks, Release(t)
    PROVE  PoolInv'
<1>1. CASE held[t] = None
  <2>1. TypeOK' /\ Placed' /\ LoadedOfProfile' /\ InUseIsLoaded'
    BY <1>1 DEF PoolInv, TypeOK, Placed, LoadedOfProfile, InUseKept, InUseIsLoaded, Release,
       envVars, PcStates
  <2>2. InFlightExact'
    BY <1>1, CountsStay DEF PoolInv, TypeOK, InUseKept, Release
  <2> QED
    BY <2>1, <2>2 DEF PoolInv, InUseKept
<1>2. CASE held[t] # None
  <2> PICK e \in Tasks : held[t] = e
    BY <1>2 DEF PoolInv, TypeOK
  <2>1. t \in Holding(e) /\ Holding(e)' = Holding(e) \ {t}
    BY <1>2 DEF PoolInv, TypeOK, Holding, Release
  <2>2. /\ inFlight[e] = Cardinality(Holding(e))
        /\ Cardinality(Holding(e)) \in Nat /\ Cardinality(Holding(e)) > 0
        /\ Cardinality(Holding(e)') = Cardinality(Holding(e)) - 1
    BY <2>1, HoldingFinite, FS_RemoveElement DEF PoolInv, InUseKept, InFlightExact
  <2>3. inFlight' = [inFlight EXCEPT ![e] = Cardinality(Holding(e)) - 1]
    BY <1>2, <2>1, <2>2 DEF Release, PoolInv, TypeOK
  <2>4. TypeOK' /\ Placed' /\ LoadedOfProfile' /\ InUseIsLoaded'
    BY <1>2, <2>1, <2>2, <2>3 DEF PoolInv, TypeOK, Placed, LoadedOfProfile, InUseKept,
       InUseIsLoaded, Release, envVars, PcStates
  <2>5. ASSUME NEW f \in Tasks PROVE inFlight'[f] = Cardinality(Holding(f)')
    <3>1. CASE f = e
      BY <3>1, <2>2, <2>3 DEF PoolInv, TypeOK
    <3>2. CASE f # e
      <4>1. Holding(f)' = Holding(f)
        BY <3>2 DEF PoolInv, TypeOK, Holding, Release
      <4> QED
        BY <3>2, <4>1, <2>3 DEF PoolInv, TypeOK, InUseKept, InFlightExact
    <3> QED
      BY <3>1, <3>2
  <2> QED
    BY <2>4, <2>5 DEF PoolInv, InUseKept, InFlightExact
<1> QED
  BY <1>1, <1>2

\* What is used is kept and counted, on any number of loops.
THEOREM InUseAlwaysKept == Spec => []PoolInv
<1>1. Init => PoolInv
  <2> SUFFICES ASSUME Init PROVE PoolInv
    OBVIOUS
  <2>1. TypeOK /\ Placed /\ LoadedOfProfile /\ InUseIsLoaded
    BY PoolAssumption DEF Init, TypeOK, Placed, LoadedOfProfile, InUseIsLoaded, PoolAssumption, PcStates
  <2>2. ASSUME NEW e \in Tasks PROVE Holding(e) = {}
    BY DEF Init, Holding
  <2>3. InFlightExact
    BY <2>2, FS_EmptySet DEF InFlightExact, Init
  <2> QED
    BY <2>1, <2>3 DEF PoolInv, InUseKept
<1>2. PoolInv /\ [Next]_vars => PoolInv'
  <2> SUFFICES ASSUME PoolInv, [Next]_vars PROVE PoolInv'
    OBVIOUS
  <2>1. ASSUME NEW t \in Tasks, NEW l \in Loops, NEW p \in Profiles, Acquire(t, l, p)
        PROVE  PoolInv'
    BY <2>1, HitPoolInv, ColdStartPoolInv DEF Acquire
  <2>2. ASSUME NEW t \in Tasks, NEW l \in Loops, NEW p \in Profiles, Scope(t, l, p)
        PROVE  PoolInv'
    <3>1. held[t] = None
      BY <2>2 DEF PoolInv, Placed, Scope
    <3>2. TypeOK' /\ Placed' /\ LoadedOfProfile' /\ InUseIsLoaded'
      BY <2>2, <3>1 DEF PoolInv, TypeOK, Placed, LoadedOfProfile, InUseKept, InUseIsLoaded,
         Scope, poolVars, envVars, PcStates
    <3>3. InFlightExact'
      BY <2>2, <3>1, CountsStay DEF PoolInv, TypeOK, InUseKept, Scope, poolVars
    <3> QED
      BY <3>2, <3>3 DEF PoolInv, InUseKept
  <2>3. ASSUME NEW t \in Tasks, EnterScope(t) \/ RunnerEnds(t) \/ CancelRunning(t) \/ CancelQueued(t)
        PROVE  PoolInv'
    <3>1. /\ pc[t] \in InUse
          /\ UNCHANGED <<now, poolVars, loopOf, home, held>>
      BY <2>3 DEF EnterScope, RunnerEnds, CancelRunning, CancelQueued, Restore, InUse
    <3>2. PICK s \in InUse : pc' = [pc EXCEPT ![t] = s]
      BY <2>3 DEF EnterScope, RunnerEnds, CancelRunning, CancelQueued, Restore, InUse
    <3>3. home[t] \in Profiles
      BY <3>1 DEF PoolInv, Placed, InUse
    <3>4. /\ env' \in Profiles \cup {Base} /\ lock' \in [Loops -> Tasks \cup {None}]
          /\ original' \in [Tasks -> Profiles \cup {Base}] /\ detached' \in [Tasks -> BOOLEAN]
      <4>1. CASE EnterScope(t)
        BY <4>1, <3>3 DEF PoolInv, TypeOK, EnterScope
      <4>2. CASE RunnerEnds(t)
        BY <4>2 DEF PoolInv, TypeOK, RunnerEnds, Restore
      <4>3. CASE CancelRunning(t)
        BY <4>3 DEF PoolInv, TypeOK, CancelRunning, Restore
      <4>4. CASE CancelQueued(t)
        BY <4>4 DEF PoolInv, TypeOK, CancelQueued, envVars
      <4> QED
        BY <2>3, <4>1, <4>2, <4>3, <4>4
    <3>5. TypeOK'
      BY <3>1, <3>2, <3>4 DEF PoolInv, TypeOK, poolVars, PcStates, InUse
    <3>6. Placed' /\ LoadedOfProfile' /\ InUseIsLoaded'
      BY <3>1, <3>2 DEF PoolInv, TypeOK, Placed, LoadedOfProfile, InUseKept, InUseIsLoaded,
         poolVars, InUse
    <3>7. InFlightExact'
      BY <3>1, <3>2, CountsStay DEF PoolInv, TypeOK, InUseKept, poolVars
    <3> QED
      BY <3>5, <3>7, <3>6 DEF PoolInv, InUseKept
  <2>4. ASSUME NEW t \in Tasks, Release(t) PROVE PoolInv'
    BY <2>4, ReleasePoolInv
  <2>5. ASSUME UNCHANGED <<poolVars, taskVars, lock, env, original>>,
               now' \in 0..MaxTime, detached' \in [Tasks -> BOOLEAN]
        PROVE  PoolInv'
    <3>1. TypeOK' /\ Placed' /\ LoadedOfProfile' /\ InUseIsLoaded'
      BY <2>5 DEF PoolInv, TypeOK, Placed, LoadedOfProfile, InUseKept, InUseIsLoaded, poolVars, taskVars
    <3>2. InFlightExact'
      BY <2>5, CountsStay DEF PoolInv, TypeOK, InUseKept, poolVars, taskVars
    <3> QED
      BY <3>1, <3>2 DEF PoolInv, InUseKept
  <2>6. CASE Tick \/ (\E t \in Tasks : RunnerGone(t)) \/ UNCHANGED vars
    <3>1. UNCHANGED <<poolVars, taskVars, lock, env, original>>
      BY <2>6 DEF Tick, RunnerGone, vars, envVars
    <3>2. now' \in 0..MaxTime
      BY <2>6, PoolAssumption DEF Tick, RunnerGone, vars, PoolInv, TypeOK, PoolAssumption
    <3>3. detached' \in [Tasks -> BOOLEAN]
      BY <2>6 DEF Tick, RunnerGone, vars, envVars, PoolInv, TypeOK
    <3> QED
      BY <3>1, <3>2, <3>3, <2>5
  <2> QED
    BY <2>1, <2>2, <2>3, <2>4, <2>6 DEF Next, TaskStep
<1> QED
  BY <1>1, <1>2, PTL DEF Spec

\* On one event loop one scope is open at a time: its task holds the lock.
LEMMA OneRunning ==
    ASSUME ScopeInv, \A k, l \in Loops : k = l,
           NEW t \in Tasks, NEW u \in Tasks, pc[t] = "running", pc[u] = "running"
    PROVE  t = u
<1>1. loopOf[t] = loopOf[u]
  BY DEF ScopeInv, PoolInv, Placed
<1> QED
  BY <1>1 DEF ScopeInv, LockHeld

\* The scope: the variable is switched and restored under the lock of the only loop.
LEMMA ScopeStep ==
    ASSUME ScopeInv, \A k, l \in Loops : k = l, NEW t \in Tasks,
           EnterScope(t) \/ RunnerEnds(t) \/ CancelRunning(t)
    PROVE  (LockHeld /\ HomeFollowsScope)'
<1> USE DEF ScopeInv, PoolInv, TypeOK
<1>1. loopOf[t] \in Loops /\ home[t] \in Profiles /\ t # None /\ UNCHANGED <<loopOf, home>>
  BY PoolAssumption DEF Placed, EnterScope, RunnerEnds, CancelRunning, PoolAssumption
<1>2. CASE EnterScope(t)
  <2>1. ASSUME NEW u \in Tasks PROVE pc[u] # "running"
    <3>1. pc[u] = "running" => loopOf[u] = loopOf[t]
      BY <1>1 DEF Placed
    <3> QED
      BY <1>1, <1>2, <3>1, PoolAssumption DEF LockHeld, EnterScope, PoolAssumption
  <2>2. env = Base
    BY <2>1 DEF HomeFollowsScope, HomeRestored
  <2>3. ASSUME NEW u \in Tasks PROVE pc'[u] = "running" <=> u = t
    BY <1>2, <2>1 DEF EnterScope
  <2>4. LockHeld'
    BY <1>1, <1>2, <2>2, <2>3 DEF LockHeld, EnterScope
  <2>5. HomeFollowsScope'
    BY <1>1, <1>2, <2>3 DEF HomeFollowsScope, HomeRestored, RunSeesOwnHome, EnterScope
  <2> QED
    BY <2>4, <2>5
<1>3. CASE RunnerEnds(t) \/ CancelRunning(t)
  <2>1. pc[t] = "running" /\ Restore(t) /\ UNCHANGED original
    BY <1>3 DEF RunnerEnds, CancelRunning
  <2>2. ASSUME NEW u \in Tasks PROVE pc'[u] # "running"
    BY <2>1, OneRunning DEF Restore
  <2>3. env' = Base
    BY <2>1 DEF LockHeld, Restore
  <2>4. ASSUME NEW l \in Loops PROVE lock'[l] = None
    BY <1>1, <2>1 DEF Restore
  <2> QED
    BY <2>2, <2>3, <2>4 DEF LockHeld, HomeFollowsScope, HomeRestored, RunSeesOwnHome
<1> QED
  BY <1>2, <1>3

\* On one event loop every dispatch keeps its runtime and every run sees its own home, the
\* process its original one; on two it does not (run pool_two_loops).
THEOREM DispatchesStayApart ==
    ASSUME \A k, l \in Loops : k = l
    PROVE  Spec => []DispatchesApart
<1>1. Init => LockHeld /\ HomeFollowsScope
  BY DEF Init, LockHeld, HomeFollowsScope, HomeRestored, RunSeesOwnHome
<1>2. PoolInv /\ PoolInv' /\ LockHeld /\ HomeFollowsScope /\ [Next]_vars
      => (LockHeld /\ HomeFollowsScope)'
  <2> SUFFICES ASSUME ScopeInv, [Next]_vars PROVE (LockHeld /\ HomeFollowsScope)'
    BY DEF ScopeInv
  <2>1. ASSUME NEW t \in Tasks, EnterScope(t) \/ RunnerEnds(t) \/ CancelRunning(t)
        PROVE  (LockHeld /\ HomeFollowsScope)'
    BY <2>1, ScopeStep
  <2>2. ASSUME UNCHANGED <<lock, env, original>>,
               \A t \in Tasks : pc'[t] = "running" <=> pc[t] = "running",
               \A t \in Tasks : pc[t] = "running" => home'[t] = home[t] /\ loopOf'[t] = loopOf[t]
        PROVE  (LockHeld /\ HomeFollowsScope)'
    <3>1. LockHeld'
      BY <2>2, PoolAssumption DEF ScopeInv, PoolInv, TypeOK, LockHeld, PoolAssumption
    <3>2. HomeFollowsScope'
      BY <2>2 DEF ScopeInv, HomeFollowsScope, HomeRestored, RunSeesOwnHome
    <3> QED
      BY <3>1, <3>2
  <2>3. ASSUME NEW t \in Tasks,
               \/ \E l \in Loops, p \in Profiles : Acquire(t, l, p) \/ Scope(t, l, p)
               \/ CancelQueued(t) \/ Release(t)
        PROVE  (LockHeld /\ HomeFollowsScope)'
    <3>1. /\ UNCHANGED <<lock, env, original>>
          /\ \A u \in Tasks : pc'[u] = "running" <=> pc[u] = "running"
          /\ \A u \in Tasks : pc[u] = "running" => home'[u] = home[u] /\ loopOf'[u] = loopOf[u]
      BY <2>3 DEF ScopeInv, PoolInv, TypeOK, Acquire, Scope, CancelQueued, Release, envVars
    <3> QED
      BY <3>1, <2>2
  <2>4. CASE Tick \/ (\E t \in Tasks : RunnerGone(t)) \/ UNCHANGED vars
    <3>1. UNCHANGED <<lock, env, original, pc, home, loopOf>>
      BY <2>4 DEF Tick, RunnerGone, vars, envVars, taskVars
    <3> QED
      BY <3>1, <2>2
  <2> QED
    BY <2>1, <2>3, <2>4 DEF Next, TaskStep
<1>3. PoolInv /\ HomeFollowsScope => DispatchesApart
  BY DEF PoolInv, DispatchesApart
<1> QED
  BY <1>1, <1>2, <1>3, InUseAlwaysKept, PTL DEF Spec

-----------------------------------------------------------------------------
(* The locks, on any number of loops: the safety half of DispatchEnds.         *)

\* A task is in its scope exactly while it holds the lock of its loop.
LocksHeld ==
    /\ \A t \in Tasks : pc[t] = "running" => lock[loopOf[t]] = t
    /\ \A l \in Loops : lock[l] # None => pc[lock[l]] = "running" /\ loopOf[lock[l]] = l

\* Scopes of one loop do not overlap, a task that waits for a lock can have it or waits for
\* a run, which ends; and when nothing is in progress every lock is free and no runtime is
\* counted as in use.
NoLockLost ==
    /\ \A t, u \in Tasks : pc[t] = "running" /\ pc[u] = "running" /\ loopOf[t] = loopOf[u] => t = u
    /\ \A t \in Tasks : pc[t] = "queued" =>
          lock[loopOf[t]] = None \/ pc[lock[loopOf[t]]] = "running"
    /\ (\A t \in Tasks : pc[t] \in {"idle", "done"}) =>
          (\A l \in Loops : lock[l] = None) /\ (\A e \in Tasks : inFlight[e] = 0)

\* Only the two ends of the scope touch a lock.
LEMMA LockStep == ASSUME PoolInv, LocksHeld, [Next]_vars PROVE LocksHeld'
<1> USE DEF PoolInv, TypeOK
<1>1. ASSUME NEW t \in Tasks, EnterScope(t) PROVE LocksHeld'
  <2>1. loopOf[t] \in Loops /\ t # None
    BY <1>1, PoolAssumption DEF Placed, EnterScope, PoolAssumption
  <2>2. ASSUME NEW u \in Tasks, pc[u] = "running" PROVE u # t /\ loopOf[u] # loopOf[t]
    BY <1>1, <2>1, <2>2, PoolAssumption DEF LocksHeld, EnterScope, PoolAssumption
  <2> QED
    BY <1>1, <2>1, <2>2 DEF LocksHeld, EnterScope
<1>2. ASSUME NEW t \in Tasks, RunnerEnds(t) \/ CancelRunning(t) PROVE LocksHeld'
  <2>1. pc[t] = "running" /\ Restore(t) /\ UNCHANGED loopOf
    BY <1>2 DEF RunnerEnds, CancelRunning
  <2>2. loopOf[t] \in Loops /\ lock[loopOf[t]] = t
    BY <2>1, PoolAssumption DEF Placed, LocksHeld, PoolAssumption
  <2>3. ASSUME NEW u \in Tasks, pc'[u] = "running" PROVE lock'[loopOf'[u]] = u
    <3>1. u # t /\ pc[u] = "running"
      BY <2>1, <2>3 DEF Restore
    <3>2. lock[loopOf[u]] = u /\ loopOf[u] # loopOf[t]
      BY <2>2, <3>1 DEF LocksHeld
    <3> QED
      BY <2>1, <3>2 DEF Restore
  <2>4. ASSUME NEW l \in Loops, lock'[l] # None
        PROVE  pc'[lock'[l]] = "running" /\ loopOf'[lock'[l]] = l
    <3>1. l # loopOf[t] /\ lock'[l] = lock[l]
      BY <2>1, <2>2, <2>4 DEF Restore
    <3> QED
      BY <2>1, <2>2, <2>4, <3>1 DEF LocksHeld, Restore
  <2> QED
    BY <2>3, <2>4 DEF LocksHeld
<1>3. ASSUME UNCHANGED lock,
             \A t \in Tasks : pc'[t] = "running" <=> pc[t] = "running",
             \A t \in Tasks : pc[t] = "running" => loopOf'[t] = loopOf[t]
      PROVE  LocksHeld'
  BY <1>3, PoolAssumption DEF LocksHeld, PoolAssumption
<1>4. ASSUME NEW t \in Tasks,
             \/ \E l \in Loops, p \in Profiles : Acquire(t, l, p) \/ Scope(t, l, p)
             \/ CancelQueued(t) \/ Release(t)
      PROVE  LocksHeld'
  <2>1. /\ UNCHANGED lock
        /\ \A u \in Tasks : pc'[u] = "running" <=> pc[u] = "running"
        /\ \A u \in Tasks : pc[u] = "running" => loopOf'[u] = loopOf[u]
    BY <1>4 DEF Acquire, Scope, CancelQueued, Release, envVars
  <2> QED
    BY <2>1, <1>3
<1>5. CASE Tick \/ (\E t \in Tasks : RunnerGone(t)) \/ UNCHANGED vars
  <2>1. UNCHANGED <<lock, pc, loopOf>>
    BY <1>5 DEF Tick, RunnerGone, vars, envVars, taskVars
  <2> QED
    BY <2>1, <1>3
<1> QED
  BY <1>1, <1>2, <1>4, <1>5 DEF Next, TaskStep

\* No cancellation, timeout or failure leaves a lock of runtime.py taken or a runtime of
\* pool.py counted, on any number of event loops.
THEOREM NoLockIsLost == Spec => []NoLockLost
<1>1. Init => LocksHeld
  BY DEF Init, LocksHeld
<1>2. PoolInv /\ LocksHeld => NoLockLost
  <2> SUFFICES ASSUME PoolInv, LocksHeld PROVE NoLockLost
    OBVIOUS
  <2>1. ASSUME NEW t \in Tasks, pc[t] = "queued"
        PROVE  lock[loopOf[t]] = None \/ pc[lock[loopOf[t]]] = "running"
    BY <2>1 DEF PoolInv, Placed, LocksHeld
  <2>2. ASSUME \A t \in Tasks : pc[t] \in {"idle", "done"}
        PROVE  (\A l \in Loops : lock[l] = None) /\ (\A e \in Tasks : inFlight[e] = 0)
    <3>1. \A l \in Loops : lock[l] = None
      BY <2>2 DEF PoolInv, TypeOK, LocksHeld
    <3>2. ASSUME NEW e \in Tasks PROVE Holding(e) = {}
      BY <2>2 DEF Holding
    <3> QED
      BY <3>1, <3>2, FS_EmptySet DEF PoolInv, InUseKept, InFlightExact
  <2> QED
    BY <2>1, <2>2 DEF LocksHeld, NoLockLost
<1> QED
  BY <1>1, <1>2, LockStep, InUseAlwaysKept, PTL DEF Spec

-----------------------------------------------------------------------------
(* The capacity of the pool. *)

InPool == {p \in Profiles : loaded[p] # None}
Acquired == {t \in Tasks : held[t] # None}
IsIdle(p) == inFlight[loaded[p]] = 0

\* The runtime of p leaves the pool; a runtime is created.
Leaves(p) == p \in InPool /\ loaded'[p] # loaded[p]
Created == \E p \in Profiles : loaded'[p] \notin {None, loaded[p]}

\* Places tell the order of the last acquisitions.
Ordered ==
    /\ \A p \in InPool : place[p] < Cardinality(Acquired)
    /\ \A p, q \in InPool : place[p] = place[q] => p = q

\* Only idle runtimes leave.  One that has not idled too long leaves only to make room, and
\* before every idle one that was acquired later; and where one is created the limit
\* holds, unless all others are in use.
EvictsOldestIdle ==
    [][/\ \A p \in InPool : Leaves(p) => IsIdle(p)
       /\ \A p \in Swept : Leaves(p) =>
              /\ Cardinality(InPool') >= MaxLoaded
              /\ \A q \in InPool : IsIdle(q) /\ ~Leaves(q) => place[p] < place[q]
       /\ Created => \/ Cardinality(InPool') <= MaxLoaded
                     \/ \A q \in InPool' : inFlight'[loaded'[q]] > 0]_vars

\* Of finitely many elements with distinct numbers, e have fewer than e before them.
LEMMA FirstOnes ==
    ASSUME NEW I, IsFiniteSet(I), NEW f, \A p \in I : f[p] \in Nat,
           \A p, q \in I : f[p] = f[q] => p = q,
           NEW e \in Nat, e <= Cardinality(I)
    PROVE  Cardinality({p \in I : Cardinality({q \in I : f[q] < f[p]}) < e}) = e
<1> DEFINE c == Cardinality(I)
           Before(p) == {q \in I : f[q] < f[p]}
           r == [p \in I |-> Cardinality(Before(p))]
           first == {p \in I : Cardinality(Before(p)) < e}
<1>1. c \in Nat
  BY FS_CardinalityType
<1>2. ASSUME NEW p \in I  PROVE IsFiniteSet(Before(p)) /\ Cardinality(Before(p)) \in 0 .. c - 1
  <2>1. Before(p) \in SUBSET (I \ {p})
    OBVIOUS
  <2>2. IsFiniteSet(I \ {p}) /\ Cardinality(I \ {p}) = c - 1
    BY FS_RemoveElement
  <2>3. IsFiniteSet(Before(p)) /\ Cardinality(Before(p)) <= c - 1
    BY <2>1, <2>2, FS_Subset
  <2>4. Cardinality(Before(p)) \in Nat
    BY <2>3, FS_CardinalityType
  <2> QED  BY <1>1, <2>3, <2>4
<1>3. ASSUME NEW p \in I, NEW q \in I, f[p] < f[q]  PROVE Cardinality(Before(p)) # Cardinality(Before(q))
  <2>1. Before(p) \in SUBSET Before(q) /\ p \in Before(q) /\ p \notin Before(p)
    BY <1>3
  <2>2. IsFiniteSet(Before(q))
    BY <1>2
  <2> HIDE DEF Before
  <2> QED  BY <2>1, <2>2, FS_Subset
<1>4. \A p, q \in I : Cardinality(Before(p)) = Cardinality(Before(q)) => p = q
  <2> SUFFICES ASSUME NEW p \in I, NEW q \in I, Cardinality(Before(p)) = Cardinality(Before(q))  PROVE p = q
    OBVIOUS
  <2>1. f[p] < f[q] \/ f[q] < f[p] \/ f[p] = f[q]
    OBVIOUS
  <2> HIDE DEF Before
  <2> QED  BY <1>3, <2>1
<1> HIDE DEF Before
<1>5. r \in Injection(I, 0 .. c - 1)
  <2>1. r \in [I -> 0 .. c - 1]
    BY <1>2
  <2> QED  BY <1>4, <2>1 DEF Injection, IsInjective
<1>6. \A n \in 0 .. c - 1 : \E p \in I : r[p] = n
  <2>1. IsFiniteSet(0 .. c - 1) /\ Cardinality(0 .. c - 1) = c
    <3>1. 0 \in Int /\ c - 1 \in Int
      BY <1>1
    <3>2. IsFiniteSet(0 .. c - 1) /\ Cardinality(0 .. c - 1) = IF 0 > c - 1 THEN 0 ELSE c - 1 - 0 + 1
      BY <3>1, FS_Interval
    <3> HIDE DEF c
    <3> QED  BY <1>1, <3>2
  <2>2. r \in Surjection(I, 0 .. c - 1)
    BY <1>5, <2>1, FS_Injection
  <2> HIDE DEF r, c
  <2> QED  BY <2>2 DEF Surjection
<1> DEFINE g == [p \in first |-> Cardinality(Before(p))]
<1>7. g \in Bijection(first, 0 .. e - 1)
  <2>1. \A p \in first : Cardinality(Before(p)) \in 0 .. e - 1
    BY <1>1, <1>2
  <2>2. g \in [first -> 0 .. e - 1]
    BY <2>1
  <2>3. \A p, q \in first : g[p] = g[q] => p = q
    BY <1>4
  <2>4. \A n \in 0 .. e - 1 : \E p \in first : g[p] = n
    <3> SUFFICES ASSUME NEW n \in 0 .. e - 1  PROVE \E p \in first : g[p] = n
      OBVIOUS
    <3>1. n \in 0 .. c - 1
      BY <1>1
    <3>2. PICK p \in I : r[p] = n
      BY <1>6, <3>1
    <3>3. Cardinality(Before(p)) = n /\ n < e
      BY <3>2
    <3>4. p \in first
      BY <3>3
    <3> QED  BY <3>3, <3>4
  <2> HIDE DEF g
  <2> QED  BY <2>2, <2>3, <2>4 DEF Bijection, Injection, IsInjective, Surjection
<1>8. IsFiniteSet(0 .. e - 1) /\ Cardinality(0 .. e - 1) = e
  <2>1. IsFiniteSet(0 .. e - 1) /\ Cardinality(0 .. e - 1) = IF 0 > e - 1 THEN 0 ELSE e - 1 - 0 + 1
    BY FS_Interval
  <2> QED  BY <2>1
<1>9. IsFiniteSet(first)
  BY FS_Subset
<1>10. ExistsBijection(first, 0 .. e - 1)
  BY <1>7 DEF ExistsBijection
<1>11. Cardinality(0 .. e - 1) = Cardinality(first)
  <2> HIDE DEF first
  <2> QED  BY <1>9, <1>10, FS_Bijection
<1> QED  BY <1>8, <1>11 DEF Before

\* The pool is finite: every runtime was created by a task of its own.
LEMMA PoolFinite ==
    ASSUME PoolInv
    PROVE  IsFiniteSet(InPool) /\ \A S \in SUBSET InPool : IsFiniteSet(S) /\ Cardinality(S) \in Nat
<1>1. [p \in InPool |-> loaded[p]] \in Injection(InPool, Tasks)
  <2>1. \A p \in InPool : loaded[p] \in Tasks /\ home[loaded[p]] = p
    BY DEF InPool, PoolInv, TypeOK, LoadedOfProfile
  <2> QED  BY <2>1 DEF Injection, IsInjective
<1>2. IsFiniteSet(InPool)
  BY <1>1, FS_Injection, PoolAssumption
<1> QED  BY <1>2, FS_Subset, FS_CardinalityType

\* What the sweep leaves is in the pool; what it takes was idle.
LEMMA SweptIs ==
    ASSUME PoolInv
    PROVE  Swept \subseteq InPool /\ \A p \in InPool \ Swept : IsIdle(p)
<1>1. \A p \in InPool : inFlight[loaded[p]] \in Nat
  BY DEF InPool, PoolInv, TypeOK
<1> QED  BY <1>1 DEF Swept, InPool, IsIdle

\* Victims are idle, older than the idle ones that stay, and as many as needed.
LEMMA VictimsAre ==
    ASSUME PoolInv, Ordered
    PROVE  LET kept == Swept \ Victims(Swept) IN
           /\ Victims(Swept) \subseteq {p \in Swept : IsIdle(p)}
           /\ \A p \in Victims(Swept), q \in kept : IsIdle(q) => place[p] < place[q]
           /\ Cardinality(kept) <= MaxLoaded - 1 \/ \A q \in kept : ~IsIdle(q)
           /\ Victims(Swept) # {} => Cardinality(kept) >= MaxLoaded - 1
           /\ IsFiniteSet(kept) /\ Cardinality(kept) \in Nat
<1> DEFINE idle == {p \in Swept : inFlight[loaded[p]] = 0}
           excess == Cardinality(Swept) - MaxLoaded + 1
           Before(p) == {q \in idle : place[q] < place[p]}
           gone == {p \in idle : Cardinality(Before(p)) < excess}
           kept == Swept \ gone
<1>0. MaxLoaded \in Nat \ {0}
  BY PoolAssumption
<1>1. Victims(Swept) = gone
  BY DEF Victims
<1>2. /\ IsFiniteSet(Swept) /\ Cardinality(Swept) \in Nat /\ IsFiniteSet(idle) /\ Cardinality(idle) \in Nat
      /\ Swept \subseteq InPool
  BY PoolFinite, SweptIs
<1>3. \A p \in idle : place[p] \in Nat
  BY <1>2 DEF PoolInv, TypeOK, InPool
<1>4. ASSUME NEW p \in idle  PROVE IsFiniteSet(Before(p)) /\ Cardinality(Before(p)) \in Nat
                                   /\ Cardinality(Before(p)) < Cardinality(idle)
  <2>1. Before(p) \in SUBSET (idle \ {p})
    BY <1>3
  <2>2. IsFiniteSet(idle \ {p}) /\ Cardinality(idle \ {p}) = Cardinality(idle) - 1
    BY <1>2, FS_RemoveElement
  <2>3. IsFiniteSet(Before(p)) /\ Cardinality(Before(p)) <= Cardinality(idle) - 1
    BY <2>1, <2>2, FS_Subset
  <2>4. Cardinality(Before(p)) \in Nat
    BY <2>3, FS_CardinalityType
  <2> HIDE DEF Before, idle
  <2> QED  BY <1>2, <2>3, <2>4
<1>11. excess \in Int
  BY <1>0, <1>2
<1>5. ASSUME NEW p \in gone, NEW q \in kept, IsIdle(q)  PROVE place[p] < place[q]
  <2>1. p \in idle /\ q \in idle /\ Cardinality(Before(p)) < excess /\ ~(Cardinality(Before(q)) < excess)
    BY <1>5 DEF IsIdle
  <2>2. SUFFICES ASSUME place[q] <= place[p]  PROVE FALSE
    BY <1>3, <2>1
  <2>3. Before(q) \in SUBSET Before(p)
    BY <1>3, <2>1, <2>2
  <2>4. Cardinality(Before(q)) <= Cardinality(Before(p))
    BY <1>4, <2>1, <2>3, FS_Subset
  <2>5. Cardinality(Before(q)) \in Nat /\ Cardinality(Before(p)) \in Nat
    <3> HIDE DEF Before, idle
    <3> QED  BY <1>4, <2>1
  <2> HIDE DEF Before, excess
  <2> QED  BY <1>11, <2>1, <2>4, <2>5
<1>6. gone \subseteq idle /\ gone \subseteq Swept /\ IsFiniteSet(gone) /\ Cardinality(gone) \in Nat
  BY <1>2, FS_Subset, FS_CardinalityType
<1>7. /\ IsFiniteSet(kept) /\ Cardinality(kept) \in Nat
      /\ Cardinality(kept) = Cardinality(Swept) - Cardinality(gone)
  <2>1. Swept \cap gone = gone
    BY <1>6
  <2>2. IsFiniteSet(kept) /\ Cardinality(kept) = Cardinality(Swept) - Cardinality(Swept \cap gone)
    BY <1>2, FS_Difference
  <2> QED  BY <2>1, <2>2, FS_CardinalityType
<1>8. CASE excess <= 0
  <2>1. gone = {}
    <3> HIDE DEF Before, idle, excess
    <3> QED  BY <1>4, <1>8, <1>11
  <2>2. Cardinality(kept) <= MaxLoaded - 1
    <3>1. kept = Swept
      BY <2>1
    <3> HIDE DEF kept
    <3> QED  BY <1>0, <1>2, <1>8, <3>1
  <2> QED  BY <1>1, <1>5, <1>6, <1>7, <2>1, <2>2 DEF IsIdle
<1>9. CASE excess > Cardinality(idle)
  <2>1. gone = idle
    <3> HIDE DEF Before, idle, excess
    <3> QED  BY <1>2, <1>4, <1>9, <1>11
  <2>2. \A q \in kept : ~IsIdle(q)
    BY <2>1 DEF IsIdle
  <2>3. Cardinality(kept) >= MaxLoaded - 1
    <3>1. Cardinality(kept) = Cardinality(Swept) - Cardinality(idle)
      BY <1>7, <2>1
    <3> HIDE DEF kept, idle
    <3> QED  BY <1>0, <1>2, <1>9, <3>1
  <2> QED  BY <1>1, <1>5, <1>6, <1>7, <2>2, <2>3 DEF IsIdle
<1>10. CASE 0 < excess /\ excess <= Cardinality(idle)
  <2>1. Cardinality(gone) = excess
    <3>1. \A p, q \in idle : place[p] = place[q] => p = q
      BY <1>2 DEF Ordered
    <3>2. excess \in Nat
      BY <1>0, <1>2, <1>10
    <3> HIDE DEF idle, excess
    <3> QED  BY <1>2, <1>3, <1>10, <3>1, <3>2, FirstOnes
  <2>2. Cardinality(kept) = MaxLoaded - 1
    <3> HIDE DEF kept, gone
    <3> QED  BY <1>0, <1>2, <1>7, <2>1
  <2>3. Cardinality(kept) <= MaxLoaded - 1 /\ Cardinality(kept) >= MaxLoaded - 1
    <3> HIDE DEF kept
    <3> QED  BY <1>0, <2>2
  <2> HIDE DEF excess
  <2> QED  BY <1>1, <1>5, <1>6, <1>7, <2>3 DEF IsIdle
<1> HIDE DEF excess, idle
<1> QED  BY <1>2, <1>8, <1>9, <1>10, <1>11

\* A cold start leaves what it keeps and the new runtime, a hit what the sweep leaves.
LEMMA AcquireKeeps ==
    ASSUME PoolInv, NEW t \in Tasks, NEW l \in Loops, NEW p \in Profiles, Acquire(t, l, p)
    PROVE  /\ t \notin Acquired /\ Acquired' = Acquired \cup {t} /\ IsFiniteSet(Acquired)
           /\ \/ /\ Hit(t, p) /\ InPool' = Swept /\ p \in Swept
                 /\ \A q \in Swept : loaded'[q] = loaded[q]
              \/ /\ ColdStart(t, p) /\ p \notin Swept /\ InPool' = (Swept \ Victims(Swept)) \cup {p}
                 /\ \A q \in Swept \ Victims(Swept) : loaded'[q] = loaded[q]
                 /\ \A q \in Profiles \ (Swept \ Victims(Swept)) : q # p => loaded'[q] = None
                 /\ loaded'[p] = t
                 /\ \A q \in InPool : loaded[q] # t
<1>1. pc[t] = "idle" /\ held[t] = None /\ t # None
  BY PoolAssumption DEF PoolInv, Placed, Acquire
<1>2. t \notin Acquired /\ IsFiniteSet(Acquired)
  BY <1>1, FS_Subset, PoolAssumption DEF Acquired
<1>3. \A q \in InPool : loaded[q] # t /\ loaded[q] \in Tasks
  BY <1>1 DEF PoolInv, TypeOK, LoadedOfProfile, InPool
<1>4. CASE Hit(t, p)
  <2>1. p \in Swept /\ loaded[p] \in Tasks /\ held' = [held EXCEPT ![t] = loaded[p]]
    BY <1>3, <1>4, SweptIs DEF Hit
  <2>2. Acquired' = Acquired \cup {t}
    BY <2>1, PoolAssumption DEF Acquired, PoolInv, TypeOK
  <2>3. InPool' = Swept /\ \A q \in Swept : loaded'[q] = loaded[q]
    BY <1>4, SweptIs DEF Hit, InPool
  <2> QED  BY <1>2, <1>4, <2>1, <2>2, <2>3
<1>5. CASE ColdStart(t, p)
  <2>1. Acquired' = Acquired \cup {t}
    BY <1>1, <1>5, PoolAssumption DEF Acquired, PoolInv, TypeOK, ColdStart
  <2>2. Victims(Swept) \subseteq Swept /\ Swept \subseteq InPool /\ p \notin Swept
    BY <1>5, SweptIs DEF Victims, ColdStart
  <2>3. \A q \in Profiles : loaded'[q] = IF q = p THEN t ELSE IF q \in Swept \ Victims(Swept) THEN loaded[q] ELSE None
    BY <1>5 DEF ColdStart
  <2>4. InPool' = (Swept \ Victims(Swept)) \cup {p}
    BY <1>1, <2>2, <2>3 DEF InPool
  <2> QED  BY <1>2, <1>3, <1>5, <2>1, <2>2, <2>3, <2>4 DEF InPool
<1> QED  BY <1>4, <1>5 DEF Acquire

LEMMA OrderedStays == PoolInv /\ Ordered /\ [Next]_vars => Ordered'
<1> SUFFICES ASSUME PoolInv, Ordered, [Next]_vars  PROVE Ordered'
  OBVIOUS
<1>1. ASSUME NEW t \in Tasks, NEW l \in Loops, NEW p \in Profiles, Acquire(t, l, p)  PROVE Ordered'
  <2> DEFINE c == Cardinality(Acquired)
  <2>1. c \in Nat /\ Cardinality(Acquired') = c + 1
    <3>1. IsFiniteSet(Acquired) /\ t \notin Acquired /\ Acquired' = Acquired \cup {t}
      BY <1>1, AcquireKeeps
    <3> QED  BY <3>1, FS_AddElement, FS_CardinalityType
  <2>2. PICK kept : /\ kept \subseteq InPool /\ InPool' = kept \cup {p} /\ ToYoungEnd(p, kept)
    <3>1. CASE Hit(t, p)
      <4>1. InPool' = Swept /\ p \in Swept
        BY <1>1, <3>1, AcquireKeeps DEF ColdStart, Hit
      <4> QED  BY <3>1, <4>1, SweptIs DEF Hit
    <3>2. CASE ColdStart(t, p)
      <4>1. InPool' = (Swept \ Victims(Swept)) \cup {p}
        BY <1>1, <3>2, AcquireKeeps DEF ColdStart, Hit
      <4> QED  BY <3>2, <4>1, SweptIs DEF ColdStart
    <3> QED  BY <1>1, <3>1, <3>2 DEF Acquire
  <2>3. /\ place'[p] = c
        /\ \A q \in kept \ {p} : place'[q] = place[q]
    BY <2>2 DEF ToYoungEnd, Acquired, InPool
  <2>4. \A q \in kept : place[q] \in Nat /\ place[q] < c
    BY <2>2 DEF Ordered, InPool, PoolInv, TypeOK
  <2>5. \A q, s \in kept : place[q] = place[s] => q = s
    BY <2>2 DEF Ordered
  <2> HIDE DEF c
  <2>6. \A q \in InPool' : place'[q] < c + 1
    BY <2>1, <2>2, <2>3, <2>4
  <2>7. \A q, s \in InPool' : place'[q] = place'[s] => q = s
    BY <2>1, <2>2, <2>3, <2>4, <2>5
  <2> QED  BY <2>1, <2>6, <2>7 DEF Ordered
<1>2. CASE UNCHANGED <<loaded, place, held>>
  BY <1>2 DEF Ordered, InPool, Acquired
<1>3. ASSUME NEW t \in Tasks, TaskStep(t) \/ RunnerGone(t) \/ (\E l \in Loops, p \in Profiles : Scope(t, l, p))
      PROVE  UNCHANGED <<loaded, place, held>>
  BY <1>3 DEF TaskStep, EnterScope, RunnerEnds, CancelRunning, CancelQueued, Release, RunnerGone, Scope, poolVars,
     taskVars
<1>4. CASE Tick \/ UNCHANGED vars
  BY <1>2, <1>4 DEF Tick, vars, poolVars, taskVars
<1> QED  BY <1>1, <1>2, <1>3, <1>4 DEF Next

\* What a step may do to the pool.
LEMMA StepEvicts ==
    ASSUME PoolInv, Ordered, [Next]_vars
    PROVE  /\ \A p \in InPool : Leaves(p) => IsIdle(p)
           /\ \A p \in Swept : Leaves(p) =>
                  /\ Cardinality(InPool') >= MaxLoaded
                  /\ \A q \in InPool : IsIdle(q) /\ ~Leaves(q) => place[p] < place[q]
           /\ Created => \/ Cardinality(InPool') <= MaxLoaded
                         \/ \A q \in InPool' : inFlight'[loaded'[q]] > 0
<1>1. CASE UNCHANGED loaded
  BY <1>1, SweptIs DEF Leaves, Created
<1>2. ASSUME NEW t \in Tasks, NEW l \in Loops, NEW p \in Profiles, Acquire(t, l, p), Hit(t, p)
      PROVE  /\ \A q \in InPool : Leaves(q) => IsIdle(q)
             /\ \A q \in Swept : ~Leaves(q)
             /\ ~Created
  <2>1. \A q \in Profiles : loaded'[q] = IF q \in Swept THEN loaded[q] ELSE None
    BY <1>2 DEF Hit
  <2>2. ~Created
    BY <2>1 DEF Created
  <2>3. \A q \in Swept : ~Leaves(q)
    BY <2>1, SweptIs DEF Leaves, InPool
  <2> QED  BY <2>2, <2>3, SweptIs
<1>3. ASSUME NEW t \in Tasks, NEW l \in Loops, NEW p \in Profiles, Acquire(t, l, p), ColdStart(t, p)
      PROVE  /\ \A q \in InPool : Leaves(q) => IsIdle(q)
             /\ \A q \in Swept : Leaves(q) =>
                    /\ Cardinality(InPool') >= MaxLoaded
                    /\ \A s \in InPool : IsIdle(s) /\ ~Leaves(s) => place[q] < place[s]
             /\ \/ Cardinality(InPool') <= MaxLoaded
                \/ \A q \in InPool' : inFlight'[loaded'[q]] > 0
  <2> DEFINE kept == Swept \ Victims(Swept)
  <2>1. /\ p \notin Swept /\ InPool' = kept \cup {p} /\ loaded'[p] = t
        /\ \A q \in kept : loaded'[q] = loaded[q]
        /\ \A q \in Profiles \ kept : q # p => loaded'[q] = None
        /\ \A q \in InPool : loaded[q] # t
    BY <1>3, AcquireKeeps DEF ColdStart, Hit
  <2>2. /\ Victims(Swept) \subseteq {q \in Swept : IsIdle(q)}
        /\ \A q \in Victims(Swept), s \in kept : IsIdle(s) => place[q] < place[s]
        /\ Cardinality(kept) <= MaxLoaded - 1 \/ \A q \in kept : ~IsIdle(q)
        /\ Victims(Swept) # {} => Cardinality(kept) >= MaxLoaded - 1
        /\ IsFiniteSet(kept) /\ Cardinality(kept) \in Nat
    BY VictimsAre
  <2>3. Swept \subseteq InPool /\ (\A q \in InPool \ Swept : IsIdle(q)) /\ InPool \subseteq Profiles
    BY SweptIs DEF InPool
  <2>4. \A q \in kept : ~Leaves(q)
    BY <2>1 DEF Leaves
  <2>5. \A q \in InPool : ~Leaves(q) => q \in kept
    BY <2>1, <2>3 DEF Leaves, InPool
  <2>6. Cardinality(InPool') = Cardinality(kept) + 1 /\ MaxLoaded \in Nat
    <3>1. p \notin kept
      BY <2>1
    <3>2. Cardinality(kept \cup {p}) = Cardinality(kept) + 1
      BY <2>2, <3>1, FS_AddElement
    <3> QED  BY <2>1, <3>2, PoolAssumption
  <2>7. \A q \in kept : inFlight'[loaded'[q]] = inFlight[loaded[q]] /\ inFlight[loaded[q]] \in Nat
    <3>1. inFlight' = [inFlight EXCEPT ![t] = 1]
      BY <1>3 DEF ColdStart
    <3>2. \A q \in InPool : loaded[q] \in Tasks /\ inFlight[loaded[q]] \in Nat /\ inFlight \in [Tasks -> Nat]
      BY DEF InPool, PoolInv, TypeOK
    <3> QED  BY <2>1, <2>3, <3>1, <3>2
  <2>8. inFlight'[loaded'[p]] = 1
    BY <1>3, <2>1 DEF ColdStart, PoolInv, TypeOK
  <2>9. ASSUME NEW q \in InPool, Leaves(q)  PROVE IsIdle(q)
    BY <2>2, <2>3, <2>4, <2>9
  <2>10. ASSUME NEW q \in Swept, Leaves(q)
         PROVE  /\ Cardinality(InPool') >= MaxLoaded
                /\ \A s \in InPool : IsIdle(s) /\ ~Leaves(s) => place[q] < place[s]
    <3>1. q \in Victims(Swept)
      BY <2>4, <2>10
    <3> HIDE DEF kept
    <3> QED  BY <2>2, <2>5, <2>6, <3>1
  <2>11. \/ Cardinality(InPool') <= MaxLoaded
         \/ \A q \in InPool' : inFlight'[loaded'[q]] > 0
    <3>1. CASE Cardinality(kept) <= MaxLoaded - 1
      <4> HIDE DEF kept
      <4> QED  BY <2>2, <2>6, <3>1
    <3>2. CASE \A q \in kept : ~IsIdle(q)
      <4>1. \A q \in kept : inFlight'[loaded'[q]] > 0
        BY <2>7, <3>2 DEF IsIdle
      <4> QED  BY <2>1, <2>8, <4>1
    <3> QED  BY <2>2, <3>1, <3>2
  <2> QED  BY <2>9, <2>10, <2>11
<1>4. ASSUME NEW t \in Tasks, TaskStep(t) \/ RunnerGone(t) \/ (\E l \in Loops, p \in Profiles : Scope(t, l, p))
      PROVE  UNCHANGED loaded
  BY <1>4 DEF TaskStep, EnterScope, RunnerEnds, CancelRunning, CancelQueued, Release, RunnerGone, Scope, poolVars
<1>5. CASE Tick \/ UNCHANGED vars
  BY <1>1, <1>5 DEF Tick, vars, poolVars
<1>6. ASSUME NEW t \in Tasks, NEW l \in Loops, NEW p \in Profiles, Acquire(t, l, p)
      PROVE  /\ \A q \in InPool : Leaves(q) => IsIdle(q)
             /\ \A q \in Swept : Leaves(q) =>
                    /\ Cardinality(InPool') >= MaxLoaded
                    /\ \A s \in InPool : IsIdle(s) /\ ~Leaves(s) => place[q] < place[s]
             /\ Created => \/ Cardinality(InPool') <= MaxLoaded
                           \/ \A q \in InPool' : inFlight'[loaded'[q]] > 0
  BY <1>2, <1>3, <1>6 DEF Acquire
<1> QED  BY <1>1, <1>4, <1>5, <1>6 DEF Next

\* The pool keeps to max_loaded_runtimes as its docstring says (pool.py,
\* _evict_idle_inplace and _evict_to_capacity): an entry in flight is never dropped, room is
\* made by dropping the least recently acquired idle ones and no more than needed, and
\* the limit is passed only when all entries are in flight.
THEOREM CapacityKept == Spec => EvictsOldestIdle
<1>1. Init => Ordered
  BY DEF Init, Ordered, InPool
<1>2. PoolInv /\ Ordered /\ [Next]_vars
      => [/\ \A p \in InPool : Leaves(p) => IsIdle(p)
          /\ \A p \in Swept : Leaves(p) =>
                 /\ Cardinality(InPool') >= MaxLoaded
                 /\ \A q \in InPool : IsIdle(q) /\ ~Leaves(q) => place[p] < place[q]
          /\ Created => \/ Cardinality(InPool') <= MaxLoaded
                        \/ \A q \in InPool' : inFlight'[loaded'[q]] > 0]_vars
  BY StepEvicts
<1> QED  BY <1>1, <1>2, OrderedStays, InUseAlwaysKept, PTL DEF Spec, EvictsOldestIdle

-----------------------------------------------------------------------------
(* The warm worker. *)

\* The phases in which a request of the run may be with the worker.
Serving == {"drain", "reading"}

\* The slot is held by the run that uses the worker, and closed once.
SlotUse ==
    \A r \in Runs :
        /\ phase[r] \in Warm => slotLock = r
        /\ slotLock = r => phase[r] \in Warm
        /\ r \in closed => phase[r] \in {"eof", "solo", "over"}
        /\ phase[r] = "eof" => r \in closed
        /\ phase[r] # "idle" => wk[r] # NoRun
        /\ phase[r] \in Warm \cup {"eof", "solo"} => r \in scope

\* Until its answer is complete a run uses the worker that is registered for its loop.
Registered ==
    /\ \A l \in RunLoops : registered[l] # NoRun => LoopOf[registered[l]] = l
    /\ \A r \in Runs : wk[r] # NoRun => LoopOf[wk[r]] = LoopOf[r]
    /\ \A r \in Runs :
          phase[r] \in (Warm \ {"leaving"}) \cup {"parked"} => registered[LoopOf[r]] = wk[r]

\* Nothing is unread or unanswered.
Clean(w) == inbox[w] = <<>> /\ out[w] = <<>>

\* The worker has the request of r and nothing else, or has answered it; done comes last.
Serves(w, r) ==
    /\ phase[r] \in Serving
    /\ wk[r] = w
    /\ inbox[w] = <<>> \/ inbox[w] = <<r>>
    /\ \A i \in 1..Len(out[w]) :
          /\ out[w][i].of = r
          /\ out[w][i].kind = "done" => i = Len(out[w]) /\ inbox[w] = <<>>

Apart == \A w \in Runs : Clean(w) \/ \E r \in Runs : Serves(w, r)

\* Inductive: the slot, whatever strays; the worker, as long as nothing strayed.
SlotInv == WarmTypeOK /\ SlotUse
WarmInv == strayed = {} => Registered /\ Apart /\ OwnAnswer

\* The types, apart for what a step of a run and what a step of its worker changes.
ProcTypes ==
    /\ proc \in [Runs -> {"none", "up", "dead"}]
    /\ inbox \in [Runs -> Seq(Runs)] /\ out \in [Runs -> Seq(Events)]
    /\ told \in [Runs -> BOOLEAN]

RunTypes ==
    /\ registered \in [RunLoops -> Runs \cup {NoRun}]
    /\ slotLock \in Runs \cup {NoRun}
    /\ closed \subseteq Runs
    /\ phase \in [Runs -> Warm \cup {"idle", "parked", "eof", "solo", "over"}]
    /\ wk \in [Runs -> Runs \cup {NoRun}]
    /\ scope \subseteq Runs /\ begun \subseteq Runs
    /\ heard \in [Runs -> SUBSET Runs]
    /\ deaths \in 0..MaxDeaths
    /\ strayed \subseteq Runs

\* What a step of a run does to the slot.
LEMMA RunTypesStep ==
    ASSUME SlotInv, NEW r \in Runs, Step(r)
    PROVE  RunTypes' /\ SlotUse'
<1>. RunTypes /\ SlotUse
  BY DEF SlotInv, WarmTypeOK, RunTypes
<1>. USE SlotAssumption DEF SlotAssumption, RunTypes, SlotUse, Warm, At
<1>1. CASE RunArrives(r)
  BY <1>1 DEF RunArrives, Got
<1>2. CASE AcquireSlot(r)
  BY <1>2 DEF AcquireSlot
<1>3. CASE WaitTimeout(r)
  BY <1>3 DEF WaitTimeout
<1>4. CASE CancelParked(r)
  BY <1>4 DEF CancelParked
<1>5. CASE Spawned(r)
  BY <1>5 DEF Spawned, Write, Reset
<1>6. CASE Booted(r)
  BY <1>6 DEF Booted, Reset
<1>7. CASE Ready(r)
  BY <1>7 DEF Ready, Write
<1>8. CASE StartFails(r)
  BY <1>8 DEF StartFails, Close, Discard, Reset
<1>9. CASE Drained(r)
  BY <1>9 DEF Drained
<1>10. CASE CancelStart(r)
  BY <1>10 DEF CancelStart, Close
<1>11. CASE Read(r)
  <2>1. wk[r] \in Runs /\ out[wk[r]] \in Seq(Events)
    BY <1>11 DEF SlotInv, WarmTypeOK, Read
  <2>2. Head(out[wk[r]]) \in Events
    BY <1>11, <2>1 DEF Read
  <2>3. Head(out[wk[r]]).of \in Runs
    BY <2>2 DEF Events
  <2> QED
    BY <1>11, <2>3 DEF Read
<1>12. CASE ReadEnds(r)
  BY <1>12 DEF ReadEnds, Close, Reset
<1>13. CASE Resume(r)
  BY <1>13 DEF Resume, Close, Discard, Reset
<1>14. CASE StopRead(r)
  BY <1>14 DEF StopRead, Discard, Reset
<1>15. CASE Leave(r)
  BY <1>15 DEF Leave, Close
<1>16. CASE SoloEnds(r)
  BY <1>16 DEF SoloEnds
<1> QED
  BY <1>1, <1>2, <1>3, <1>4, <1>5, <1>6, <1>7, <1>8, <1>9, <1>10, <1>11, <1>12, <1>13, <1>14, <1>15, <1>16 DEF Step

\* What a step of a run does to the workers' types.
LEMMA ProcTypesStep ==
    ASSUME SlotInv, NEW r \in Runs, Step(r)
    PROVE  ProcTypes'
<1>. ProcTypes /\ phase[r] \in Warm \cup {"idle", "parked", "eof", "solo", "over"}
  BY DEF SlotInv, WarmTypeOK, ProcTypes
<1>. wk[r] \in Runs \cup {NoRun} /\ registered[LoopOf[r]] \in Runs \cup {NoRun} /\ LoopOf[r] \in RunLoops
  BY SlotAssumption DEF SlotInv, WarmTypeOK, SlotAssumption
<1>1. CASE UNCHANGED procVars
  BY <1>1 DEF procVars, ProcTypes
<1>2. ASSUME NEW w \in Runs, Reset(w), \E s \in {"none", "up"} : proc' = [proc EXCEPT ![w] = s]
      PROVE  ProcTypes'
  BY <1>2 DEF ProcTypes, Reset
<1>3. ASSUME Write(r), wk[r] \in Runs, UNCHANGED <<proc, told, out>> PROVE ProcTypes'
  BY <1>3 DEF ProcTypes, Write
<1>4. ASSUME Discard(r) PROVE ProcTypes'
  BY <1>1, <1>2, <1>4 DEF Discard
<1>5. phase[r] \in Warm => wk[r] \in Runs
  BY DEF SlotInv, WarmTypeOK
<1>6. CASE RunArrives(r) \/ AcquireSlot(r) \/ WaitTimeout(r) \/ CancelParked(r) \/ Drained(r)
           \/ CancelStart(r) \/ Leave(r) \/ SoloEnds(r)
  BY <1>1, <1>6 DEF RunArrives, AcquireSlot, WaitTimeout, CancelParked, Drained, CancelStart, Leave, SoloEnds
<1>7. CASE Spawned(r) \/ Booted(r) \/ Ready(r)
  BY <1>2, <1>3, <1>5, <1>7 DEF Spawned, Booted, Ready, Warm
<1>8. CASE StartFails(r) \/ Resume(r) \/ StopRead(r)
  BY <1>4, <1>8 DEF StartFails, Resume, StopRead
<1>9. CASE Read(r)
  <2>1. wk[r] \in Runs /\ out[wk[r]] # <<>>
    BY <1>5, <1>9 DEF Read, Warm
  <2>2. Tail(out[wk[r]]) \in Seq(Events)
    BY <2>1 DEF ProcTypes
  <2> QED
    BY <1>9, <2>1, <2>2 DEF Read, ProcTypes
<1>10. CASE ReadEnds(r)
  BY <1>2, <1>5, <1>10 DEF ReadEnds, Warm
<1> QED
  BY <1>6, <1>7, <1>8, <1>9, <1>10 DEF Step

\* The slot stays with the run that uses the worker, whatever a step does.
LEMMA SlotStep == SlotInv /\ [WarmNext]_warmVars => SlotInv'
<1> SUFFICES ASSUME SlotInv, [WarmNext]_warmVars PROVE SlotInv'
  OBVIOUS
<1>1. ASSUME RunTypes', SlotUse', ProcTypes' PROVE SlotInv'
  BY <1>1 DEF SlotInv, WarmTypeOK, RunTypes, SlotUse, ProcTypes, Warm
<1>2. RunTypes /\ SlotUse /\ ProcTypes
  BY DEF SlotInv, WarmTypeOK, RunTypes, ProcTypes
<1>3. ASSUME NEW r \in Runs, Step(r) PROVE SlotInv'
  BY <1>1, <1>3, RunTypesStep, ProcTypesStep
<1>4. ASSUME NEW w \in Runs, Die(w) PROVE SlotInv'
  <2>1. RunTypes' /\ SlotUse'
    BY <1>2, <1>4, SlotAssumption DEF RunTypes, SlotUse, Die, runVars, SlotAssumption
  <2>2. ProcTypes'
    BY <1>2, <1>4 DEF ProcTypes, Die
  <2> QED
    BY <1>1, <2>1, <2>2
<1>5. ASSUME NEW w \in Runs, NEW kind \in {"content", "done"}, Emit(w, kind) PROVE SlotInv'
  <2>1. RunTypes' /\ SlotUse'
    BY <1>2, <1>5 DEF RunTypes, SlotUse, Emit, runVars
  <2>2. Head(inbox[w]) \in Runs /\ Tail(inbox[w]) \in Seq(Runs)
    BY <1>2, <1>5 DEF ProcTypes, Emit
  <2>3. Append(out[w], [of |-> Head(inbox[w]), kind |-> kind]) \in Seq(Events)
    <3>1. [of |-> Head(inbox[w]), kind |-> kind] \in Events
      BY <2>2 DEF Events
    <3> QED
      BY <1>2, <3>1 DEF ProcTypes
  <2>4. ProcTypes'
    BY <1>2, <1>5, <2>2, <2>3 DEF ProcTypes, Emit
  <2> QED
    BY <1>1, <2>1, <2>4
<1>6. CASE UNCHANGED warmVars
  BY <1>1, <1>2, <1>6 DEF RunTypes, SlotUse, ProcTypes, warmVars, runVars, procVars
<1> QED
  BY <1>3, <1>4, <1>5, <1>6 DEF WarmNext

\* No step forgets that a run strayed.
LEMMA StrayedStays == [WarmNext]_warmVars /\ strayed' = {} => strayed = {}
<1>1. ASSUME NEW r \in Runs, Step(r) PROVE strayed \subseteq strayed'
  BY <1>1 DEF Step, RunArrives, AcquireSlot, WaitTimeout, CancelParked, Spawned, Booted, Ready,
     StartFails, Drained, CancelStart, Read, ReadEnds, Resume, StopRead, Leave, SoloEnds, Discard
<1> QED
  BY <1>1 DEF WarmNext, Die, Emit, warmVars

\* The only run that may have something with a worker is the one that holds the slot.
LEMMA CleanForOthers ==
    ASSUME SlotInv, Apart, NEW r \in Runs, phase[r] \in Warm, NEW w \in Runs
    PROVE  Clean(w) \/ Serves(w, r)
BY DEF SlotInv, SlotUse, Apart, Serves, Serving, Warm

\* A step that touches neither a worker nor a serving run keeps workers apart.
LEMMA ApartKept ==
    ASSUME Apart, NEW r \in Runs,
           \A w \in Runs : \/ Clean(w)' \/ Serves(w, r)'
                           \/ /\ inbox'[w] = inbox[w] /\ out'[w] = out[w]
                              /\ ~ Serves(w, r)
                              /\ \A q \in Runs \ {r} : phase'[q] = phase[q] /\ wk'[q] = wk[q]
    PROVE  Apart'
<1> SUFFICES ASSUME NEW w \in Runs PROVE Clean(w)' \/ \E q \in Runs : Serves(w, q)'
  BY DEF Apart
<1>1. CASE Clean(w)' \/ Serves(w, r)'
  BY <1>1
<1>2. CASE /\ inbox'[w] = inbox[w] /\ out'[w] = out[w] /\ ~ Serves(w, r)
           /\ \A q \in Runs \ {r} : phase'[q] = phase[q] /\ wk'[q] = wk[q]
  BY <1>2 DEF Apart, Clean, Serves
<1> QED
  BY <1>1, <1>2

\* A run whose request was not yet with the worker writes it to a worker that has nothing else.
LEMMA WriteApart ==
    ASSUME SlotInv, Apart, NEW r \in Runs, phase[r] \in {"spawn", "ready"}, Write(r),
           UNCHANGED <<wk, out>>
    PROVE  Apart'
<1>1. wk[r] \in Runs /\ ~ Serves(wk[r], r) /\ Clean(wk[r])
  BY CleanForOthers DEF SlotInv, WarmTypeOK, Serves, Serving, Warm
<1>2. Serves(wk[r], r)'
  BY <1>1 DEF SlotInv, WarmTypeOK, Serves, Serving, Write, At, Clean
<1>3. ASSUME NEW w \in Runs, w # wk[r]
      PROVE  /\ inbox'[w] = inbox[w] /\ out'[w] = out[w] /\ ~ Serves(w, r)
             /\ \A q \in Runs \ {r} : phase'[q] = phase[q] /\ wk'[q] = wk[q]
  BY <1>3 DEF SlotInv, WarmTypeOK, Serves, Serving, Write, At
<1> QED
  BY <1>2, <1>3, ApartKept

\* Discarding the worker of the loop leaves every other one as it is.
LEMMA DiscardApart ==
    ASSUME SlotInv, Registered, Apart, NEW r \in Runs, Discard(r), UNCHANGED wk,
           \A q \in Runs \ {r} : phase'[q] = phase[q]
    PROVE  Apart'
<1>1. LoopOf[r] \in RunLoops
  BY SlotAssumption DEF SlotAssumption
<1>2. ASSUME NEW w \in Runs
      PROVE  Clean(w)' \/ /\ inbox'[w] = inbox[w] /\ out'[w] = out[w] /\ ~ Serves(w, r)
                          /\ \A q \in Runs \ {r} : phase'[q] = phase[q] /\ wk'[q] = wk[q]
  <2>1. Serves(w, r) => registered[LoopOf[r]] = w
    BY <1>2 DEF Registered, Serves, Serving, Warm
  <2>2. CASE registered[LoopOf[r]] = w
    <3>1. w # NoRun
      BY SlotAssumption DEF SlotAssumption
    <3> QED
      BY <2>2, <3>1 DEF SlotInv, WarmTypeOK, Discard, Reset, Clean
  <2>3. CASE registered[LoopOf[r]] # w
    BY <2>1, <2>3 DEF SlotInv, WarmTypeOK, Discard, Reset, procVars
  <2> QED
    BY <2>2, <2>3
<1> QED
  BY <1>2, ApartKept

\* A discarded worker is nobody else's, unless a run strayed.
LEMMA DiscardRegistered ==
    ASSUME SlotInv, Registered, NEW r \in Runs, Discard(r), strayed' = {}, UNCHANGED wk,
           phase'[r] \notin (Warm \ {"leaving"}) \cup {"parked"},
           \A q \in Runs \ {r} : phase'[q] = phase[q]
    PROVE  Registered'
<1> DEFINE w == registered[LoopOf[r]]
<1>1. LoopOf[r] \in RunLoops
  BY SlotAssumption DEF SlotAssumption
<1>2. registered' = [registered EXCEPT ![LoopOf[r]] = NoRun]
  BY DEF Discard
<1>3. ASSUME NEW q \in Runs \ {r}, phase[q] \in (Warm \ {"leaving"}) \cup {"parked"}
      PROVE  LoopOf[q] # LoopOf[r]
  <2>1. wk[q] # NoRun /\ registered[LoopOf[q]] = wk[q]
    BY <1>3 DEF SlotInv, SlotUse, Registered, Warm
  <2> QED
    BY <1>3, <2>1 DEF Discard
<1>4. \A l \in RunLoops : registered'[l] # NoRun => LoopOf[registered'[l]] = l
  BY <1>1, <1>2 DEF SlotInv, WarmTypeOK, Registered
<1>5. ASSUME NEW q \in Runs, phase'[q] \in (Warm \ {"leaving"}) \cup {"parked"}
      PROVE  registered'[LoopOf[q]] = wk'[q]
  <2>1. q # r /\ phase[q] \in (Warm \ {"leaving"}) \cup {"parked"}
    BY <1>5
  <2>2. LoopOf[q] # LoopOf[r] /\ LoopOf[q] \in RunLoops
    BY <1>3, <2>1, SlotAssumption DEF SlotAssumption
  <2> QED
    BY <1>1, <1>2, <2>1, <2>2 DEF SlotInv, WarmTypeOK, Registered
<1> QED
  BY <1>4, <1>5 DEF Registered

\* A step that leaves registrations alone, and no run waiting or starting that was not.
LEMMA RegisteredKept ==
    ASSUME Registered, UNCHANGED <<registered, wk>>,
           \A q \in Runs : phase'[q] \in (Warm \ {"leaving"}) \cup {"parked"}
                           => phase[q] \in (Warm \ {"leaving"}) \cup {"parked"}
    PROVE  Registered'
BY DEF Registered

\* What is read is of the reader's own request, and after done there is nothing left.
LEMMA ReadKeeps ==
    ASSUME SlotInv, Apart, NEW r \in Runs, \A q \in Runs : heard[q] \subseteq {q}, Read(r)
    PROVE  Apart' /\ \A q \in Runs : heard'[q] \subseteq {q}
<1> PICK w \in Runs : wk[r] = w
  BY DEF SlotInv, WarmTypeOK, Read, Warm
<1>1. out[w] \in Seq(Events) /\ out[w] # <<>> /\ phase[r] = "reading"
  BY DEF SlotInv, WarmTypeOK, Read
<1>2. Serves(w, r)
  BY <1>1, CleanForOthers DEF Clean, Warm
<1>3. Len(out[w]) \in Nat \ {0} /\ Head(out[w]) = out[w][1]
  BY <1>1
<1>4. 1 \in 1..Len(out[w])
  BY <1>3
<1>5. out[w][1].of = r /\ (out[w][1].kind = "done" => Len(out[w]) = 1 /\ inbox[w] = <<>>)
  BY <1>2, <1>4 DEF Serves
<1>6. \A q \in Runs : heard'[q] \subseteq {q}
  BY <1>3, <1>5 DEF SlotInv, WarmTypeOK, Read
<1>7. /\ out'[w] = Tail(out[w]) /\ inbox' = inbox /\ wk' = wk
      /\ \A q \in Runs \ {w} : out'[q] = out[q]
      /\ \A q \in Runs \ {r} : phase'[q] = phase[q]
  BY <1>1 DEF SlotInv, WarmTypeOK, Read, At
<1>8. CASE out[w][1].kind = "done"
  <2>1. Len(out[w]) = 1 /\ inbox[w] = <<>>
    BY <1>8, <1>5
  <2>2. Tail(out[w]) = <<>>
    <3>1. Tail(out[w]) \in Seq(Events) /\ Len(Tail(out[w])) = 0
      BY <1>1, <2>1
    <3> QED
      BY <3>1, EmptySeq, Zenon
  <2>3. Clean(w)'
    BY <1>7, <2>1, <2>2 DEF Clean
  <2>4. ASSUME NEW v \in Runs, v # w
        PROVE  inbox'[v] = inbox[v] /\ out'[v] = out[v] /\ ~ Serves(v, r)
    BY <1>7, <2>4 DEF Serves
  <2> QED
    BY <1>6, <1>7, <2>3, <2>4, ApartKept
<1>9. CASE out[w][1].kind # "done"
  <2>1. phase' = phase
    BY <1>3, <1>9 DEF Read
  <2>2. /\ Len(Tail(out[w])) = Len(out[w]) - 1
        /\ \A i \in 1..Len(Tail(out[w])) : i + 1 \in 1..Len(out[w]) /\ Tail(out[w])[i] = out[w][i + 1]
    BY <1>1, <1>3
  <2>3. Serves(w, r)'
    <3>1. phase'[r] \in Serving /\ wk'[r] = w /\ (inbox'[w] = <<>> \/ inbox'[w] = <<r>>)
      BY <1>2, <1>7, <2>1 DEF Serves
    <3>2. ASSUME NEW i \in 1..Len(Tail(out[w]))
          PROVE  /\ Tail(out[w])[i].of = r
                 /\ Tail(out[w])[i].kind = "done" => i = Len(Tail(out[w])) /\ inbox[w] = <<>>
      <4>1. i + 1 \in 1..Len(out[w]) /\ Tail(out[w])[i] = out[w][i + 1]
        BY <2>2
      <4>2. /\ out[w][i + 1].of = r
            /\ out[w][i + 1].kind = "done" => i + 1 = Len(out[w]) /\ inbox[w] = <<>>
        BY <1>2, <4>1 DEF Serves
      <4> QED
        BY <1>3, <2>2, <4>1, <4>2
    <3> QED
      BY <1>7, <3>1, <3>2 DEF Serves
  <2>4. ASSUME NEW v \in Runs, v # w
        PROVE  inbox'[v] = inbox[v] /\ out'[v] = out[v] /\ ~ Serves(v, r)
    BY <1>7, <2>4 DEF Serves
  <2> QED
    BY <1>6, <1>7, <2>3, <2>4, ApartKept
<1> QED
  BY <1>8, <1>9

\* The worker answers the request it has; the answer ends with done.
LEMMA EmitApart ==
    ASSUME SlotInv, Apart, NEW w \in Runs, NEW kind \in {"content", "done"}, Emit(w, kind)
    PROVE  Apart'
<1>1. PICK r \in Runs : Serves(w, r)
  BY DEF Apart, Clean, Emit
<1>2. inbox[w] = <<r>>
  BY <1>1 DEF Serves, Emit
<1>3. Head(inbox[w]) = r /\ Tail(inbox[w]) = <<>>
  BY <1>2
<1> DEFINE e == [of |-> r, kind |-> kind]
<1>4. out[w] \in Seq(Events) /\ out'[w] = Append(out[w], e)
  BY <1>3 DEF SlotInv, WarmTypeOK, Emit
<1>5. ASSUME NEW i \in 1..Len(out[w])
      PROVE  out[w][i].of = r /\ out[w][i].kind # "done"
  BY <1>1, <1>2 DEF Serves
<1>6. inbox'[w] = <<>> \/ (kind = "content" /\ inbox'[w] = <<r>>)
  <2>1. CASE kind = "content"
    BY <1>2, <2>1 DEF Emit
  <2>2. CASE kind = "done"
    <3>1. inbox' = [inbox EXCEPT ![w] = Tail(inbox[w])]
      BY <2>2 DEF Emit
    <3>2. inbox'[w] = Tail(inbox[w])
      BY <3>1 DEF SlotInv, WarmTypeOK
    <3> QED
      BY <1>3, <3>2
  <2> QED
    BY <2>1, <2>2
<1>7. /\ Len(out'[w]) = Len(out[w]) + 1
      /\ \A i \in 1..Len(out'[w]) : out'[w][i] = IF i <= Len(out[w]) THEN out[w][i] ELSE e
  BY <1>4
<1>8. ASSUME NEW i \in 1..Len(out'[w])
      PROVE  out'[w][i].of = r /\ (out'[w][i].kind = "done" => i = Len(out'[w]) /\ inbox'[w] = <<>>)
  <2>1. CASE i <= Len(out[w])
    BY <2>1, <1>4, <1>5, <1>7
  <2>2. CASE i > Len(out[w])
    BY <2>2, <1>4, <1>6, <1>7
  <2> QED
    BY <2>1, <2>2, <1>4
<1>9. Serves(w, r)'
  BY <1>1, <1>6, <1>8 DEF Serves, Emit, runVars
<1>10. ASSUME NEW v \in Runs, v # w
       PROVE  inbox'[v] = inbox[v] /\ out'[v] = out[v]
  BY <1>10 DEF Emit, SlotInv, WarmTypeOK
<1>11. ASSUME NEW v \in Runs PROVE Clean(v)' \/ \E q \in Runs : Serves(v, q)'
  <2>1. CASE v = w
    BY <1>9, <2>1
  <2>2. CASE v # w
    BY <1>10, <2>2 DEF Apart, Clean, Serves, Emit, runVars
  <2> QED
    BY <2>1, <2>2
<1> QED
  BY <1>11 DEF Apart

\* One step of a run, as long as none strayed.
LEMMA RunStepApart ==
    ASSUME SlotInv, Registered, Apart, \A q \in Runs : heard[q] \subseteq {q},
           NEW r \in Runs, Step(r), strayed' = {}
    PROVE  Registered' /\ Apart' /\ \A q \in Runs : heard'[q] \subseteq {q}
<1> USE DEF SlotInv, WarmTypeOK
<1>1. CASE /\ UNCHANGED <<procVars, heard, wk, registered>>
           /\ phase[r] \notin Serving \/ Drained(r)
           /\ \A q \in Runs \ {r} : phase'[q] = phase[q]
           /\ (phase'[r] \in (Warm \ {"leaving"}) \cup {"parked"}
               => phase[r] \in (Warm \ {"leaving"}) \cup {"parked"})
  <2>1. Registered'
    BY <1>1, RegisteredKept
  <2>2. CASE Drained(r)
    <3>1. ASSUME NEW w \in Runs PROVE Clean(w)' \/ \E q \in Runs : Serves(w, q)'
      <4>1. Clean(w) => Clean(w)'
        BY <2>2 DEF Clean, procVars, Drained
      <4>2. ASSUME NEW q \in Runs, Serves(w, q) PROVE Serves(w, q)'
        BY <2>2, <4>2 DEF Serves, Serving, procVars, Drained, At
      <4> QED
        BY <4>1, <4>2 DEF Apart
    <3> QED
      BY <1>1, <2>1, <3>1 DEF Apart
  <2>3. CASE phase[r] \notin Serving
    <3>1. ASSUME NEW w \in Runs
          PROVE  inbox'[w] = inbox[w] /\ out'[w] = out[w] /\ ~ Serves(w, r)
      BY <1>1, <2>3 DEF Serves, procVars
    <3> QED
      BY <1>1, <2>1, <3>1, ApartKept
  <2> QED
    BY <1>1, <2>2, <2>3
<1>2. CASE AcquireSlot(r) \/ WaitTimeout(r) \/ CancelParked(r) \/ Drained(r) \/ Leave(r) \/ SoloEnds(r)
  <2>1. /\ UNCHANGED <<procVars, heard, wk, registered>>
        /\ \A q \in Runs \ {r} : phase'[q] = phase[q]
        /\ phase[r] \notin Serving \/ Drained(r)
    BY <1>2 DEF AcquireSlot, WaitTimeout, CancelParked, Drained, Leave, SoloEnds, procVars, At, Serving
  <2>2. phase'[r] \in (Warm \ {"leaving"}) \cup {"parked"}
        => phase[r] \in (Warm \ {"leaving"}) \cup {"parked"}
    BY <1>2 DEF AcquireSlot, WaitTimeout, CancelParked, Drained, Leave, SoloEnds, At, Warm
  <2> QED
    BY <1>1, <2>1, <2>2
<1>3. CASE CancelStart(r)
  <2>1. phase[r] \notin Serving
    BY <1>3 DEF CancelStart, Serving
  <2>2. UNCHANGED <<procVars, heard, wk, registered>> /\ phase' = [phase EXCEPT ![r] = "over"]
    BY <1>3 DEF CancelStart, At
  <2> QED
    BY <1>1, <2>1, <2>2 DEF Warm
<1>4. CASE RunArrives(r)
  <2>1. Apart'
    <3>1. ASSUME NEW w \in Runs
          PROVE  /\ inbox'[w] = inbox[w] /\ out'[w] = out[w] /\ ~ Serves(w, r)
                 /\ \A q \in Runs \ {r} : phase'[q] = phase[q] /\ wk'[q] = wk[q]
      BY <1>4 DEF RunArrives, Serves, Serving, procVars, At
    <3> QED
      BY <3>1, ApartKept
  <2>2. Got(r) \in Runs /\ LoopOf[Got(r)] = LoopOf[r] /\ LoopOf[r] \in RunLoops /\ Got(r) # NoRun
    BY SlotAssumption DEF SlotAssumption, Got, Registered
  <2>3. \A l \in RunLoops : registered[l] # NoRun => registered'[l] = registered[l]
    BY <1>4, <2>2 DEF RunArrives, Got
  <2>4. /\ registered'[LoopOf[r]] = Got(r) /\ wk'[r] = Got(r)
        /\ \A l \in RunLoops \ {LoopOf[r]} : registered'[l] = registered[l]
        /\ \A q \in Runs \ {r} : wk'[q] = wk[q] /\ phase'[q] = phase[q]
    BY <1>4, <2>2 DEF RunArrives, At
  <2>5. \A l \in RunLoops : registered'[l] # NoRun => LoopOf[registered'[l]] = l
    BY <2>2, <2>4 DEF Registered
  <2>6. \A q \in Runs : wk'[q] # NoRun => LoopOf[wk'[q]] = LoopOf[q]
    BY <2>2, <2>4 DEF Registered
  <2>7. ASSUME NEW q \in Runs, phase'[q] \in (Warm \ {"leaving"}) \cup {"parked"}
        PROVE  registered'[LoopOf[q]] = wk'[q]
    <3>1. CASE q = r
      BY <2>4, <3>1
    <3>2. CASE q # r
      <4>1. phase[q] # "idle" /\ registered[LoopOf[q]] = wk[q] /\ LoopOf[q] \in RunLoops
        BY <2>4, <2>7, <3>2, SlotAssumption DEF Registered, SlotAssumption, Warm
      <4>2. wk[q] # NoRun
        BY <4>1 DEF SlotUse
      <4> QED
        BY <2>3, <2>4, <3>2, <4>1, <4>2
    <3> QED
      BY <3>1, <3>2
  <2>8. Registered'
    BY <2>5, <2>6, <2>7 DEF Registered
  <2> QED
    BY <1>4, <2>1, <2>8 DEF RunArrives
<1>5. CASE Spawned(r) \/ Booted(r) \/ Ready(r)
  <2>1. wk[r] \in Runs /\ phase[r] \in {"spawn", "boot", "ready"}
    BY <1>5 DEF Spawned, Booted, Ready, Warm
  <2>2. /\ UNCHANGED <<registered, wk, heard>>
        /\ \A q \in Runs \ {r} : phase'[q] = phase[q]
    BY <1>5 DEF Spawned, Booted, Ready, Write, At
  <2>3. Registered'
    <3>1. \A q \in Runs : phase'[q] \in (Warm \ {"leaving"}) \cup {"parked"}
                          => phase[q] \in (Warm \ {"leaving"}) \cup {"parked"}
      BY <2>1, <2>2 DEF Warm
    <3> QED
      BY <2>2, <3>1, RegisteredKept
  <2>4. CASE Reset(wk[r])
    <3>1. Clean(wk[r])'
      BY <2>1, <2>2, <2>4 DEF Reset, Clean
    <3>2. ASSUME NEW w \in Runs, w # wk[r]
          PROVE  inbox'[w] = inbox[w] /\ out'[w] = out[w] /\ ~ Serves(w, r)
      BY <2>1, <2>4, <3>2 DEF Reset, Serves
    <3>3. ASSUME NEW w \in Runs
          PROVE  \/ Clean(w)'
                 \/ /\ inbox'[w] = inbox[w] /\ out'[w] = out[w] /\ ~ Serves(w, r)
                    /\ \A q \in Runs \ {r} : phase'[q] = phase[q] /\ wk'[q] = wk[q]
      BY <2>2, <3>1, <3>2 DEF Clean
    <3>4. Apart'
      BY <3>3, ApartKept
    <3> QED
      BY <2>2, <2>3, <3>4
  <2>5. CASE Write(r) /\ UNCHANGED out
    <3>1. phase[r] \in {"spawn", "ready"}
      BY <1>5, <2>1, <2>5 DEF Spawned, Booted, Ready, Write, At
    <3> QED
      BY <2>2, <2>3, <2>5, <3>1, WriteApart
  <2> QED
    BY <1>5, <2>4, <2>5 DEF Spawned, Booted, Ready
<1>6. CASE StartFails(r) \/ Resume(r) \/ StopRead(r)
  <2>1. /\ Discard(r) /\ UNCHANGED <<wk, heard>>
        /\ phase'[r] \notin (Warm \ {"leaving"}) \cup {"parked"}
        /\ \A q \in Runs \ {r} : phase'[q] = phase[q]
    BY <1>6 DEF StartFails, Resume, StopRead, At, Warm
  <2> QED
    BY <2>1, DiscardApart, DiscardRegistered
<1>7. CASE Read(r)
  <2>1. Registered'
    <3>1. UNCHANGED <<registered, wk>> /\ \A q \in Runs : phase'[q] # phase[q] => phase'[q] = "leaving"
      BY <1>7 DEF Read, At
    <3> QED
      BY <3>1, RegisteredKept
  <2> QED
    BY <1>7, <2>1, ReadKeeps
<1>8. CASE ReadEnds(r)
  <2>1. wk[r] \in Runs
    BY <1>8 DEF ReadEnds, Warm
  <2>2. /\ UNCHANGED <<registered, wk, heard>>
        /\ phase' = [phase EXCEPT ![r] = "eof"]
        /\ Reset(wk[r])
    BY <1>8 DEF ReadEnds, At
  <2>3. Registered'
    <3>1. \A q \in Runs : phase'[q] \in (Warm \ {"leaving"}) \cup {"parked"}
                          => phase[q] \in (Warm \ {"leaving"}) \cup {"parked"}
      BY <2>2 DEF Warm
    <3> QED
      BY <2>2, <3>1, RegisteredKept
  <2>4. Clean(wk[r])'
    BY <2>1, <2>2 DEF Reset, Clean
  <2>5. ASSUME NEW w \in Runs, w # wk[r]
        PROVE  inbox'[w] = inbox[w] /\ out'[w] = out[w] /\ ~ Serves(w, r)
    BY <2>1, <2>2, <2>5 DEF Reset, Serves
  <2> QED
    BY <2>2, <2>3, <2>4, <2>5, ApartKept
<1> QED
  BY <1>2, <1>3, <1>4, <1>5, <1>6, <1>7, <1>8 DEF Step

\* A worker's step, as long as no run strayed.
LEMMA WorkerStepApart ==
    ASSUME SlotInv, Registered, Apart, NEW w \in Runs,
           Die(w) \/ \E kind \in {"content", "done"} : Emit(w, kind)
    PROVE  Registered' /\ Apart' /\ UNCHANGED heard
<1>1. Registered' /\ UNCHANGED heard
  BY RegisteredKept DEF Die, Emit, runVars
<1>2. CASE Die(w)
  <2>1. UNCHANGED <<wk, phase, out>> /\ \A v \in Runs : inbox'[v] = inbox[v] \/ inbox'[v] = <<>>
    BY <1>2 DEF SlotInv, WarmTypeOK, Die, runVars
  <2>2. ASSUME NEW v \in Runs, Clean(v) PROVE Clean(v)'
    BY <2>1, <2>2 DEF Clean
  <2>3. ASSUME NEW v \in Runs, NEW r \in Runs, Serves(v, r) PROVE Serves(v, r)'
    BY <2>1, <2>3 DEF Serves
  <2> QED
    BY <1>1, <2>2, <2>3 DEF Apart
<1>3. ASSUME NEW kind \in {"content", "done"}, Emit(w, kind) PROVE Apart'
  BY <1>3, EmitApart
<1> QED
  BY <1>1, <1>2, <1>3

\* At most the worker of the run in the slot executes, and it executes that run.
LEMMA IsolatedInside == SlotInv /\ WarmInv => RunsIsolated
<1> SUFFICES ASSUME SlotInv, WarmInv PROVE RunsIsolated
  OBVIOUS
<1>1. SlotHeld
  BY DEF SlotInv, SlotUse, SlotHeld
<1>2. OwnAnswer
  BY DEF WarmInv, OwnAnswer
<1>3. ASSUME strayed = {}, NEW w \in Executing
      PROVE  slotLock \in Runs /\ Serves(w, slotLock) /\ Head(inbox[w]) = slotLock
  <2>1. PICK r \in Runs : Serves(w, r)
    BY <1>3 DEF WarmInv, Apart, Clean, Executing
  <2>2. slotLock = r /\ inbox[w] = <<r>>
    BY <1>3, <2>1 DEF SlotInv, SlotUse, Serves, Serving, Warm, Executing
  <2> QED
    BY <2>1, <2>2
<1>4. OrphanKilled
  BY <1>3 DEF OrphanKilled, SlotInv, SlotUse, Serves, Serving, Warm
<1>5. NeverOverlap
  <2> SUFFICES ASSUME strayed = {} PROVE Cardinality(Executing) <= 1
    BY DEF NeverOverlap
  <2>1. \A v, w \in Executing : v = w
    BY <1>3 DEF Serves
  <2>2. CASE Executing = {}
    BY <2>2, FS_EmptySet
  <2>3. ASSUME NEW w \in Executing PROVE Cardinality(Executing) <= 1
    <3>1. Executing = {w}
      BY <2>1
    <3>2. Cardinality({w}) = 1
      BY FS_Singleton
    <3> QED
      BY <3>1, <3>2
  <2> QED
    BY <2>2, <2>3
<1> QED
  BY <1>1, <1>2, <1>4, <1>5 DEF RunsIsolated

\* Runs of one profile never share the worker: one at a time, in its slot and scope, each
\* with its own answer, as long as no run strayed.
THEOREM WarmRunsIsolated == WarmSpec => []RunsIsolated
<1>1. WarmInit => SlotInv /\ WarmInv
  BY SlotAssumption, EmptySeq DEF WarmInit, SlotInv, WarmTypeOK, SlotUse, WarmInv, Registered, Apart, Clean,
     OwnAnswer, Warm, SlotAssumption
<1>2. SlotInv /\ WarmInv /\ [WarmNext]_warmVars => WarmInv'
  <2> SUFFICES ASSUME SlotInv, WarmInv, [WarmNext]_warmVars, strayed' = {}
               PROVE  Registered' /\ Apart' /\ \A q \in Runs : heard'[q] \subseteq {q}
    BY DEF WarmInv, OwnAnswer
  <2>1. Registered /\ Apart /\ \A q \in Runs : heard[q] \subseteq {q}
    BY StrayedStays DEF WarmInv, OwnAnswer
  <2>2. ASSUME NEW r \in Runs, Step(r)
        PROVE  Registered' /\ Apart' /\ \A q \in Runs : heard'[q] \subseteq {q}
    BY <2>1, <2>2, RunStepApart
  <2>3. ASSUME NEW w \in Runs, Die(w) \/ \E kind \in {"content", "done"} : Emit(w, kind)
        PROVE  Registered' /\ Apart' /\ \A q \in Runs : heard'[q] \subseteq {q}
    BY <2>1, <2>3, WorkerStepApart
  <2>4. CASE UNCHANGED warmVars
    BY <2>1, <2>4 DEF Registered, Apart, Clean, Serves, warmVars, runVars, procVars
  <2> QED
    BY <2>2, <2>3, <2>4 DEF WarmNext
<1> QED
  BY <1>1, <1>2, SlotStep, IsolatedInside, PTL DEF WarmSpec

-----------------------------------------------------------------------------
(* What a run leaves behind: the safety half of NeverWedged.                   *)

\* A run that has not started, waits for the slot or is over has no env scope.
ScopesLeft == \A r \in Runs : phase[r] \in {"idle", "parked", "over"} => r \notin scope

\* Only a run that still uses the worker has the slot, and a run that is over has left its
\* scope; so when nothing runs the slot is free and no scope is open.
NothingLeftTaken ==
    /\ slotLock # NoRun => phase[slotLock] \in Warm
    /\ (\A r \in Runs : phase[r] \in {"idle", "over"}) => slotLock = NoRun /\ scope = {}

\* A run enters its scope with the slot or alone, and leaves it on every way out.
LEMMA ScopesStep == ASSUME SlotInv, ScopesLeft, [WarmNext]_warmVars PROVE ScopesLeft'
<1> USE DEF SlotInv, WarmTypeOK, ScopesLeft
<1>1. ASSUME NEW r \in Runs, Step(r) PROVE ScopesLeft'
  <2>1. /\ phase[r] # "over"
        /\ \A q \in Runs : q # r => phase'[q] = phase[q] /\ (q \in scope' <=> q \in scope)
    BY <1>1 DEF Step, At, Write, RunArrives, AcquireSlot, WaitTimeout, CancelParked, Spawned,
       Booted, Ready, StartFails, Drained, CancelStart, Read, ReadEnds, Resume, StopRead,
       Leave, SoloEnds
  <2>2. phase'[r] \in {"idle", "parked", "over"} => r \notin scope'
    BY <1>1 DEF Step, At, Write, RunArrives, AcquireSlot, WaitTimeout, CancelParked, Spawned,
       Booted, Ready, StartFails, Drained, CancelStart, Read, ReadEnds, Resume, StopRead,
       Leave, SoloEnds
  <2> QED
    BY <2>1, <2>2
<1>2. ASSUME NEW w \in Runs, Die(w) \/ \E kind \in {"content", "done"} : Emit(w, kind)
      PROVE  ScopesLeft'
  BY <1>2 DEF Die, Emit, runVars
<1>3. CASE UNCHANGED warmVars
  BY <1>3 DEF warmVars, runVars
<1> QED
  BY <1>1, <1>2, <1>3 DEF WarmNext

\* No cancellation, timeout or dying worker leaves the slot of warm_worker.py taken or an
\* env scope of streaming.py open, for any runs and loops, strayed runs included.
THEOREM NoSlotIsLost == WarmSpec => []NothingLeftTaken
<1>1. WarmInit => SlotInv /\ ScopesLeft
  BY SlotAssumption, EmptySeq DEF WarmInit, SlotInv, WarmTypeOK, SlotUse, ScopesLeft, Warm,
     SlotAssumption
<1>2. SlotInv /\ ScopesLeft => NothingLeftTaken
  BY DEF SlotInv, WarmTypeOK, SlotUse, ScopesLeft, Warm, NothingLeftTaken
<1> QED
  BY <1>1, <1>2, SlotStep, ScopesStep, PTL DEF WarmSpec
=============================================================================
