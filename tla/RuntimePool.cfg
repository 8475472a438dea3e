\* Three dispatches or scopes on one loop, a pool of one.
SPECIFICATION FairSpec
CONSTANTS
    l1 = l1  l2 = l2  p1 = p1  p2 = p2  p3 = p3  t1 = t1  t2 = t2  t3 = t3
    None = None
    Base = Base
    Loops <- OneLoop
    Profiles <- ThreeProfiles
    Tasks <- ThreeTasks
    MaxLoaded = 1
    IdleEvict = 0
    MaxTime = 1
INVARIANTS
    DispatchesApart
PROPERTIES
    DispatchEnds
\* Tasks are single dispatches: when all are done the pool is at rest.
CHECK_DEADLOCK FALSE
