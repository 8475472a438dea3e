\* The gateway's loop and the run broker's own loop in one process.
SPECIFICATION Spec
CONSTANTS
    l1 = l1  l2 = l2  p1 = p1  p2 = p2  p3 = p3  t1 = t1  t2 = t2  t3 = t3
    None = None
    Base = Base
    Loops <- TwoLoops
    Profiles <- TwoProfiles
    Tasks <- TwoTasks
    MaxLoaded = 2
    IdleEvict = 0
    MaxTime = 0
INVARIANT HomeRestored
CHECK_DEADLOCK FALSE
