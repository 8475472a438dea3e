\* Warm worker: three runs that queue for the slot, the third on a loop of its own; full
\* pipes, a dying worker.  Workflow: every flow, an idempotency key, five
\* requests of a gate, a pause.  Session: three runs, two threads, a command, a crash.
SPECIFICATION ExecutorsSpec
CONSTANTS
    r1 = r1  r2 = r2  r3 = r3  l1 = l1  l2 = l2  k1 = k1  t1 = t1  t2 = t2  o1 = o1
    NoRun = NoRun  NoThread = NoThread  Placeholder = Placeholder
    Runs = {r1, r2, r3}
    RunLoops = {l1, l2}
    LoopOf <- ThirdApart
    MaxDeaths = 1
    Flows = {"dev", "light", "bugfix"}
    OpKeys = {k1}
    MaxAsks = 5
    MaxPauses = 1
    Works = {r1, r2, r3}
    Threads = {t1, t2}
    Orders = {o1}
    MaxFalls = 1
INVARIANTS
    RunsIsolated
    OperationsGated
    SessionKept
PROPERTIES
    NeverWedged
\* Runs and requests are finitely many: when all have ended nothing is left to do.
CHECK_DEADLOCK FALSE
