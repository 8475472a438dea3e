\* Queue: two rows, one sender, a cap of one, two days, a lost answer per row, a restart.
\* Confirm loop: one row of each scene, two clicks, fair sweeps.
SPECIFICATION PushSpec
CONSTANTS
    q1 = q1  q2 = q2  t1 = t1
    NoRow = NoRow
    Queued = {q1, q2}
    Tasks = {t1}
    Cap = 1
    MaxRetries = 2
    MaxDay = 1
    MaxLosses = 1
    MaxRestarts = 1
    r1 = r1  c1 = c1  c2 = c2  v1 = v1  v2 = v2
    NoValue = NoValue
    Pushes = {r1}
    Clicks = {c1, c2}
    Values = {v1, v2}
    MaxSubmits = 2
INVARIANTS
    CardsExplained
    RowMatchesRecord
PROPERTIES
    LeavesSending
    RecordedSettles
CHECK_DEADLOCK FALSE
