\* Card: three concurrent calls, two contents, two refused or cancelled calls.  Cron: two gateways,
\* one of them fixed to its expert, two jobs of a profile, one a one-shot made by another
\* gateway, two auth markers, a repeat after a day, a pool of one, a crash.
SPECIFICATION DeliverySpec
CONSTANTS
    t1 = t1  t2 = t2  t3 = t3
    Tasks = {t1, t2, t3}
    Nobody = Nobody
    MaxVersion = 2
    MaxSide = 1
    MaxFaults = 2
    MaxCancels = 2
    MaxTrouble = 2
    g1 = g1  g2 = g2  p1 = p1  p2 = p2  j1 = j1  j2 = j2
    Gateways = {g1, g2}
    Profiles = {p1, p2}
    Jobs = {j1, j2}
    ProfileOf <- BothOne
    OneShots = {j2}
    Tagged = {j2}
    m1 = m1  m2 = m2
    Markers = {m1, m2}
    Interval = 1
    MaxTime = 1
    NoOne = NoOne
    MaxWorkers = 1
    MaxDue = 1
    MaxCrashes = 1

    
PROPERTIES
    CardInOrder
    
    TickReleased
CHECK_DEADLOCK FALSE
