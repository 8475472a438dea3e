\* The desktop part alone, without symmetry.
SPECIFICATION EndpointsSpec
CONSTANTS
    Parts = {"desk"}
    a1 = a1  a2 = a2  a3 = a3  b1 = b1  b2 = b2
    Nobody = Nobody
    Requests = {a1, a2, a3}
    Secrets = {b1, b2}
    c1 = c1  p1 = p1  p2 = p2  u1 = u1  u2 = u2  x = x
    yes = yes  no = no  cancelled = cancelled
    Nothing = Nothing  Plain = Plain
    Cards = {c1}
    Posts = {p1, p2}
    Patches = {u1, u2}
    Contents = {x}
    Actions = {yes, no}
    Reasons = {cancelled}
    e1 = e1  e2 = e2  k1 = k1  k2 = k2
    None = None
    Enrolls = {e1, e2}
    Callbacks = {k1, k2}
    d1 = d1  d2 = d2  t1 = t1
    Free = Free  Sweeper = Sweeper
    Profiles = {d1, d2}
    Ensures = {b1, b2}
    Takeovers = {t1}
    Quota = 1
    Agent = Agent
    Viewers = {a1, a2, a3}
    Sockets = {b1, b2}
    MaxViewers = 2
PROPERTY SweptIdle
CHECK_DEADLOCK FALSE
