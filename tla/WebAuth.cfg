\* Two runs of one user, two requests, a login of each service, two probes at a time.
SPECIFICATION AuthSpec
CONSTANTS
    r1 = r1  r2 = r2  a1 = a1  a2 = a2  l1 = l1  l2 = l2  p1 = p1  p2 = p2
    NoLogin = NoLogin  NoTask = NoTask  NoOne = NoOne
    Runs = {r1, r2}
    Asks = {a1, a2}
    LarkLogins = {l1}
    KepLogins = {l2}
    Probers = {p1, p2}
SYMMETRY Symm
PROPERTIES
    AnswersSound
    LoginsShared
\* Runs and requests are single: when all are over the server is at rest.
CHECK_DEADLOCK FALSE
