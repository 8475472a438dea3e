\* One request whose run goes away while its login is being started.
SPECIFICATION AuthSpec
CONSTANTS
    r1 = r1  r2 = r2  a1 = a1  a2 = a2  l1 = l1  l2 = l2  p1 = p1  p2 = p2
    NoLogin = NoLogin  NoTask = NoTask  NoOne = NoOne
    Runs = {r1}
    Asks = {a1}
    LarkLogins = {l1}
    KepLogins = {l2}
    Probers = {p1}
INVARIANT LoginsReleased
CHECK_DEADLOCK FALSE
