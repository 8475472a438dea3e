\* Leases: three runs and two clicks on a request between two people.  Tokens: two
\* refreshes, a device login, a revocation and a route writer over two profiles.  Writes:
\* three attempts and two resumed turns at two calls.
SPECIFICATION TenancySpec
CONSTANTS
    Parts = {"lease", "token", "write"}
    a1 = a1  a2 = a2  a3 = a3  b1 = b1  b2 = b2  d1 = d1  d2 = d2
    u1 = u1  u2 = u2  h1 = h1  h2 = h2  q1 = q1
    People = {u1, u2}
    Members = {u1}
    Homes = {h1, h2}
    BorrowRuns = {a1, a2, a3}
    Requests = {q1}
    Clicks = {b1, b2}
    Nil = Nil
    HomeOf <- HomeOfEach
    p1 = p1  p2 = p2  i1 = i1  s1 = s1
    Vaults = {p1, p2}
    Rows = {i1}
    Refreshes = {b1, b2}
    Devices = {s1}
    Writer = Writer
    Unset = Unset
    MaxTokens = 3
    Blank = Blank
    Attempts = {a1, a2, a3}
    Calls = {d1, d2}
    Resumes = {b1, b2}
SYMMETRY Symm
INVARIANTS
    BorrowsOwn
    WrittenOnce
    RefreshHonest
PROPERTIES
    LeasesHonoured
    TokenRouted
CHECK_DEADLOCK FALSE
