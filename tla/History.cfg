\* Turn: two messages in two chats, a reset, a cron mirror and a restart, with every
\* setting of the switches.  Events: default TTLs.
\* Messages: four stamps of threads that append, a restart of the host.
\* Carryover: two keys in a store for one, resets, replayed attempts, keys that expire.
\* Budget: the limits of the source, and turns of up to MAX_ENTRIES_PER_TURN = 64 entries,
\* with names of up to the 64 characters that model APIs allow for a function.
\* Skills: two profiles, one of them pinned, two events (with the names of the prompts), a
\* failure or an end of the process at any step.
SPECIFICATION HistorySpec
CONSTANTS
    Parts = {"turn", "events", "messages", "carry", "budget", "skills"}
    c1 = c1  c2 = c2  h1 = h1  h2 = h2  h3 = h3  h4 = h4
    NoTurn = NoTurn
    Chats = {c1, c2}
    Turns = {r1, r2}
    Hists = {h1, h2, h3, h4}
    Shared = h1
    Own <- OwnHist
    Web = h3
    Cron = h4
    MaxHist = 3
    MaxNews = 1
    MaxMirrors = 1
    MaxCrashes = 1
    msg = msg  content = content
    Never = Never
    Keys = {msg, content}
    TtlOf <- DefaultTtl
    Floor = 4
    MaxTime = 10
    MaxStamps = 4
    MaxReboots = 1
    Limit = 2
    k1 = k1  k2 = k2  r1 = r1  r2 = r2  p1 = p1  p2 = p2  a = a  b = b
    None = None
    CarryKeys = {k1, k2}
    Runs = {r1, r2}
    Prompts = {p1, p2}
    Calls = {a, b}
    MaxKeys = 1
    MaxTurns = 2
    MaxEntries = 1
    IdleTtl = 0
    MaxAttempts = 2
    MaxResets = 1
    MaxAge = 1
    Counts = {3, 60, 64}
    Names = {8, 64}
    Outs = {1100, 24000}
    Shapes <- AlikeShapes
    Budget = 60000
    TierATurns = 3
    TierBTurns = 5
    TierBChars = 4000
    TierCChars = 500
    TierCArgs = 200
    MaxOutput = 24000
    MaxTurnBytes = 163840
    MaxKeyBytes = 524288
    MaxLoad = 10
    SafeEntries = 60
    MaxName = 64
    q1 = q1  q2 = q2
    Homes = {q1, q2}
    Always = {}
    Sticky = {q1}
    Hooks = {p1, p2}
    Payloads <- Bodies
    MaxStops = 1
    MaxRefusals = 1
SYMMETRY Symm
INVARIANTS
    HistoryKept
    RecentIsLatest
    SessionsApart
    CarriedFaithfully
    SkillsKept
PROPERTIES
    FreshAfterReset
    AcceptedOncePerTtl
CHECK_DEADLOCK FALSE
