\* Two loops race for one durable identity.  No symmetry: some properties are temporal.
SPECIFICATION FairSpec
CONSTANTS
    l1 = l1  l2 = l2  i1 = i1
    c1 = c1  c2 = c2  e1 = e1  e2 = e2
    None = None
    Loops <- TwoLoops
    Ids <- OneId
    Durable <- OneId
    Callers <- TwoCallers
    Entries <- TwoEntries
INVARIANTS
    ExactlyOnce
PROPERTIES
    AbandonedNeverCommits
    ContractSpec
    EveryoneSettles
\* Callers are single calls: when all are answered the system is at rest.
CHECK_DEADLOCK FALSE
