SPECIFICATION FairSpec
CONSTANTS
    Calls = {1, 2, 3}
    NReserves = 2
    ListedAt <- MCListedAt
    FirstHead = 2
    MaxHead = 3
    TagsAsked <- MCTags
INVARIANTS
    TypeOK
    QuietSnapshot
    PartialTakesOthers
    InstanceSnapshot
PROPERTIES
    CachesSettle
    Settles
\* every call is made once: when all have settled nothing is left to do
CHECK_DEADLOCK FALSE
