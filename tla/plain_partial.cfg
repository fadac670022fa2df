SPECIFICATION Spec
CONSTANTS
    Calls = {1, 2}
    NReserves = 2
    ListedAt <- MCListedAt
    FirstHead = 2
    MaxHead = 2
    TagsAsked <- PartialTags
INVARIANTS
    CompletePortfolio
\* every call is made once: when all have settled nothing is left to do
CHECK_DEADLOCK FALSE
