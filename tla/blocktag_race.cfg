SPECIFICATION Spec
CONSTANTS
    Calls = {1, 2}
    NReserves = 2
    ListedAt <- MCListedAt
    FirstHead = 3
    MaxHead = 3
    TagsAsked <- RaceTags
INVARIANTS
    PricesAtBlockTag
\* every call is made once: when all have settled nothing is left to do
CHECK_DEADLOCK FALSE
