SPECIFICATION FairSpec
CONSTANTS
    Calls = {c1, c2}
    weth = weth
    wbtc = wbtc
    Markets <- MCMarkets
    ListedAt <- MCListedAt
    FirstHead = 2
    MaxHead = 3
    TagsAsked = {0, 1, 2, 3}
INVARIANTS
    TypeOK
PROPERTIES
    ReadsOneBlock
    Settles
\* every call is made once: when all have settled nothing is left to do
CHECK_DEADLOCK FALSE
