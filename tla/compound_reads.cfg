SPECIFICATION Spec
CONSTANTS
    Calls = {c1, c2}
    usdc = usdc
    weth = weth
    Markets <- MCMarkets
    AssetsAt <- MCAssetsAt
    FirstHead = 2
    MaxHead = 3
    TagsAsked = {0, 1, 2, 3}
SYMMETRY CallSymmetry
INVARIANTS
    TypeOK
    QuietSnapshot
    EveryAssetPriced
PROPERTIES
    MarketsSettle
\* every call is made once: when all have settled nothing is left to do
CHECK_DEADLOCK FALSE
