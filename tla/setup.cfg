SPECIFICATION FairSpec
CONSTANTS
    Adapters = {a1}
    ProtocolIds = {"aavev3", "compoundv3", "aavev2", "spark"}
    Registered <- MCRegistered
    Supported = {"aavev3", "compoundv3", "spark"}
    Forks = {"aavev3", "aavev2", "spark"}
    Assets = {"ETH", "WETH", "USDC", "DAI"}
    ReceiptTokens = {"aWETH", "aUSDC", "aDAI"}
    Unwrapped <- MCUnwrapped
    CdnReserves <- MCCdn
    ChainReserves <- MCChain
    TokenLists <- MCLists
    TokenCalls = {c1, c2, c3}
    Addresses <- MCAddresses
    Custom = {"ETH", "sss"}
    Fetched <- MCFetched
    Shapes <- MCShapes
    Natives <- MCNatives
    MetadataOf <- MCMetadata
    Wanted <- MCWanted
SYMMETRY Alike
INVARIANTS
    TypeOK
    WholeAdapter
    TranslatesBack
    CountedOnce
    CustomPrevails
    AnswersAgree
    AsOneByOne
PROPERTIES
    CreationSettles
\* every call is made once: when all have settled nothing is left to do
CHECK_DEADLOCK FALSE
