SPECIFICATION Spec
CONSTANTS
    Tokens = {"ETH", "WETH", "USDC", "DAI"}
    Unwrapped <- MCUnwrapped
    Wrapped <- MCWrapped
    ProtocolToken <- MCProtocolToken
    AssetTokenized = {}
    SupplyTokens = {"ETH", "DAI"}
    BorrowTokens = {"USDC"}
    SupplyOrder <- MCCollaterals
    BorrowOrder <- MCBase
    Collateral = {"ETH", "DAI"}
    Price <- MCPrice
    SupplyAPY <- MCNone
    BorrowAPY <- MCNone
    LTV <- MCLTV
    Threshold <- MCThreshold
    SupplyCap <- MCCap
    TotalSupply <- MCTotal
    BorrowCap <- MCCap
    TotalBorrow <- MCTotal
    BorrowMin <- MCNone
    SwapFeeBps = 30
    FlashLoanFeeBps = 9
    ReverseQuotes = TRUE
    Positions <- MCPositions
    Operations = {"collateralSwap", "leverageByCollateral", "deleverage", "zapSupply", "zapWithdraw", "zapBorrow", "zapRepay"}
    Pairs <- MCPairs
    Withdrawals = {}
    Amounts = {0, 10000, 20000, 50000}
    Zaps <- MCNoZaps
    Slippages = {100, 200}
    NoRoutes <- MCNoRoutes
    Interest = 1
    MaxShort = 2
CHECK_DEADLOCK FALSE
INVARIANTS
    RunsAsPlanned
PROPERTIES
    KeepsPromise
