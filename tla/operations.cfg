SPECIFICATION Spec
CONSTANTS
    Tokens = {"ETH", "WETH", "USDC", "DAI"}
    Unwrapped <- MCUnwrapped
    Wrapped <- MCWrapped
    ProtocolToken <- MCProtocolToken
    AssetTokenized <- MCAsset
    SupplyTokens = {"ETH", "USDC", "DAI"}
    BorrowTokens = {"ETH", "USDC", "DAI"}
    SupplyOrder <- MCOrder
    BorrowOrder <- MCOrder
    Collateral = {"ETH", "USDC", "DAI"}
    Price <- MCPrice
    SupplyAPY <- MCNone
    BorrowAPY <- MCNone
    LTV <- MCLTV
    Threshold <- MCThreshold
    SupplyCap <- MCCap
    TotalSupply <- MCTotal
    BorrowCap <- MCCap
    TotalBorrow <- MCTotal
    BorrowMin <- MCNone
    SwapFeeBps = 30
    FlashLoanFeeBps = 9
    ReverseQuotes = FALSE
    Positions <- MCAccounts
    Operations = {"collateralSwap", "debtSwap", "leverageByCollateral", "leverageByDebt", "deleverage", "zapSupply", "zapWithdraw", "zapBorrow", "zapRepay", "openByCollateral", "openByDebt", "close"}
    Pairs <- MCPairs
    Withdrawals = {"DAI", "WETH"}
    Amounts = {0, 10000, 20000, 50000}
    Zaps <- MCZaps
    Slippages = {50, 200}
    NoRoutes <- MCNoRoutes
    Interest = 1
    MaxShort = 2
CHECK_DEADLOCK FALSE
INVARIANTS
    TypeOK
    LoansPaired
    FundsAsTold
    RunsAsPlanned
    FailedTouchNothing
    SwapsAsAsked
    NothingMissing
PROPERTIES
    KeepsPromise
