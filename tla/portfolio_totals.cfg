SPECIFICATION Spec
CONSTANTS
    Tokens = {"ETH", "WETH", "USDC", "GOV"}
    Unwrapped <- MCUnwrapped
    SupplyTokens = {"ETH", "USDC", "GOV"}
    BorrowTokens = {"ETH", "USDC"}
    Price <- MCPrice
    SupplyAPY <- MCSupplyAPY
    BorrowAPY <- MCBorrowAPY
    Collateral = {"ETH", "USDC"}
    LTV <- MCLTV
    Threshold <- MCThreshold
    SupplyCap <- MCNone
    TotalSupply <- MCNone
    BorrowCap <- MCNone
    TotalBorrow <- MCNone
    BorrowMin <- MCNone
    Amounts = {0, 1, 3}
    MaxBalance = 4
INVARIANTS
    TypeOK
    TotalsMatchBalances
    CanBorrowIsHealthy
PROPERTIES
    HealthDropsOnlyByRisk
