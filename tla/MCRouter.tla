------------------------------ MODULE MCRouter ------------------------------
(***************************************************************************)
(* A market that lists ether in its native form and two stablecoins, with  *)
(* amounts large enough for basis points and a few wei to differ.          *)
(***************************************************************************)
EXTENDS Router

MCUnwrapped == [t \in Tokens |-> IF t = "WETH" THEN "ETH" ELSE t]
MCWrapped == [t \in Tokens |-> IF t = "ETH" THEN "WETH" ELSE t]
MCProtocolToken == [t \in Tokens |-> CASE t \in {"ETH", "WETH"} -> "aWETH"
                                       [] t = "USDC" -> "aUSDC" [] t = "DAI" -> "aDAI"]
MCOrder == <<"ETH", "USDC", "DAI">>
MCPrice == [t \in Tokens |-> IF t \in {"ETH", "WETH"} THEN 2 ELSE 1]
MCNone == [t \in Tokens |-> 0]
MCLTV == [t \in Tokens |-> IF t = "USDC" THEN 7700 ELSE 8000]
MCThreshold == [t \in Tokens |-> IF t = "USDC" THEN 8000 ELSE 8250]

\* The market has room for 45000 wei more of each token.
MCCap == [t \in Tokens |-> 100000]
MCTotal == [t \in Tokens |-> 55000]

Holding(eth, usdc, ethDebt, usdcDebt) ==
    NewPortfolio([s \in SupplyTokens |-> CASE s = "ETH" -> eth [] s = "USDC" -> usdc [] OTHER -> 0],
                 [b \in BorrowTokens |-> CASE b = "ETH" -> ethDebt [] b = "USDC" -> usdcDebt [] OTHER -> 0])

\* An account in debt for a stablecoin, and one in debt for ether as well.
MCPositions == {Holding(40000, 20000, 0, 20000), Holding(30000, 40000, 10000, 20000)}
MCIndebted == {Holding(40000, 20000, 0, 20000)}
MCCloseable == {Holding(40000, 20000, 0, 20000), Holding(0, 40000, 0, 20000), Holding(30000, 0, 0, 0)}

MCAccounts == MCPositions \cup MCCloseable

MCPairs == {<<"ETH", "USDC">>, <<"USDC", "ETH">>, <<"USDC", "USDC">>, <<"ETH", "WETH">>,
            <<"WETH", "DAI">>, <<"DAI", "USDC">>}
MCZaps == {<<"DAI", 10000>>, <<"WETH", 5000>>, <<"ETH", 5000>>}
MCNoZaps == {<<"DAI", 10000>>}
MCNoRoutes == {{}, {"WETH", "USDC", "DAI"} \X {"WETH", "USDC", "DAI"}}
MCCollaterals == <<"ETH", "DAI">>
MCBase == <<"USDC">>
MCAsset == {"ETH", "WETH", "USDC", "DAI"}
=============================================================================
