--------------------------- MODULE MCPortfolioOps ---------------------------
(***************************************************************************)
(* A market of ether (listed in its native form), a stablecoin and a       *)
(* governance token that is supplied but is no collateral.  Ether staked   *)
(* elsewhere earns more than its borrow costs.  The stablecoin has one     *)
(* figure for ltv and threshold, as Morpho Blue does; with 2 owed against  *)
(* 3 supplied it gives a health rate between 1 and 1.0001.                 *)
(***************************************************************************)
EXTENDS PortfolioOps

MCUnwrapped == [t \in Tokens |-> IF t = "WETH" THEN "ETH" ELSE t]
MCPrice == [t \in Tokens |-> IF t \in {"ETH", "WETH"} THEN 2 ELSE 1]
MCSupplyAPY == [t \in Tokens |-> 1]
MCBorrowAPY == [t \in Tokens |-> IF t = "USDC" THEN 3 ELSE -1]
MCLTV == [t \in Tokens |-> IF t = "USDC" THEN 6667 ELSE 8000]
MCThreshold == [t \in Tokens |-> IF t = "USDC" THEN 6667 ELSE 8250]
MCNone == [t \in Tokens |-> 0]
=============================================================================
