---------------------------- MODULE MCCompoundV3 ----------------------------
(***************************************************************************)
(* Two Compound V3 markets on a chain of three blocks, one of which gets a *)
(* collateral asset at block 3.                                            *)
(***************************************************************************)
EXTENDS CompoundV3, TLC

CONSTANTS usdc, weth

MCMarkets == {usdc, weth}
MCAssetsAt == [m \in MCMarkets |-> IF m = usdc THEN [b \in Blocks |-> IF b < 3 THEN 1 ELSE 2]
                                   ELSE [b \in Blocks |-> 3]]
CallSymmetry == Permutations(Calls)
=============================================================================
