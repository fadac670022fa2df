---------------------------- MODULE MCMorphoBlue ----------------------------
(***************************************************************************)
(* MorphoBlue with two markets, the second of which was created in block 2.*)
(***************************************************************************)
EXTENDS MorphoBlue

CONSTANTS weth, wbtc

MCMarkets == {weth, wbtc}
MCListedAt == [m \in MCMarkets |-> IF m = weth THEN 1 ELSE 2]
=============================================================================
