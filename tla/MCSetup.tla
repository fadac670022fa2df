------------------------------ MODULE MCSetup ------------------------------
(***************************************************************************)
(* One adapter and three calls for tokens.  The CDN does not know the      *)
(* newest reserve yet.                                                     *)
(***************************************************************************)
EXTENDS Setup, TLC

Alike == Permutations(TokenCalls)

MCRegistered == <<"aavev3", "compoundv3", "aavev2">>
MCUnwrapped == [t \in {"WETH"} |-> "ETH"]
MCCdn == <<[asset |-> "WETH", aToken |-> "aWETH"], [asset |-> "USDC", aToken |-> "aUSDC"]>>
MCChain == Append(MCCdn, [asset |-> "DAI", aToken |-> "aDAI"])
MCLists == {<<"ETH", "USDC">>, <<"ETH", "WETH", "USDC", "DAI">>, <<"USDC", "WETH">>}

\* One contract for each way its metadata may be encoded.
MCMetadata ==
    [sss |-> [decimals |-> "word", symbol |-> "string", name |-> "string"],
     zbb |-> [decimals |-> "zero", symbol |-> "bytes32", name |-> "bytes32"],
     wsb |-> [decimals |-> "word", symbol |-> "string", name |-> "bytes32"],
     wzb |-> [decimals |-> "word", symbol |-> "zero", name |-> "bytes32"],
     zzz |-> [decimals |-> "zero", symbol |-> "zero", name |-> "zero"]]
MCContracts == DOMAIN MCMetadata
MCNatives == {"ETH"}
MCAddresses == MCContracts \cup MCNatives

\* Any two contracts, in either order, with the native token between them.
MCWanted == {<<"ETH">>} \cup {<<w[1], "ETH", w[2]>> : w \in {v \in MCContracts \X MCContracts : v[1] # v[2]}}
MCShapes == {<<<<"sss", "zbb">>, <<"ETH", "wsb">>>>, <<<<>>, <<"sss", "zbb">>>>}
MCFetched == {{"sss", "zbb"}, {"wsb"}}
=============================================================================
