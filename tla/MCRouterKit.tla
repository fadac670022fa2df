---------------------------- MODULE MCRouterKit ----------------------------
(***************************************************************************)
(* RouterKit with two routers, of which one account has used the first.    *)
(***************************************************************************)
EXTENDS RouterKit, TLC

CONSTANTS k1, k2, c1, c2, r1, r2, alice, bob, usdc, dai

MCRouters == {r1, r2}
MCAccounts == {alice, bob}
MCTokens == {usdc, dai}
MCInputs == {{}, {usdc}, {usdc, dai}}
MCCalls == {c1, c2}
MCKits == {k1, k2}

\* Calls and kits are alike.
Alike == Permutations(MCCalls) \cup Permutations(MCKits)

Fresh == [amount |-> 0, expiration |-> 0, nonce |-> 0]

\* What alice has granted the agent of the first router before.
Grant(a, u, d) ==
    [b \in Accounts |-> [r \in Routers |-> [t \in Tokens |->
        IF b = a /\ r = r1 THEN IF t = usdc THEN u ELSE d ELSE Fresh]]]

\* Nothing; one unit for two days; everything for a day.
MCGranted ==
    {Grant(alice, u, Fresh) : u \in {Fresh, [amount |-> 1, expiration |-> 2, nonce |-> 0],
                                     [amount |-> MaxUint160, expiration |-> 1, nonce |-> 0]}}
=============================================================================
