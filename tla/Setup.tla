-------------------------------- MODULE Setup --------------------------------
(***************************************************************************)
(* What a program builds before it reads a portfolio: Adapters and lists   *)
(* of tokens, created and fetched at the same time.                        *)
(***************************************************************************)
EXTENDS AdapterConfig, Tokens

vars == <<configVars, tokensVars>>

Init == ConfigInit /\ TokensInit

Next ==
    \/ ConfigNext /\ UNCHANGED tokensVars
    \/ TokensNext /\ UNCHANGED configVars

FairSpec == Init /\ [][Next]_vars /\ ConfigFairness

TypeOK ==
    /\ Range(Protocols) \subseteq ProtocolIds /\ Len(Protocols) <= Cardinality(ProtocolIds)
    /\ \A a \in Adapters :
         /\ adapters[a].pc \in {"idle", "created", "cdn", "chain", "ready", "rejected"}
         /\ adapters[a].creating \in 0..Len(Protocols)
         /\ DOMAIN adapters[a].protocolMap \subseteq Supported
    /\ DOMAIN unifiedTokenMapCache \subseteq Addresses
    /\ Range(unifiedTokenMapCache) \subseteq {"custom", "external"}
    /\ \A c \in TokenCalls :
         tokenCalls[c].pc \in {"idle", "fetch", "unified", "read", "threw", "reverted"}
=============================================================================
