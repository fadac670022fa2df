---------------------------- MODULE AdapterConfig ----------------------------
(***************************************************************************)
(* How an Adapter comes to be: createAdapter walks the registered          *)
(* protocols, which may be joined by others meanwhile, and awaits each     *)
(* supported one.  Aave V3 and its forks ask a CDN for their reserves, for *)
(* five seconds at most, and the chain when the CDN has no good answer.    *)
(* From the reserves each builds the maps that translate tokens and the    *)
(* flag that keeps ether from being counted a second time in its wrapped   *)
(* form.                                                                   *)
(***************************************************************************)
EXTENDS Integers, Sequences, FiniteSets, SequencesExt

CONSTANTS
    Adapters,      \* the calls of createAdapter
    ProtocolIds,   \* the protocol classes there are
    Registered,    \* those registered when the program starts, in order
    Supported,     \* those with a market on the chain
    Forks,         \* those that read a reserves configuration
    Assets,        \* the tokens that may be supplied or borrowed
    ReceiptTokens, \* those a protocol hands out for a supply
    Unwrapped,     \* Unwrapped[t]: the native form of t, for wrapped tokens
    CdnReserves,   \* the reserves the CDN has, in order: [asset, aToken]
    ChainReserves, \* those of the chain
    TokenLists     \* the lists of supply and borrow tokens the API may have

\* No protocol class is registered twice.
ASSUME RegisteredAssumption ==
    /\ IsFiniteSet(ProtocolIds)
    /\ Registered \in Seq(ProtocolIds) /\ IsInjective(Registered)

\* A receipt token is nothing one supplies; a native token is not wrapped itself.
ASSUME TokensAssumption ==
    /\ Assets \cap ReceiptTokens = {}
    /\ DOMAIN Unwrapped \subseteq Assets
    /\ Unwrapped \in [DOMAIN Unwrapped -> Assets \ DOMAIN Unwrapped]

\* Every reserve has a receipt token of its own.
ASSUME ReservesAssumption ==
    \A reserves \in {CdnReserves, ChainReserves} :
        /\ reserves \in Seq([asset : Assets, aToken : ReceiptTokens])
        /\ \A i, j \in DOMAIN reserves : reserves[i].aToken = reserves[j].aToken => i = j

\* No list names a token twice.
ASSUME ListsAssumption == \A list \in TokenLists : list \in Seq(Assets) /\ IsInjective(list)

VARIABLES
    Protocols,     \* Adapter.Protocols
    adapters       \* the state of each adapter

configVars == <<Protocols, adapters>>

Wrapped == DOMAIN Unwrapped
IsNative(t) == \E w \in Wrapped : Unwrapped[w] = t
NativeForm(t) == IF t \in Wrapped THEN Unwrapped[t] ELSE t

\* creating: the position in Protocols of the one awaited; known (history): the
\* protocols registered when createAdapter was called.
NewAdapter == [pc |-> "idle", creating |-> 0, protocolMap |-> <<>>, known |-> {}]

ConfigInit ==
    /\ Protocols = Registered
    /\ adapters = [a \in Adapters |-> NewAdapter]

-----------------------------------------------------------------------------
(* initializeReservesConfig.                                                *)

\* The entries the loop pushes: every wrapped token again, in its native form.
Pushed(reserves) ==
    FoldLeft(LAMBDA pushed, r : IF r.asset \in Wrapped
                                THEN Append(pushed, [r EXCEPT !.asset = Unwrapped[@]]) ELSE pushed,
             <<>>, reserves)

\* Mutant: the loop runs over a copy, which does not grow.
Visited_Copy(reserves) == reserves

\* The loop visits what it pushes.
Visited(reserves) == reserves \o Pushed(reserves)

\* Mutant: the receipt token is no key.
Entries_AssetOnly(r) == {r.asset}

\* The keys under which the loop stores entry r.
Entries(r) == {r.asset, r.aToken} \cup (IF r.asset \in Wrapped THEN {Unwrapped[r.asset]} ELSE {})

\* A later entry replaces an earlier one under the same key.
ReserveMap(visited) ==
    [k \in UNION {Entries(visited[i]) : i \in DOMAIN visited} |->
        visited[CHOOSE i \in DOMAIN visited :
                  /\ k \in Entries(visited[i])
                  /\ \A j \in DOMAIN visited : k \in Entries(visited[j]) => j <= i]]

InitializeReservesConfig(reserves) ==
    LET visited == Visited(reserves)
    IN  [reserveTokens |-> reserves \o Pushed(reserves),
         reserveMap |-> ReserveMap(visited),
         hasNativeToken |-> \E i \in DOMAIN visited : IsNative(visited[i].asset)]

\* What the two answers come to.
CdnConfig == InitializeReservesConfig(CdnReserves)
ChainConfig == InitializeReservesConfig(ChainReserves)

\* A protocol that needs no configuration.
NoConfig == [reserveTokens |-> <<>>, reserveMap |-> <<>>, hasNativeToken |-> FALSE]

ToUnderlyingToken(config, aToken) == config.reserveMap[aToken].asset
ToProtocolToken(config, token) == config.reserveMap[token].aToken

\* Whether getPortfolios has a row for token t.  (Aave V2 and Radiant skip every wrapped
\* token: the flag is set whenever one is configured.)
HasRow(config, t) ==
    /\ ~(config.hasNativeToken /\ t \in Wrapped)
    /\ \E i \in DOMAIN config.reserveTokens : config.reserveTokens[i].asset = t

\* The rows of a list, in its order.
Rows(config, list) ==
    FoldLeft(LAMBDA rows, t : IF HasRow(config, t) THEN Append(rows, t) ELSE rows, <<>>, list)

-----------------------------------------------------------------------------
\* Mutant: a protocol registered meanwhile is not seen, the last one neither.
Upcoming_OffByOne(i) == {j \in i + 1..Len(Protocols) - 1 : Protocols[j] \in Supported}

\* Mutant: protocols without a market on the chain are created as well.
Upcoming_All(i) == i + 1..Len(Protocols)

\* The positions of the loop after i that it does not skip.
Upcoming(i) == {j \in i + 1..Len(Protocols) : Protocols[j] \in Supported}

\* The loop of initializeConfig goes on after position i up to its next await, or ends.
Proceed(a, adapter, i) ==
    adapters' = [adapters EXCEPT ![a] =
        IF Upcoming(i) = {} THEN [adapter EXCEPT !.pc = "ready", !.creating = 0]
        ELSE LET j == CHOOSE j \in Upcoming(i) : \A k \in Upcoming(i) : j <= k
             IN  [adapter EXCEPT !.pc = IF Protocols[j] \in Forks THEN "cdn" ELSE "created",
                                 !.creating = j]]

\* The awaited protocol is there, configured as config.
Create(a, config) ==
    LET adapter == adapters[a]
        id == Protocols[adapter.creating]
        map == [p \in DOMAIN adapter.protocolMap \cup {id} |->
                   IF p = id THEN config ELSE adapter.protocolMap[p]]
    IN  Proceed(a, [adapter EXCEPT !.protocolMap = map], adapter.creating)

RegisterProtocol(p) ==
    /\ p \notin Range(Protocols)
    /\ Protocols' = Append(Protocols, p)
    /\ UNCHANGED adapters

CreateAdapter(a) ==
    /\ adapters[a].pc = "idle"
    /\ Proceed(a, [NewAdapter EXCEPT !.known = Range(Protocols)], 0)
    /\ UNCHANGED Protocols

\* A createProtocol that only constructs.
Created(a) ==
    /\ adapters[a].pc = "created"
    /\ Create(a, NoConfig)
    /\ UNCHANGED Protocols

\* The CDN answers with a list.
ReceiveCdn(a) ==
    /\ adapters[a].pc = "cdn"
    /\ Create(a, CdnConfig)
    /\ UNCHANGED Protocols

\* Mutant: only an answer makes the code give the CDN up.
CdnFails_NoTimeout(a) == FALSE /\ UNCHANGED configVars

\* The CDN fails, has no list or an empty one, or five seconds are over: the chain is
\* asked.  An answer that comes later goes nowhere.
CdnFails(a) ==
    /\ adapters[a].pc = "cdn"
    /\ adapters' = [adapters EXCEPT ![a].pc = "chain"]
    /\ UNCHANGED Protocols

ReceiveChain(a) ==
    /\ adapters[a].pc = "chain"
    /\ Create(a, ChainConfig)
    /\ UNCHANGED Protocols

\* The chain cannot be read either: createAdapter rejects.
ChainFails(a) ==
    /\ adapters[a].pc = "chain"
    /\ adapters' = [adapters EXCEPT ![a].pc = "rejected"]
    /\ UNCHANGED Protocols

ConfigNext ==
    \/ \E p \in ProtocolIds : RegisterProtocol(p)
    \/ \E a \in Adapters :
         \/ CreateAdapter(a)
         \/ Created(a)
         \/ ReceiveCdn(a)
         \/ CdnFails(a)
         \/ ReceiveChain(a)
         \/ ChainFails(a)

\* The CDN may stay silent, but the timer of the request does not; the node answers or
\* fails.
ConfigFairness ==
    \A a \in Adapters : /\ WF_configVars(Created(a))
                        /\ WF_configVars(CdnFails(a))
                        /\ WF_configVars(ReceiveChain(a) \/ ChainFails(a))

-----------------------------------------------------------------------------
(* Properties.                                                              *)

Ready(a) == adapters[a].pc = "ready"
Configs(a) == {adapters[a].protocolMap[p] : p \in DOMAIN adapters[a].protocolMap \cap Forks}

\* An adapter that is handed out has every supported protocol that was registered when
\* it was asked for, also when others are registered during its awaits, and every
\* configured one has the reserves of the CDN or of the chain, whole.
WholeAdapter ==
    \A a \in Adapters : Ready(a) =>
        /\ adapters[a].known \cap Supported \subseteq DOMAIN adapters[a].protocolMap
        /\ \A config \in Configs(a) :
             \E reserves \in {CdnReserves, ChainReserves} :
               \A i \in DOMAIN reserves : reserves[i].asset \in DOMAIN config.reserveMap

\* Underlying and receipt tokens translate to each other and back, up to the native form.
TranslatesBack ==
    \A a \in Adapters : Ready(a) =>
        \A config \in Configs(a) : \A i \in DOMAIN config.reserveTokens :
            LET asset == config.reserveTokens[i].asset
            IN  /\ asset \in DOMAIN config.reserveMap
                /\ ToProtocolToken(config, asset) \in DOMAIN config.reserveMap
                /\ NativeForm(ToUnderlyingToken(config, ToProtocolToken(config, asset))) = NativeForm(asset)

\* Whatever forms of ether the API lists, no balance is in a portfolio twice, and
\* every listed reserve that is configured is in it if its native form is listed.
CountedOnce ==
    \A a \in Adapters : Ready(a) =>
        \A config \in Configs(a), list \in TokenLists :
            LET rows == Rows(config, list)
            IN  /\ \A i, j \in DOMAIN rows :
                     ToProtocolToken(config, rows[i]) = ToProtocolToken(config, rows[j]) => i = j
                /\ \A t \in Range(list) \cap DOMAIN config.reserveMap :
                     NativeForm(t) \in Range(list) => NativeForm(t) \in Range(rows)

\* createAdapter settles, also when the CDN never answers.
CreationSettles ==
    \A a \in Adapters : adapters[a].pc # "idle" ~> adapters[a].pc \in {"ready", "rejected"}
=============================================================================
