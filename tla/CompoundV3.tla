----------------------------- MODULE CompoundV3 -----------------------------
(***************************************************************************)
(* One instance of the LendingProtocol class for Compound V3, read by      *)
(* getPortfolio calls that interleave at every await.  Its shape differs   *)
(* from the Aave classes (module LendingProtocol): getPortfolios runs one  *)
(* getPortfolio per market at the same time; a market is put together from *)
(* three reads before it is cached, and a call consults the cache three    *)
(* times, so that another call may replace it in between.                  *)
(*                                                                         *)
(* The instance shares the field blockTag and the map _marketMap.  A value *)
(* read from the chain is modelled by the block it was read at.            *)
(***************************************************************************)
EXTENDS Integers, FiniteSets

CONSTANTS
    Calls,      \* the getPortfolio calls made, each at most once
    Markets,    \* the markets of the chain
    AssetsAt,   \* AssetsAt[m][b]: the collateral assets m has at block b
    FirstHead,  \* the newest block when the program starts
    MaxHead,    \* bound on the chain
    TagsAsked   \* the block tags the callers use

Latest == 0     \* an undefined blockTag: the node answers at its newest block

Blocks == 1..MaxHead
Tags == Blocks \cup {Latest}

ASSUME ChainAssumption ==
    /\ FirstHead \in Nat \ {0}
    /\ MaxHead \in Nat
    /\ FirstHead <= MaxHead
ASSUME MarketAssumption ==
    /\ Markets # {}
    /\ AssetsAt \in [Markets -> [Blocks -> Nat]]
ASSUME TagAssumption == TagsAsked \subseteq Tags

VARIABLES
    head,       \* the newest block of the chain
    blockTag,   \* Protocol.blockTag
    marketMap,  \* _marketMap
    calls       \* the local state of each call

vars == <<head, blockTag, marketMap, calls>>

\* A MarketInfo: the blocks its three reads were answered at and its assets.
MarketInfos == [basics : 0..MaxHead, infos : 0..MaxHead, totals : 0..MaxHead, assets : Nat]
NoMarket == [basics |-> 0, infos |-> 0, totals |-> 0, assets |-> 0]

Pcs == {"idle", "basics", "infos", "tokens", "totals", "market", "utilization", "rates", "apys",
        "priceMarket", "prices", "pricesRead", "balanceMarket", "balances", "lst",
        "done", "rejected"}

\* id: the market.  tag: the blockTag the caller asked for.  req, since: the blockTag
\* of the outstanding contract read and the newest block when it was sent.  market:
\* the MarketInfo under construction and then the one getMarket returned; priced and
\* balanced: the ones getPriceMap and getUserBalances got.  utilization, rate, price,
\* balance: the blocks of those answers.  fetched (history): this call read the market
\* itself.  quiet (history): since the instance was last without a call in flight, all
\* calls asked for the same block.
CallStates == [pc : Pcs, id : Markets, tag : Tags, req : Tags, since : 0..MaxHead,
               market : MarketInfos, priced : MarketInfos, balanced : MarketInfos,
               utilization : 0..MaxHead, rate : 0..MaxHead,
               price : 0..MaxHead, balance : 0..MaxHead, fetched : BOOLEAN, quiet : BOOLEAN]

AnyMarket == CHOOSE m \in Markets : TRUE
NewCall == [pc |-> "idle", id |-> AnyMarket, tag |-> Latest, req |-> Latest, since |-> 0,
            market |-> NoMarket, priced |-> NoMarket, balanced |-> NoMarket,
            utilization |-> 0, rate |-> 0, price |-> 0, balance |-> 0,
            fetched |-> FALSE, quiet |-> TRUE]

Settled == {"done", "rejected"}
Filling == {"basics", "infos", "tokens", "totals"}
InFlight(c) == calls[c].pc \notin Settled \cup {"idle"}

Init ==
    /\ head = FirstHead
    /\ blockTag = Latest
    /\ marketMap = [m \in Markets |-> NoMarket]
    /\ calls = [c \in Calls |-> NewCall]

-----------------------------------------------------------------------------
(* Building blocks.                                                          *)

\* Mutant: the read is sent without the blockTag.
Sent_NoBlockTag(call, p) == [call EXCEPT !.pc = p, !.req = Latest, !.since = head]

\* Mutant: only a block after the one of the sending counts.
Sent_AfterNext(call, p) == [call EXCEPT !.pc = p, !.req = blockTag, !.since = head + 1]

\* A call that has sent a contract read: its blockTag is the field's value now.
Sent(call, p) == [call EXCEPT !.pc = p, !.req = blockTag, !.since = head]

\* The blocks the node may answer the outstanding read of call c from.
AnswerBlocks(c) ==
    IF calls[c].req = Latest THEN calls[c].since..head ELSE {calls[c].req} \cap 1..head

\* Call c goes on with this record.
Become(c, call) == calls' = [calls EXCEPT ![c] = call]

Awaiting == {"basics", "infos", "tokens", "totals", "utilization", "rates", "prices", "balances"}

\* The node answers with an error, or never heard of the block.
Reject(c) ==
    /\ calls[c].pc \in Awaiting
    /\ Become(c, [calls[c] EXCEPT !.pc = "rejected"])
    /\ UNCHANGED <<head, blockTag, marketMap>>

NewBlock ==
    /\ head < MaxHead
    /\ head' = head + 1
    /\ UNCHANGED <<blockTag, marketMap, calls>>

-----------------------------------------------------------------------------
(* The calls, one action per stretch of code between two awaits.             *)

\* All calls in flight asked for this block (for the history variable quiet).
SameTag(tag) == \A k \in Calls : InFlight(k) => calls[k].tag = tag /\ calls[k].quiet

\* The record of a call that has just run up to its first await: a market in the map
\* is handed out, otherwise its first read is sent.
Entered(m, tag, quiet) ==
    LET call == [NewCall EXCEPT !.id = m, !.tag = tag, !.quiet = quiet] IN
    IF marketMap[m] # NoMarket
    THEN [call EXCEPT !.pc = "market", !.market = marketMap[m]]
    ELSE [call EXCEPT !.pc = "basics", !.req = tag, !.since = head]

\* Mutant: a new blockTag drops the cached markets.
Start_DropsMarkets(entering, tag) ==
    /\ blockTag' = tag
    /\ marketMap' = IF tag = blockTag THEN marketMap ELSE [m \in Markets |-> NoMarket]
    /\ calls' = [k \in Calls |->
                   IF k \in DOMAIN entering THEN Entered(entering[k], tag, SameTag(tag))
                   ELSE IF InFlight(k) THEN [calls[k] EXCEPT !.quiet = SameTag(tag)]
                   ELSE calls[k]]
    /\ UNCHANGED head

\* The Adapter sets the blockTag of the instance and starts calls: entering[c] is the
\* market of call c.
Start(entering, tag) ==
    /\ blockTag' = tag
    /\ calls' = [k \in Calls |->
                   IF k \in DOMAIN entering THEN Entered(entering[k], tag, SameTag(tag))
                   ELSE IF InFlight(k) THEN [calls[k] EXCEPT !.quiet = SameTag(tag)]
                   ELSE calls[k]]
    /\ UNCHANGED <<head, marketMap>>

Idle == {c \in Calls : calls[c].pc = "idle"}

GetPortfolio(tag) == \E c \in Idle, m \in Markets : Start([k \in {c} |-> m], tag)

\* Promise.all over the markets of the chain.
GetPortfolios(tag) ==
    \E batch \in SUBSET Idle :
        /\ Cardinality(batch) = Cardinality(Markets)
        /\ \E entering \in [batch -> Markets] :
             /\ \A m \in Markets : \E c \in batch : entering[c] = m
             /\ Start(entering, tag)

\* getMarket: numAssets and the totals; the reads of the assets are sent at once.
ReceiveBasics(c) ==
    /\ calls[c].pc = "basics"
    /\ \E b \in AnswerBlocks(c) :
         LET market == [basics |-> b, infos |-> 0, totals |-> 0,
                        assets |-> AssetsAt[calls[c].id][b]] IN
         Become(c, [Sent(calls[c], "infos") EXCEPT !.market = market])
    /\ UNCHANGED <<head, blockTag, marketMap>>

\* getAssetInfo fails for an asset the market does not have at the block of the answer.
ReceiveInfos(c) ==
    /\ calls[c].pc = "infos"
    /\ \E b \in AnswerBlocks(c) :
         Become(c, [calls[c] EXCEPT !.pc = IF AssetsAt[calls[c].id][b] >= calls[c].market.assets
                                           THEN "tokens" ELSE "rejected",
                                    !.market = [calls[c].market EXCEPT !.infos = b]])
    /\ UNCHANGED <<head, blockTag, marketMap>>

\* The awaited getToken of every asset, whose answers do not depend on the block.
ReceiveTokens(c) ==
    /\ calls[c].pc = "tokens"
    /\ Become(c, Sent(calls[c], "totals"))
    /\ UNCHANGED <<head, blockTag, marketMap>>

\* Mutant: the cache is not kept by market.
ReceiveTotals_OneEntry(c) ==
    /\ calls[c].pc = "totals"
    /\ \E b \in AnswerBlocks(c) :
         LET market == [calls[c].market EXCEPT !.totals = b] IN
         /\ marketMap' = [m \in Markets |-> market]
         /\ Become(c, [calls[c] EXCEPT !.pc = "market", !.market = market, !.fetched = TRUE])
    /\ UNCHANGED <<head, blockTag>>

\* The market is complete: it is cached, over what another call has cached meanwhile.
ReceiveTotals(c) ==
    /\ calls[c].pc = "totals"
    /\ \E b \in AnswerBlocks(c) :
         LET market == [calls[c].market EXCEPT !.totals = b] IN
         /\ marketMap' = [marketMap EXCEPT ![calls[c].id] = market]
         /\ Become(c, [calls[c] EXCEPT !.pc = "market", !.market = market, !.fetched = TRUE])
    /\ UNCHANGED <<head, blockTag>>

SendUtilization(c) ==
    /\ calls[c].pc = "market"
    /\ Become(c, Sent(calls[c], "utilization"))
    /\ UNCHANGED <<head, blockTag, marketMap>>

ReceiveUtilization(c) ==
    /\ calls[c].pc = "utilization"
    /\ \E b \in AnswerBlocks(c) :
         Become(c, [Sent(calls[c], "rates") EXCEPT !.utilization = b])
    /\ UNCHANGED <<head, blockTag, marketMap>>

ReceiveRates(c) ==
    /\ calls[c].pc = "rates"
    /\ \E b \in AnswerBlocks(c) : Become(c, [calls[c] EXCEPT !.pc = "apys", !.rate = b])
    /\ UNCHANGED <<head, blockTag, marketMap>>

\* getPriceMap uses getMarket again.  The market is cached by then (CallInv in
\* CompoundV3Proofs), so that use sends nothing.
GetPriceMap(c) ==
    /\ calls[c].pc = "apys"
    /\ Become(c, [calls[c] EXCEPT !.pc = "priceMarket", !.priced = marketMap[calls[c].id]])
    /\ UNCHANGED <<head, blockTag, marketMap>>

SendPrices(c) ==
    /\ calls[c].pc = "priceMarket"
    /\ Become(c, Sent(calls[c], "prices"))
    /\ UNCHANGED <<head, blockTag, marketMap>>

ReceivePrices(c) ==
    /\ calls[c].pc = "prices"
    /\ \E b \in AnswerBlocks(c) : Become(c, [calls[c] EXCEPT !.pc = "pricesRead", !.price = b])
    /\ UNCHANGED <<head, blockTag, marketMap>>

\* So does getUserBalances.
GetUserBalances(c) ==
    /\ calls[c].pc = "pricesRead"
    /\ Become(c, [calls[c] EXCEPT !.pc = "balanceMarket", !.balanced = marketMap[calls[c].id]])
    /\ UNCHANGED <<head, blockTag, marketMap>>

SendBalances(c) ==
    /\ calls[c].pc = "balanceMarket"
    /\ Become(c, Sent(calls[c], "balances"))
    /\ UNCHANGED <<head, blockTag, marketMap>>

ReceiveBalances(c) ==
    /\ calls[c].pc = "balances"
    /\ \E b \in AnswerBlocks(c) : Become(c, [calls[c] EXCEPT !.pc = "lst", !.balance = b])
    /\ UNCHANGED <<head, blockTag, marketMap>>

\* getLstTokenAPYMap (modelled in LendingProtocol) never fails; the portfolio is built.
BuildPortfolio(c) ==
    /\ calls[c].pc = "lst"
    /\ Become(c, [calls[c] EXCEPT !.pc = "done"])
    /\ UNCHANGED <<head, blockTag, marketMap>>

Continue(c) ==
    \/ Reject(c)
    \/ ReceiveBasics(c)
    \/ ReceiveInfos(c)
    \/ ReceiveTokens(c)
    \/ ReceiveTotals(c)
    \/ SendUtilization(c)
    \/ ReceiveUtilization(c)
    \/ ReceiveRates(c)
    \/ GetPriceMap(c)
    \/ SendPrices(c)
    \/ ReceivePrices(c)
    \/ GetUserBalances(c)
    \/ SendBalances(c)
    \/ ReceiveBalances(c)
    \/ BuildPortfolio(c)

Next ==
    \/ NewBlock
    \/ \E tag \in TagsAsked : GetPortfolio(tag) \/ GetPortfolios(tag)
    \/ \E c \in Calls : Continue(c)

Spec == Init /\ [][Next]_vars

-----------------------------------------------------------------------------
(* Properties.                                                               *)

TypeOK ==
    /\ head \in 1..MaxHead
    /\ blockTag \in Tags
    /\ marketMap \in [Markets -> MarketInfos]
    /\ calls \in [Calls -> CallStates]

Delivered(c) == calls[c].pc = "done"
Dated(c) == calls[c].tag # Latest
QuietDelivery(c) == Delivered(c) /\ Dated(c) /\ calls[c].quiet

\* A portfolio asked for at a block, on an instance whose overlapping calls all ask for
\* that block, has its rates, its prices and its balances from there; and so are the
\* three parts of the market if this call read them.  What getPortfolio's blockTag
\* promises, as far as the shared field and the shared map let it.
QuietSnapshot ==
    \A c \in Calls : QuietDelivery(c) =>
        /\ {calls[c].utilization, calls[c].rate, calls[c].price, calls[c].balance} = {calls[c].tag}
        /\ calls[c].fetched =>
             {calls[c].market.basics, calls[c].market.infos,
              calls[c].market.totals} = {calls[c].tag}

\* Some call has read market m itself, with n assets.
ReadWith(m, n) ==
    \E d \in Calls : calls[d].fetched /\ calls[d].id = m /\ calls[d].market.assets = n

\* The portfolio lists the assets of the first getMarket and looks each one up in what
\* getPriceMap and getUserBalances computed from the second and the third.  When the
\* overlapping calls agree on a block, none is left without a price or a balance.
\* Otherwise, calls for the newest block included, an asset is left so only where two
\* calls read the market, one of them with fewer assets than the portfolio lists.
EveryAssetPriced ==
    \A c \in Calls : Delivered(c) =>
        LET m == calls[c].id  n == calls[c].market.assets IN
        \/ n <= calls[c].priced.assets /\ n <= calls[c].balanced.assets
        \/ /\ ~QuietDelivery(c)
           /\ ReadWith(m, n)
           /\ \E fewer \in {calls[c].priced.assets, calls[c].balanced.assets} :
                fewer < n /\ ReadWith(m, fewer)

\* A market has settled once it is cached and no call is reading it any more.
MarketSettled(m) ==
    marketMap[m] # NoMarket /\ \A c \in Calls : calls[c].id = m => calls[c].pc \notin Filling

\* A cached market is never dropped, and once settled it is never read again and never
\* changes, whatever block later calls ask for.
MarketsSettle ==
    [][\A m \in Markets :
         /\ marketMap[m] # NoMarket => marketMap'[m] # NoMarket
         /\ MarketSettled(m) => MarketSettled(m)' /\ marketMap'[m] = marketMap[m]]_vars
=============================================================================
