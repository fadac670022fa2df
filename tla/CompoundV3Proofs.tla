-------------------------- MODULE CompoundV3Proofs --------------------------
(***************************************************************************)
(* Proofs about CompoundV3, for any number of calls, markets, blocks and   *)
(* tags, and any history of the markets' assets.                           *)
(***************************************************************************)
EXTENDS CompoundV3, TLAPS

Reading == Awaiting \ {"tokens"}
BeforePriceMap == {"market", "utilization", "rates", "apys"}
BeforeBalances == {"priceMarket", "prices", "pricesRead"}
Late == {"balanceMarket", "balances", "lst", "done"}
HasMarket == BeforePriceMap \cup BeforeBalances \cup Late

\* The market m as it is read at block b.
MarketAt(m, b) == [basics |-> b, infos |-> b, totals |-> b, assets |-> AssetsAt[m][b]]

\* An outstanding read was sent at a block of the chain.
ReadsSent == \A c \in Calls : calls[c].pc \in Reading => calls[c].since >= 1

\* What a call knows of the cached market.
CallInv(c) ==
    /\ calls[c].pc \in Filling \ {"basics"} => calls[c].market.basics >= 1
    /\ calls[c].pc \in Filling => ~calls[c].fetched
    /\ calls[c].pc \in HasMarket => marketMap[calls[c].id] # NoMarket

\* The markets a quiet call at a block was handed, as far as it has come.
QuietMarkets(c) ==
    /\ calls[c].pc \in Filling \ {"basics"} =>
         calls[c].market.basics = calls[c].tag
         /\ calls[c].market.assets = AssetsAt[calls[c].id][calls[c].tag]
    /\ calls[c].pc \in {"tokens", "totals"} => calls[c].market.infos = calls[c].tag
    /\ calls[c].fetched => calls[c].market = MarketAt(calls[c].id, calls[c].tag)
    /\ calls[c].pc \in Filling /\ marketMap[calls[c].id] # NoMarket =>
         marketMap[calls[c].id] = MarketAt(calls[c].id, calls[c].tag)
    /\ calls[c].pc \in BeforePriceMap \cup BeforeBalances =>
         calls[c].market = marketMap[calls[c].id]
    /\ calls[c].pc \in BeforeBalances \cup Late => calls[c].priced = calls[c].market
    /\ calls[c].pc \in Late => calls[c].balanced = calls[c].market

\* The blocks of its other reads.
QuietReads(c) ==
    /\ calls[c].pc \in {"rates", "apys"} \cup BeforeBalances \cup Late =>
         calls[c].utilization = calls[c].tag
    /\ calls[c].pc \in {"apys"} \cup BeforeBalances \cup Late => calls[c].rate = calls[c].tag
    /\ calls[c].pc \in {"pricesRead"} \cup Late => calls[c].price = calls[c].tag
    /\ calls[c].pc \in {"lst", "done"} => calls[c].balance = calls[c].tag

\* What a call knows when only calls for the same block overlap with it.
QuietInv(c) ==
    calls[c].quiet =>
        /\ InFlight(c) => blockTag = calls[c].tag
        /\ calls[c].pc \in Reading => calls[c].req = calls[c].tag
        /\ Dated(c) => QuietMarkets(c) /\ QuietReads(c)

\* Calls in flight together are all quiet, for the same block, or none of them is.
PairInv(c, d) ==
    InFlight(c) /\ InFlight(d) /\ calls[c].quiet =>
        calls[d].quiet /\ calls[d].tag = calls[c].tag

IInv ==
    /\ TypeOK
    /\ ReadsSent
    /\ \A c \in Calls : CallInv(c)
    /\ \A c \in Calls : QuietInv(c)
    /\ \A c, d \in Calls : PairInv(c, d)

-----------------------------------------------------------------------------
\* The node answers from a block of the chain, and from the one asked for.
LEMMA AnswerBlocksType ==
    ASSUME TypeOK, NEW c \in Calls, NEW b \in AnswerBlocks(c)
    PROVE  /\ b \in 0..MaxHead
           /\ calls[c].req # Latest => b = calls[c].req
           /\ calls[c].since >= 1 => b \in Blocks
BY ChainAssumption DEF TypeOK, AnswerBlocks, CallStates, Tags, Blocks, Latest

\* A call not yet made has the type of a call.
LEMMA InitCallState == NewCall \in CallStates /\ NoMarket \in MarketInfos
<1>1. AnyMarket \in Markets
  BY MarketAssumption DEF AnyMarket
<1> QED
  BY <1>1, ChainAssumption DEF NewCall, NoMarket, CallStates, MarketInfos, Pcs, Tags, Latest

\* No call made: every field has its type and nothing is promised yet.
LEMMA InitIInv == Init => IInv
<1> SUFFICES ASSUME Init PROVE IInv
  OBVIOUS
<1>1. NewCall \in CallStates /\ NoMarket \in MarketInfos
  BY InitCallState
<1>2. TypeOK
  BY <1>1, ChainAssumption DEF Init, TypeOK, Tags, Latest
<1>3. \A c \in Calls : calls[c] = NewCall /\ ~InFlight(c)
  BY DEF Init, InFlight, NewCall
<1>4. \A c \in Calls : calls[c].pc = "idle" /\ calls[c].fetched = FALSE /\ calls[c].tag = Latest
  BY <1>3 DEF NewCall
<1>5. \A c \in Calls : CallInv(c) /\ QuietInv(c)
  BY <1>3, <1>4 DEF CallInv, QuietInv, QuietMarkets, QuietReads, Dated, Late,
     BeforeBalances, BeforePriceMap, HasMarket, Filling, Reading, Awaiting
<1> QED
  BY <1>2, <1>3, <1>4, <1>5 DEF IInv, PairInv, ReadsSent, Reading, Awaiting

\* The fields a step may write keep a call state in its type.
LEMMA CallStateUpdate ==
    ASSUME NEW k \in CallStates, NEW p \in Pcs, NEW t \in Tags, NEW s \in 0..MaxHead,
           NEW b \in 0..MaxHead, NEW m \in MarketInfos
    PROVE  /\ [k EXCEPT !.pc = p] \in CallStates
           /\ [k EXCEPT !.pc = p, !.req = t, !.since = s] \in CallStates
           /\ [k EXCEPT !.market = m] \in CallStates
           /\ [k EXCEPT !.pc = p, !.market = m] \in CallStates
           /\ [k EXCEPT !.pc = p, !.market = m, !.fetched = TRUE] \in CallStates
           /\ [k EXCEPT !.utilization = b] \in CallStates
           /\ [k EXCEPT !.pc = p, !.rate = b] \in CallStates
           /\ [k EXCEPT !.pc = p, !.priced = m] \in CallStates
           /\ [k EXCEPT !.pc = p, !.price = b] \in CallStates
           /\ [k EXCEPT !.pc = p, !.balanced = m] \in CallStates
           /\ [k EXCEPT !.pc = p, !.balance = b] \in CallStates
BY DEF CallStates

\* So do the parts of a market.
LEMMA MarketUpdate ==
    ASSUME NEW m \in MarketInfos, NEW b \in 0..MaxHead, NEW n \in Nat
    PROVE  /\ [basics |-> b, infos |-> 0, totals |-> 0, assets |-> n] \in MarketInfos
           /\ [m EXCEPT !.infos = b] \in MarketInfos
           /\ [m EXCEPT !.totals = b] \in MarketInfos
<1>1. [basics |-> b, infos |-> 0, totals |-> 0, assets |-> n] \in MarketInfos
  BY ChainAssumption DEF MarketInfos
<1>2. [m EXCEPT !.infos = b] \in MarketInfos
  BY DEF MarketInfos
<1>3. [m EXCEPT !.totals = b] \in MarketInfos
  BY DEF MarketInfos
<1> QED
  BY <1>1, <1>2, <1>3

\* A step that writes one call, and nothing else but a market, keeps the types.
LEMMA BecomeType ==
    ASSUME TypeOK, NEW c \in Calls, NEW x \in CallStates, Become(c, x),
           UNCHANGED <<head, blockTag>>, marketMap' \in [Markets -> MarketInfos]
    PROVE  TypeOK'
BY DEF TypeOK, Become

\* Whatever a call awaits from the node it has sent.
LEMMA NextReadsSent == TypeOK /\ ReadsSent /\ [Next]_vars => ReadsSent'
<1> SUFFICES ASSUME TypeOK, ReadsSent, [Next]_vars PROVE ReadsSent'
  OBVIOUS
<1> USE DEF TypeOK, ReadsSent, Reading, Awaiting
<1>1. CASE NewBlock
  BY <1>1 DEF NewBlock
<1>2. ASSUME NEW tag \in TagsAsked, NEW entering, Start(entering, tag) PROVE ReadsSent'
  <2>1. \A m, q : /\ Entered(m, tag, q).pc = "basics" => Entered(m, tag, q).since = head
                  /\ Entered(m, tag, q).pc \in {"basics", "market"}
    BY DEF Entered, NewCall
  <2> QED
    BY <1>2, <2>1 DEF Start
<1>3. ASSUME NEW c \in Calls, Reject(c) PROVE ReadsSent'
  BY <1>3 DEF Reject, Become
<1>4. ASSUME NEW c \in Calls, ReceiveBasics(c) PROVE ReadsSent'
  BY <1>4 DEF ReceiveBasics, Become, Sent
<1>5. ASSUME NEW c \in Calls, ReceiveInfos(c) PROVE ReadsSent'
  BY <1>5 DEF ReceiveInfos, Become
<1>6. ASSUME NEW c \in Calls, ReceiveTokens(c) PROVE ReadsSent'
  BY <1>6 DEF ReceiveTokens, Become, Sent
<1>7. ASSUME NEW c \in Calls, ReceiveTotals(c) PROVE ReadsSent'
  BY <1>7 DEF ReceiveTotals, Become
<1>8. ASSUME NEW c \in Calls, SendUtilization(c) PROVE ReadsSent'
  BY <1>8 DEF SendUtilization, Become, Sent
<1>9. ASSUME NEW c \in Calls, ReceiveUtilization(c) PROVE ReadsSent'
  BY <1>9 DEF ReceiveUtilization, Become, Sent
<1>10. ASSUME NEW c \in Calls, ReceiveRates(c) PROVE ReadsSent'
  BY <1>10 DEF ReceiveRates, Become
<1>11. ASSUME NEW c \in Calls, GetPriceMap(c) PROVE ReadsSent'
  BY <1>11 DEF GetPriceMap, Become
<1>12. ASSUME NEW c \in Calls, SendPrices(c) PROVE ReadsSent'
  BY <1>12 DEF SendPrices, Become, Sent
<1>13. ASSUME NEW c \in Calls, ReceivePrices(c) PROVE ReadsSent'
  BY <1>13 DEF ReceivePrices, Become
<1>14. ASSUME NEW c \in Calls, GetUserBalances(c) PROVE ReadsSent'
  BY <1>14 DEF GetUserBalances, Become
<1>15. ASSUME NEW c \in Calls, SendBalances(c) PROVE ReadsSent'
  BY <1>15 DEF SendBalances, Become, Sent
<1>16. ASSUME NEW c \in Calls, ReceiveBalances(c) PROVE ReadsSent'
  BY <1>16 DEF ReceiveBalances, Become
<1>17. ASSUME NEW c \in Calls, BuildPortfolio(c) PROVE ReadsSent'
  BY <1>17 DEF BuildPortfolio, Become
<1>18. CASE UNCHANGED vars
  BY <1>18 DEF vars
<1>19. ASSUME NEW tag \in TagsAsked, GetPortfolio(tag) \/ GetPortfolios(tag) PROVE ReadsSent'
  BY <1>2, <1>19 DEF GetPortfolio, GetPortfolios
<1> QED
  BY <1>1, <1>3, <1>4, <1>5, <1>6, <1>7, <1>8, <1>9, <1>10,
     <1>11, <1>12, <1>13, <1>14, <1>15, <1>16, <1>17, <1>18, <1>19
  DEF Next, Continue

\* Every variable keeps its type, whatever calls are made and however they interleave.
THEOREM TypeCorrect == Spec => []TypeOK
<1>1. Init => TypeOK /\ ReadsSent
  BY InitIInv DEF IInv
<1>2. TypeOK /\ ReadsSent /\ [Next]_vars => TypeOK'
  <2> SUFFICES ASSUME TypeOK, ReadsSent, [Next]_vars PROVE TypeOK'
    OBVIOUS
  <2>0. /\ calls \in [Calls -> CallStates] /\ marketMap \in [Markets -> MarketInfos]
        /\ blockTag \in Tags /\ head \in 0..MaxHead
        /\ \A c \in Calls : /\ calls[c].id \in Markets
                            /\ calls[c].market \in MarketInfos
                            /\ marketMap[calls[c].id] \in MarketInfos
                            /\ \A b \in AnswerBlocks(c) : b \in 0..MaxHead
    BY AnswerBlocksType, ChainAssumption DEF TypeOK, CallStates
  <2>1. CASE NewBlock
    BY <2>1, ChainAssumption DEF NewBlock, TypeOK
  <2>2. ASSUME NEW tag \in TagsAsked, NEW entering, Start(entering, tag),
               \A k \in DOMAIN entering : entering[k] \in Markets
        PROVE  TypeOK'
    <3>1. SameTag(tag) \in BOOLEAN /\ tag \in Tags
      BY TagAssumption DEF SameTag
    <3>2. NewCall \in CallStates
      BY InitCallState
    <3>3. \A m \in Markets : Entered(m, tag, SameTag(tag)) \in CallStates
      <4> TAKE m \in Markets
      <4>1. /\ [NewCall EXCEPT !.id = m, !.tag = tag, !.quiet = SameTag(tag)] \in CallStates
            /\ marketMap[m] \in MarketInfos
        BY <2>0, <3>1, <3>2 DEF CallStates
      <4> QED
        BY <2>0, <3>1, <4>1 DEF Entered, CallStates, Pcs
    <3>4. \A k \in Calls : [calls[k] EXCEPT !.quiet = SameTag(tag)] \in CallStates
      BY <2>0, <3>1 DEF CallStates
    <3> QED
      BY <2>0, <2>2, <3>1, <3>3, <3>4 DEF Start, TypeOK
  <2>3. ASSUME NEW c \in Calls, Reject(c) PROVE TypeOK'
    <3>1. [calls[c] EXCEPT !.pc = "rejected"] \in CallStates
      BY <2>0, CallStateUpdate DEF Pcs
    <3> QED
      BY <2>0, <2>3, <3>1, BecomeType DEF Reject
  <2>4. ASSUME NEW c \in Calls, ReceiveBasics(c) PROVE TypeOK'
    <3> DEFINE M(b) == [basics |-> b, infos |-> 0, totals |-> 0,
                       assets |-> AssetsAt[calls[c].id][b]]
               X(b) == [Sent(calls[c], "infos") EXCEPT !.market = M(b)]
    <3>1. PICK b \in AnswerBlocks(c) : Become(c, X(b))
      BY <2>4 DEF ReceiveBasics
    <3>2. M(b) \in MarketInfos
      <4>1. AssetsAt[calls[c].id][b] \in Nat
        BY <2>0, <2>4, AnswerBlocksType, MarketAssumption
           DEF ReceiveBasics, ReadsSent, Reading, Awaiting
      <4> QED
        BY <2>0, <4>1, MarketUpdate
    <3>3. Sent(calls[c], "infos") \in CallStates
      BY <2>0, CallStateUpdate DEF Pcs, Sent
    <3> HIDE DEF M
    <3>4. X(b) \in CallStates
      BY <3>2, <3>3 DEF CallStates
    <3> QED
      BY <2>0, <2>4, <3>1, <3>4, BecomeType DEF ReceiveBasics
  <2>5. ASSUME NEW c \in Calls, ReceiveInfos(c) PROVE TypeOK'
    <3> DEFINE X(p, b) == [calls[c] EXCEPT !.pc = p,
                                       !.market = [calls[c].market EXCEPT !.infos = b]]
    <3>1. PICK b \in AnswerBlocks(c), p \in {"tokens", "rejected"} : Become(c, X(p, b))
      BY <2>5 DEF ReceiveInfos
    <3>2. PICK m \in MarketInfos : m = [calls[c].market EXCEPT !.infos = b]
      BY <2>0, MarketUpdate
    <3>3. X(p, b) \in CallStates
      <4>1. X(p, b) = [calls[c] EXCEPT !.pc = p, !.market = m]
        BY <3>2
      <4>2. p \in Pcs /\ calls[c] \in CallStates
        BY <2>0 DEF Pcs
      <4> HIDE DEF X
      <4> QED
        BY <4>1, <4>2 DEF CallStates
    <3> QED
      BY <2>0, <2>5, <3>1, <3>3, BecomeType DEF ReceiveInfos
  <2>6. ASSUME NEW c \in Calls, ReceiveTokens(c) PROVE TypeOK'
    <3>1. Sent(calls[c], "totals") \in CallStates
      BY <2>0, CallStateUpdate DEF Pcs, Sent
    <3> QED
      BY <2>0, <2>6, <3>1, BecomeType DEF ReceiveTokens
  <2>7. ASSUME NEW c \in Calls, ReceiveTotals(c) PROVE TypeOK'
    <3> DEFINE M(b) == [calls[c].market EXCEPT !.totals = b]
               X(b) == [calls[c] EXCEPT !.pc = "market", !.market = M(b), !.fetched = TRUE]
    <3>1. PICK b \in AnswerBlocks(c) : /\ Become(c, X(b))
                                       /\ marketMap' = [marketMap EXCEPT ![calls[c].id] = M(b)]
      BY <2>7 DEF ReceiveTotals
    <3>2. M(b) \in MarketInfos
      BY <2>0, MarketUpdate
    <3>3. X(b) \in CallStates
      BY <2>0, <3>2, CallStateUpdate DEF Pcs
    <3>4. marketMap' \in [Markets -> MarketInfos]
      BY <2>0, <3>1, <3>2
    <3> QED
      BY <2>7, <3>1, <3>3, <3>4, BecomeType DEF ReceiveTotals
  <2>8. ASSUME NEW c \in Calls, SendUtilization(c) PROVE TypeOK'
    <3>1. Sent(calls[c], "utilization") \in CallStates
      BY <2>0, CallStateUpdate DEF Pcs, Sent
    <3> QED
      BY <2>0, <2>8, <3>1, BecomeType DEF SendUtilization
  <2>9. ASSUME NEW c \in Calls, ReceiveUtilization(c) PROVE TypeOK'
    <3> DEFINE X(b) == [Sent(calls[c], "rates") EXCEPT !.utilization = b]
    <3>1. PICK b \in AnswerBlocks(c) : Become(c, X(b))
      BY <2>9 DEF ReceiveUtilization
    <3>2. Sent(calls[c], "rates") \in CallStates
      BY <2>0, CallStateUpdate DEF Pcs, Sent
    <3>3. X(b) \in CallStates
      BY <2>0, <3>2, CallStateUpdate DEF Pcs
    <3> QED
      BY <2>0, <2>9, <3>1, <3>3, BecomeType DEF ReceiveUtilization
  <2>10. ASSUME NEW c \in Calls, ReceiveRates(c) PROVE TypeOK'
    <3>1. PICK b \in AnswerBlocks(c) : Become(c, [calls[c] EXCEPT !.pc = "apys", !.rate = b])
      BY <2>10 DEF ReceiveRates
    <3>2. [calls[c] EXCEPT !.pc = "apys", !.rate = b] \in CallStates
      BY <2>0, CallStateUpdate DEF Pcs
    <3> QED
      BY <2>0, <2>10, <3>1, <3>2, BecomeType DEF ReceiveRates
  <2>11. ASSUME NEW c \in Calls, GetPriceMap(c) PROVE TypeOK'
    <3>1. [calls[c] EXCEPT !.pc = "priceMarket", !.priced = marketMap[calls[c].id]] \in CallStates
      BY <2>0, CallStateUpdate DEF Pcs
    <3> QED
      BY <2>0, <2>11, <3>1, BecomeType DEF GetPriceMap
  <2>12. ASSUME NEW c \in Calls, SendPrices(c) PROVE TypeOK'
    <3>1. Sent(calls[c], "prices") \in CallStates
      BY <2>0, CallStateUpdate DEF Pcs, Sent
    <3> QED
      BY <2>0, <2>12, <3>1, BecomeType DEF SendPrices
  <2>13. ASSUME NEW c \in Calls, ReceivePrices(c) PROVE TypeOK'
    <3>1. PICK b \in AnswerBlocks(c) : Become(c, [calls[c] EXCEPT !.pc = "pricesRead", !.price = b])
      BY <2>13 DEF ReceivePrices
    <3>2. [calls[c] EXCEPT !.pc = "pricesRead", !.price = b] \in CallStates
      BY <2>0, CallStateUpdate DEF Pcs
    <3> QED
      BY <2>0, <2>13, <3>1, <3>2, BecomeType DEF ReceivePrices
  <2>14. ASSUME NEW c \in Calls, GetUserBalances(c) PROVE TypeOK'
    <3>1. [calls[c] EXCEPT !.pc = "balanceMarket", !.balanced = marketMap[calls[c].id]]
            \in CallStates
      BY <2>0, CallStateUpdate DEF Pcs
    <3> QED
      BY <2>0, <2>14, <3>1, BecomeType DEF GetUserBalances
  <2>15. ASSUME NEW c \in Calls, SendBalances(c) PROVE TypeOK'
    <3>1. Sent(calls[c], "balances") \in CallStates
      BY <2>0, CallStateUpdate DEF Pcs, Sent
    <3> QED
      BY <2>0, <2>15, <3>1, BecomeType DEF SendBalances
  <2>16. ASSUME NEW c \in Calls, ReceiveBalances(c) PROVE TypeOK'
    <3>1. PICK b \in AnswerBlocks(c) : Become(c, [calls[c] EXCEPT !.pc = "lst", !.balance = b])
      BY <2>16 DEF ReceiveBalances
    <3>2. [calls[c] EXCEPT !.pc = "lst", !.balance = b] \in CallStates
      BY <2>0, CallStateUpdate DEF Pcs
    <3> QED
      BY <2>0, <2>16, <3>1, <3>2, BecomeType DEF ReceiveBalances
  <2>17. ASSUME NEW c \in Calls, BuildPortfolio(c) PROVE TypeOK'
    <3>1. [calls[c] EXCEPT !.pc = "done"] \in CallStates
      BY <2>0, CallStateUpdate DEF Pcs
    <3> QED
      BY <2>0, <2>17, <3>1, BecomeType DEF BuildPortfolio
  <2>18. CASE UNCHANGED vars
    BY <2>18 DEF vars, TypeOK
  <2>19. ASSUME NEW tag \in TagsAsked, GetPortfolio(tag) \/ GetPortfolios(tag) PROVE TypeOK'
    BY <2>2, <2>19 DEF GetPortfolio, GetPortfolios
  <2> QED
    BY <2>1, <2>3, <2>4, <2>5, <2>6, <2>7, <2>8, <2>9, <2>10,
       <2>11, <2>12, <2>13, <2>14, <2>15, <2>16, <2>17, <2>18, <2>19
    DEF Next, Continue
<1> QED
  BY <1>1, <1>2, NextReadsSent, PTL DEF Spec

\* Every continuation, every new call and every new block preserve IInv.
LEMMA NextIInv == IInv /\ TypeOK' /\ ReadsSent' /\ [Next]_vars => IInv'
<1> SUFFICES ASSUME IInv, TypeOK', ReadsSent', [Next]_vars PROVE IInv'
  OBVIOUS
<1> USE DEF IInv, TypeOK, ReadsSent, CallInv, QuietInv, QuietMarkets, QuietReads, PairInv,
        InFlight, Dated, Settled, Late, BeforeBalances, BeforePriceMap, HasMarket, Filling,
        Reading, Awaiting, CallStates
<1>1. ASSUME NEW c \in Calls, Reject(c) PROVE IInv'
  <2>1. \A d \in Calls : CallInv(d)'
    BY <1>1 DEF Reject, Become
  <2>2. \A d \in Calls : QuietInv(d)'
    BY <1>1 DEF Reject, Become
  <2>3. \A d, e \in Calls : PairInv(d, e)'
    BY <1>1 DEF Reject, Become
  <2> QED
    BY <2>1, <2>2, <2>3
<1>2. ASSUME NEW c \in Calls, ReceiveBasics(c) PROVE IInv'
  <2> DEFINE M(b) == [basics |-> b, infos |-> 0, totals |-> 0,
                      assets |-> AssetsAt[calls[c].id][b]]
  <2>1. PICK b \in AnswerBlocks(c) : \E m : /\ m = M(b)
          /\ calls' = [calls EXCEPT ![c] = [Sent(calls[c], "infos") EXCEPT !.market = m]]
    BY <1>2 DEF ReceiveBasics, Become
  <2>2. PICK m : /\ m = M(b)
          /\ calls' = [calls EXCEPT ![c] = [Sent(calls[c], "infos") EXCEPT !.market = m]]
    BY <2>1
  <2>3. /\ b >= 1 /\ m.basics = b /\ m.assets = AssetsAt[calls[c].id][b]
        /\ calls[c].req # Latest => b = calls[c].req
    BY <1>2, <2>2, AnswerBlocksType DEF ReceiveBasics, Blocks
  <2>4. \A d \in Calls : CallInv(d)'
    BY <1>2, <2>2, <2>3 DEF ReceiveBasics, Sent
  <2>5. \A d \in Calls : QuietInv(d)'
    BY <1>2, <2>2, <2>3 DEF ReceiveBasics, Sent
  <2>6. \A d, e \in Calls : PairInv(d, e)'
    BY <1>2 DEF ReceiveBasics, Become, Sent
  <2> QED
    BY <2>4, <2>5, <2>6
<1>3. ASSUME NEW c \in Calls, ReceiveInfos(c) PROVE IInv'
  <2>1. PICK b \in AnswerBlocks(c), p \in {"tokens", "rejected"} :
          calls' = [calls EXCEPT ![c] = [calls[c] EXCEPT
                      !.pc = p, !.market = [calls[c].market EXCEPT !.infos = b]]]
    BY <1>3 DEF ReceiveInfos, Become
  <2>2. PICK m : /\ m = [calls[c].market EXCEPT !.infos = b]
                 /\ calls' = [calls EXCEPT ![c] = [calls[c] EXCEPT !.pc = p, !.market = m]]
    BY <2>1
  <2>3. /\ m.basics = calls[c].market.basics /\ m.assets = calls[c].market.assets
        /\ m.infos = b /\ (calls[c].req # Latest => b = calls[c].req)
    BY <2>2, AnswerBlocksType DEF MarketInfos
  <2>4. \A d \in Calls : CallInv(d)'
    BY <1>3, <2>2, <2>3 DEF ReceiveInfos
  <2>5. \A d \in Calls : QuietInv(d)'
    BY <1>3, <2>2, <2>3 DEF ReceiveInfos
  <2>6. \A d, e \in Calls : PairInv(d, e)'
    BY <1>3 DEF ReceiveInfos, Become
  <2> QED
    BY <2>4, <2>5, <2>6
<1>4. ASSUME NEW c \in Calls, ReceiveTokens(c) PROVE IInv'
  <2>1. \A d \in Calls : CallInv(d)'
    BY <1>4 DEF ReceiveTokens, Become, Sent
  <2>2. \A d \in Calls : QuietInv(d)'
    BY <1>4 DEF ReceiveTokens, Become, Sent
  <2>3. \A d, e \in Calls : PairInv(d, e)'
    BY <1>4 DEF ReceiveTokens, Become, Sent
  <2> QED
    BY <2>1, <2>2, <2>3
<1>5. ASSUME NEW c \in Calls, ReceiveTotals(c) PROVE IInv'
  <2>1. \A d \in Calls : CallInv(d)'
    BY <1>5, AnswerBlocksType DEF ReceiveTotals, Become, MarketAt, MarketInfos, NoMarket
  <2>2. \A d \in Calls : QuietInv(d)'
    BY <1>5, AnswerBlocksType DEF ReceiveTotals, Become, MarketAt, MarketInfos, NoMarket
  <2>3. \A d, e \in Calls : PairInv(d, e)'
    BY <1>5 DEF ReceiveTotals, Become
  <2> QED
    BY <2>1, <2>2, <2>3
<1>6. ASSUME NEW c \in Calls, SendUtilization(c) PROVE IInv'
  <2>1. \A d \in Calls : CallInv(d)'
    BY <1>6 DEF SendUtilization, Become, Sent
  <2>2. \A d \in Calls : QuietInv(d)'
    BY <1>6 DEF SendUtilization, Become, Sent
  <2>3. \A d, e \in Calls : PairInv(d, e)'
    BY <1>6 DEF SendUtilization, Become, Sent
  <2> QED
    BY <2>1, <2>2, <2>3
<1>7. ASSUME NEW c \in Calls, ReceiveUtilization(c) PROVE IInv'
  <2>1. \A d \in Calls : CallInv(d)'
    BY <1>7, AnswerBlocksType DEF ReceiveUtilization, Become, Sent
  <2>2. \A d \in Calls : QuietInv(d)'
    BY <1>7, AnswerBlocksType DEF ReceiveUtilization, Become, Sent
  <2>3. \A d, e \in Calls : PairInv(d, e)'
    BY <1>7 DEF ReceiveUtilization, Become, Sent
  <2> QED
    BY <2>1, <2>2, <2>3
<1>8. ASSUME NEW c \in Calls, ReceiveRates(c) PROVE IInv'
  <2>1. \A d \in Calls : CallInv(d)'
    BY <1>8, AnswerBlocksType DEF ReceiveRates, Become
  <2>2. \A d \in Calls : QuietInv(d)'
    BY <1>8, AnswerBlocksType DEF ReceiveRates, Become
  <2>3. \A d, e \in Calls : PairInv(d, e)'
    BY <1>8 DEF ReceiveRates, Become
  <2> QED
    BY <2>1, <2>2, <2>3
<1>9. ASSUME NEW c \in Calls, GetPriceMap(c) PROVE IInv'
  <2>1. \A d \in Calls : CallInv(d)'
    BY <1>9 DEF GetPriceMap, Become
  <2>2. \A d \in Calls : QuietInv(d)'
    BY <1>9 DEF GetPriceMap, Become
  <2>3. \A d, e \in Calls : PairInv(d, e)'
    BY <1>9 DEF GetPriceMap, Become
  <2> QED
    BY <2>1, <2>2, <2>3
<1>10. ASSUME NEW c \in Calls, SendPrices(c) PROVE IInv'
  <2>1. \A d \in Calls : CallInv(d)'
    BY <1>10 DEF SendPrices, Become, Sent
  <2>2. \A d \in Calls : QuietInv(d)'
    BY <1>10 DEF SendPrices, Become, Sent
  <2>3. \A d, e \in Calls : PairInv(d, e)'
    BY <1>10 DEF SendPrices, Become, Sent
  <2> QED
    BY <2>1, <2>2, <2>3
<1>11. ASSUME NEW c \in Calls, ReceivePrices(c) PROVE IInv'
  <2>1. \A d \in Calls : CallInv(d)'
    BY <1>11, AnswerBlocksType DEF ReceivePrices, Become
  <2>2. \A d \in Calls : QuietInv(d)'
    BY <1>11, AnswerBlocksType DEF ReceivePrices, Become
  <2>3. \A d, e \in Calls : PairInv(d, e)'
    BY <1>11 DEF ReceivePrices, Become
  <2> QED
    BY <2>1, <2>2, <2>3
<1>12. ASSUME NEW c \in Calls, GetUserBalances(c) PROVE IInv'
  <2>1. \A d \in Calls : CallInv(d)'
    BY <1>12 DEF GetUserBalances, Become
  <2>2. \A d \in Calls : QuietInv(d)'
    BY <1>12 DEF GetUserBalances, Become
  <2>3. \A d, e \in Calls : PairInv(d, e)'
    BY <1>12 DEF GetUserBalances, Become
  <2> QED
    BY <2>1, <2>2, <2>3
<1>13. ASSUME NEW c \in Calls, SendBalances(c) PROVE IInv'
  <2>1. \A d \in Calls : CallInv(d)'
    BY <1>13 DEF SendBalances, Become, Sent
  <2>2. \A d \in Calls : QuietInv(d)'
    BY <1>13 DEF SendBalances, Become, Sent
  <2>3. \A d, e \in Calls : PairInv(d, e)'
    BY <1>13 DEF SendBalances, Become, Sent
  <2> QED
    BY <2>1, <2>2, <2>3
<1>14. ASSUME NEW c \in Calls, ReceiveBalances(c) PROVE IInv'
  <2>1. \A d \in Calls : CallInv(d)'
    BY <1>14, AnswerBlocksType DEF ReceiveBalances, Become
  <2>2. \A d \in Calls : QuietInv(d)'
    BY <1>14, AnswerBlocksType DEF ReceiveBalances, Become
  <2>3. \A d, e \in Calls : PairInv(d, e)'
    BY <1>14 DEF ReceiveBalances, Become
  <2> QED
    BY <2>1, <2>2, <2>3
<1>15. ASSUME NEW c \in Calls, BuildPortfolio(c) PROVE IInv'
  <2>1. \A d \in Calls : CallInv(d)'
    BY <1>15 DEF BuildPortfolio, Become
  <2>2. \A d \in Calls : QuietInv(d)'
    BY <1>15 DEF BuildPortfolio, Become
  <2>3. \A d, e \in Calls : PairInv(d, e)'
    BY <1>15 DEF BuildPortfolio, Become
  <2> QED
    BY <2>1, <2>2, <2>3
<1>16. CASE NewBlock
  BY <1>16 DEF NewBlock
<1>17. ASSUME NEW tag \in TagsAsked, NEW entering, Start(entering, tag),
              \A k \in DOMAIN entering : entering[k] \in Markets
       PROVE  IInv'
  <2> DEFINE new == DOMAIN entering \cap Calls
  <2>1. tag \in Tags /\ SameTag(tag) \in BOOLEAN
    BY TagAssumption DEF SameTag
  <2>2. ASSUME NEW c \in new
        PROVE  /\ calls'[c].id \in Markets
               /\ calls'[c].tag = tag /\ calls'[c].quiet = SameTag(tag) /\ ~calls'[c].fetched
               /\ \/ /\ calls'[c].pc = "basics" /\ marketMap[calls'[c].id] = NoMarket
                     /\ calls'[c].req = tag
                  \/ /\ calls'[c].pc = "market" /\ marketMap[calls'[c].id] # NoMarket
                     /\ calls'[c].market = marketMap[calls'[c].id]
    BY <1>17, <2>1 DEF Start, Entered, NewCall
  <2>3. ASSUME NEW c \in Calls \ new
        PROVE  /\ InFlight(c)' <=> InFlight(c)
               /\ InFlight(c) => calls'[c] = [calls[c] EXCEPT !.quiet = SameTag(tag)]
               /\ ~InFlight(c) => calls'[c] = calls[c]
    BY <1>17 DEF Start
  <2>4. ASSUME SameTag(tag), NEW c \in Calls, InFlight(c)
        PROVE  calls[c].tag = tag /\ calls[c].quiet
    BY <2>4 DEF SameTag
  <2>5. marketMap' = marketMap /\ blockTag' = tag
    BY <1>17 DEF Start
  <2>6. \A c \in Calls : CallInv(c)'
    <3> SUFFICES ASSUME NEW c \in Calls PROVE CallInv(c)'
      OBVIOUS
    <3>1. CASE c \in new
      BY <2>2, <2>5, <3>1
    <3>2. CASE c \notin new
      BY <2>3, <2>5, <3>2
    <3> QED
      BY <3>1, <3>2
  <2>7. \A c \in Calls : QuietInv(c)'
    <3> SUFFICES ASSUME NEW c \in Calls PROVE QuietInv(c)'
      OBVIOUS
    <3>1. CASE c \in new
      BY <2>2, <2>5, <3>1
    <3>2. CASE c \notin new /\ ~InFlight(c)
      BY <2>3, <2>5, <3>2
    <3>3. CASE c \notin new /\ InFlight(c)
      <4>1. calls'[c] = [calls[c] EXCEPT !.quiet = SameTag(tag)]
        BY <2>3, <3>3
      <4>2. CASE ~SameTag(tag)
        BY <4>1, <4>2
      <4>3. CASE SameTag(tag)
        BY <4>1, <4>3, <2>4, <2>5, <3>3
      <4> QED
        BY <4>2, <4>3
    <3> QED
      BY <3>1, <3>2, <3>3
  <2>8. \A c, d \in Calls : PairInv(c, d)'
    <3> SUFFICES ASSUME NEW c \in Calls, NEW d \in Calls, InFlight(c)', InFlight(d)',
                        calls'[c].quiet
                 PROVE  calls'[d].quiet /\ calls'[d].tag = calls'[c].tag
      OBVIOUS
    <3>1. ASSUME NEW k \in Calls, InFlight(k)'
          PROVE  /\ calls'[k].quiet = SameTag(tag)
                 /\ SameTag(tag) => calls'[k].tag = tag
      <4>1. CASE k \in new
        BY <2>2, <4>1
      <4>2. CASE k \notin new
        <5>1. InFlight(k)
          BY <2>3, <3>1, <4>2
        <5> QED
          BY <2>3, <2>4, <4>2, <5>1
      <4> QED
        BY <4>1, <4>2
    <3> QED
      BY <3>1
  <2> QED
    BY <2>6, <2>7, <2>8
<1>18. CASE UNCHANGED vars
  BY <1>18 DEF vars
<1>19. ASSUME NEW tag \in TagsAsked, GetPortfolio(tag) \/ GetPortfolios(tag) PROVE IInv'
  BY <1>17, <1>19 DEF GetPortfolio, GetPortfolios
<1> QED
  BY <1>1, <1>2, <1>3, <1>4, <1>5, <1>6, <1>7, <1>8, <1>9, <1>10,
     <1>11, <1>12, <1>13, <1>14, <1>15, <1>16, <1>18, <1>19
  DEF Next, Continue

\* IInv holds in every state of the reader: it is what the snapshot promise and the
\* priced assets follow from.
THEOREM IInvHolds == Spec => []IInv
<1>1. IInv /\ [Next]_vars => ReadsSent'
  BY NextReadsSent DEF IInv
<1>2. []TypeOK /\ Init /\ [][Next]_vars => []IInv
  BY <1>1, InitIInv, NextIInv, PTL
<1> QED
  BY <1>2, TypeCorrect, PTL DEF Spec

\* The snapshot promise of QuietSnapshot, for any number of calls and markets and any
\* tags: what the blockTag of getPortfolio is worth when the calls agree on it.
THEOREM QuietPortfoliosAreSnapshots == Spec => []QuietSnapshot
<1>1. IInv => QuietSnapshot
  <2> SUFFICES ASSUME IInv, NEW c \in Calls, QuietDelivery(c)
               PROVE  /\ {calls[c].utilization, calls[c].rate, calls[c].price,
                           calls[c].balance} = {calls[c].tag}
                      /\ calls[c].fetched =>
                           {calls[c].market.basics, calls[c].market.infos,
                            calls[c].market.totals} = {calls[c].tag}
    BY DEF QuietSnapshot
  <2>1. QuietMarkets(c) /\ QuietReads(c) /\ calls[c].pc = "done"
    BY DEF IInv, QuietInv, QuietDelivery, Delivered
  <2>2. /\ calls[c].utilization = calls[c].tag /\ calls[c].rate = calls[c].tag
        /\ calls[c].price = calls[c].tag /\ calls[c].balance = calls[c].tag
    BY <2>1 DEF QuietReads, Late
  <2>3. calls[c].fetched => calls[c].market = MarketAt(calls[c].id, calls[c].tag)
    BY <2>1 DEF QuietMarkets
  <2> QED
    BY <2>2, <2>3 DEF MarketAt
<1> QED
  BY <1>1, IInvHolds, PTL

-----------------------------------------------------------------------------
(* What a portfolio is made of was read by some call.                        *)

\* ReadWith over a given state of the calls, so that it can be compared across a step.
ReadIn(cs, m, n) == \E d \in Calls : cs[d].fetched /\ cs[d].id = m /\ cs[d].market.assets = n

\* Whatever call c was handed by the cache so far has been read by some call.
HandedInv(c) ==
    /\ calls[c].pc = "idle" => ~calls[c].fetched
    /\ calls[c].pc \in HasMarket => ReadIn(calls, calls[c].id, calls[c].market.assets)
    /\ calls[c].pc \in BeforeBalances \cup Late =>
         ReadIn(calls, calls[c].id, calls[c].priced.assets)
    /\ calls[c].pc \in Late => ReadIn(calls, calls[c].id, calls[c].balanced.assets)

\* And so has whatever the cache holds.
CachedInv ==
    \A m \in Markets : marketMap[m] # NoMarket => ReadIn(calls, m, marketMap[m].assets)

ReadInv == CachedInv /\ \A c \in Calls : HandedInv(c)

\* A call that has read its market keeps what it read.
KeepsRead(d) ==
    calls[d].fetched =>
        calls'[d].fetched /\ calls'[d].id = calls[d].id /\ calls'[d].market = calls[d].market

\* What was read stays read.
LEMMA ReadsStay ==
    ASSUME \A d \in Calls : KeepsRead(d)
    PROVE  \A m, n : ReadIn(calls, m, n) => ReadIn(calls', m, n)
BY DEF ReadIn, KeepsRead

\* A step of one call that does not write the market of a call that has read it.
LEMMA BecomeKeepsRead ==
    ASSUME NEW c \in Calls, NEW x, calls \in [Calls -> CallStates], Become(c, x),
           calls[c].fetched => x.fetched /\ x.id = calls[c].id /\ x.market = calls[c].market
    PROVE  \A d \in Calls : KeepsRead(d)
BY DEF Become, KeepsRead

\* Every step keeps what was handed out among what was read.
LEMMA NextReadInv == IInv /\ ReadInv /\ [Next]_vars => ReadInv'
<1> SUFFICES ASSUME IInv, ReadInv, [Next]_vars PROVE ReadInv'
  OBVIOUS
<1>0. /\ calls \in [Calls -> CallStates] /\ marketMap \in [Markets -> MarketInfos]
      /\ \A c \in Calls : calls[c] \in CallStates /\ calls[c].id \in Markets /\ CallInv(c)
  BY DEF IInv, TypeOK, CallStates
<1> USE DEF ReadInv, CachedInv, HandedInv, HasMarket, BeforePriceMap, BeforeBalances, Late, Filling
<1>1. ASSUME NEW c \in Calls, NEW x, Become(c, x), UNCHANGED marketMap,
             x.id = calls[c].id, x.pc # "idle",
             x.market = calls[c].market \/ calls[c].pc \in Filling,
             calls[c].pc \notin Filling => x.fetched = calls[c].fetched,
             x.pc \in HasMarket => calls[c].pc \in HasMarket,
             x.pc \in BeforeBalances \cup Late =>
               \/ calls[c].pc \in BeforeBalances \cup Late /\ x.priced = calls[c].priced
               \/ x.priced = marketMap[calls[c].id],
             x.pc \in Late =>
               \/ calls[c].pc \in Late /\ x.balanced = calls[c].balanced
               \/ x.balanced = marketMap[calls[c].id]
      PROVE  ReadInv'
  <2>1. calls[c].fetched => x.fetched /\ x.id = calls[c].id /\ x.market = calls[c].market
    BY <1>0, <1>1 DEF CallInv
  <2>2. \A m, n : ReadIn(calls, m, n) => ReadIn(calls', m, n)
    BY <1>0, <1>1, <2>1, BecomeKeepsRead, ReadsStay
  <2>3. /\ calls'[c] = x
        /\ \A d \in Calls \ {c} : calls'[d] = calls[d]
    BY <1>0, <1>1 DEF Become
  <2>4. CachedInv'
    BY <1>1, <2>2
  <2>5. calls[c].pc \in HasMarket => marketMap[calls[c].id] # NoMarket
    BY <1>0 DEF CallInv
  <2>6. HandedInv(c)'
    BY <1>0, <1>1, <2>2, <2>3, <2>5
  <2>7. \A d \in Calls \ {c} : HandedInv(d)'
    BY <2>2, <2>3
  <2> QED
    BY <2>4, <2>6, <2>7
<1>2. ASSUME NEW c \in Calls, ReceiveTotals(c) PROVE ReadInv'
  <2>1. PICK m : /\ m.assets = calls[c].market.assets
                 /\ marketMap' = [marketMap EXCEPT ![calls[c].id] = m]
                 /\ Become(c, [calls[c] EXCEPT !.pc = "market", !.market = m, !.fetched = TRUE])
    <3>1. PICK b \in AnswerBlocks(c) :
            LET m == [calls[c].market EXCEPT !.totals = b] IN
            /\ marketMap' = [marketMap EXCEPT ![calls[c].id] = m]
            /\ Become(c, [calls[c] EXCEPT !.pc = "market", !.market = m, !.fetched = TRUE])
      BY <1>2 DEF ReceiveTotals
    <3>2. [calls[c].market EXCEPT !.totals = b].assets = calls[c].market.assets
      BY <1>0 DEF CallStates, MarketInfos
    <3> QED
      BY <3>1, <3>2
  <2>2. /\ calls[c].pc = "totals" /\ ~calls[c].fetched
    BY <1>0, <1>2 DEF ReceiveTotals, CallInv
  <2>3. \A m_1, n : ReadIn(calls, m_1, n) => ReadIn(calls', m_1, n)
    BY <1>0, <2>1, <2>2, BecomeKeepsRead, ReadsStay
  <2>4. /\ calls'[c].id = calls[c].id /\ calls'[c].market = m /\ calls'[c].fetched
        /\ calls'[c].pc = "market"
        /\ \A d \in Calls \ {c} : calls'[d] = calls[d]
    BY <1>0, <2>1 DEF Become, CallStates
  <2>5. ReadIn(calls', calls[c].id, m.assets)
    BY <2>4 DEF ReadIn
  <2>6. CachedInv'
    BY <1>0, <2>1, <2>3, <2>5
  <2>7. HandedInv(c)'
    BY <2>4, <2>5
  <2>8. \A d \in Calls \ {c} : HandedInv(d)'
    BY <2>3, <2>4
  <2> QED
    BY <2>6, <2>7, <2>8
<1>3. ASSUME NEW tag \in TagsAsked, NEW entering, Start(entering, tag),
             DOMAIN entering \subseteq Idle,
             \A k \in DOMAIN entering : entering[k] \in Markets
      PROVE  ReadInv'
  <2>1. ASSUME NEW c \in DOMAIN entering
        PROVE  /\ calls'[c].id \in Markets /\ ~calls'[c].fetched
               /\ calls'[c].pc \in {"basics", "market"}
               /\ calls'[c].pc = "market" =>
                    /\ marketMap[calls'[c].id] # NoMarket
                    /\ calls'[c].market = marketMap[calls'[c].id]
    BY <1>3 DEF Start, Entered, NewCall, Idle
  <2>2. ASSUME NEW d \in Calls, d \notin DOMAIN entering
        PROVE  /\ calls'[d].fetched = calls[d].fetched /\ calls'[d].id = calls[d].id
               /\ calls'[d].market = calls[d].market /\ calls'[d].pc = calls[d].pc
               /\ calls'[d].priced = calls[d].priced /\ calls'[d].balanced = calls[d].balanced
    <3>1. PICK q : calls'[d] = calls[d] \/ calls'[d] = [calls[d] EXCEPT !.quiet = q]
      BY <1>3, <2>2 DEF Start
    <3> QED
      BY <1>0, <3>1 DEF CallStates
  <2>3. \A d \in Calls : KeepsRead(d)
    BY <1>3, <2>2 DEF KeepsRead, Idle
  <2>4. \A m, n : ReadIn(calls, m, n) => ReadIn(calls', m, n)
    BY <2>3, ReadsStay
  <2>5. marketMap' = marketMap
    BY <1>3 DEF Start
  <2>6. CachedInv'
    BY <2>4, <2>5
  <2>7. ASSUME NEW d \in Calls, d \notin DOMAIN entering PROVE HandedInv(d)'
    BY <2>2, <2>4, <2>7
  <2>8. ASSUME NEW c \in DOMAIN entering PROVE HandedInv(c)'
    BY <2>1, <2>4, <2>8
  <2> QED
    BY <2>6, <2>7, <2>8
<1>4. ASSUME NEW tag \in TagsAsked, GetPortfolio(tag) \/ GetPortfolios(tag) PROVE ReadInv'
  <2>1. CASE GetPortfolio(tag)
    <3>1. PICK c \in Idle, m \in Markets : Start([k \in {c} |-> m], tag)
      BY <2>1 DEF GetPortfolio
    <3> QED
      BY <1>3, <3>1
  <2>2. CASE GetPortfolios(tag)
    <3>1. PICK batch \in SUBSET Idle : \E entering \in [batch -> Markets] : Start(entering, tag)
      BY <2>2 DEF GetPortfolios
    <3> QED
      BY <1>3, <3>1
  <2> QED
    BY <1>4, <2>1, <2>2
<1>5. ASSUME NEW c \in Calls, Continue(c), ~ReceiveTotals(c) PROVE ReadInv'
  <2> USE <1>0 DEF CallStates, Sent
  <2>1. CASE Reject(c)
    BY <1>1, <2>1 DEF Reject
  <2>2. CASE ReceiveBasics(c)
    BY <1>1, <2>2 DEF ReceiveBasics
  <2>3. CASE ReceiveInfos(c)
    BY <1>1, <2>3 DEF ReceiveInfos
  <2>4. CASE ReceiveTokens(c)
    BY <1>1, <2>4 DEF ReceiveTokens
  <2>5. CASE SendUtilization(c)
    BY <1>1, <2>5 DEF SendUtilization
  <2>6. CASE ReceiveUtilization(c)
    BY <1>1, <2>6 DEF ReceiveUtilization
  <2>7. CASE ReceiveRates(c)
    BY <1>1, <2>7 DEF ReceiveRates
  <2>8. CASE GetPriceMap(c)
    BY <1>1, <2>8 DEF GetPriceMap
  <2>9. CASE SendPrices(c)
    BY <1>1, <2>9 DEF SendPrices
  <2>10. CASE ReceivePrices(c)
    BY <1>1, <2>10 DEF ReceivePrices
  <2>11. CASE GetUserBalances(c)
    BY <1>1, <2>11 DEF GetUserBalances
  <2>12. CASE SendBalances(c)
    BY <1>1, <2>12 DEF SendBalances
  <2>13. CASE ReceiveBalances(c)
    BY <1>1, <2>13 DEF ReceiveBalances
  <2>14. CASE BuildPortfolio(c)
    BY <1>1, <2>14 DEF BuildPortfolio
  <2> QED
    BY <1>5, <2>1, <2>2, <2>3, <2>4, <2>5, <2>6, <2>7, <2>8, <2>9, <2>10, <2>11, <2>12,
       <2>13, <2>14 DEF Continue
<1>6. CASE NewBlock \/ UNCHANGED vars
  BY <1>6 DEF NewBlock, vars
<1> QED
  BY <1>2, <1>4, <1>5, <1>6 DEF Next

\* ReadInv holds in every state: nothing is handed out that no call has read.
THEOREM HandedWasRead == Spec => []ReadInv
<1>1. Init => ReadInv
  <2> SUFFICES ASSUME Init PROVE ReadInv
    OBVIOUS
  <2>1. \A c \in Calls : calls[c].pc = "idle" /\ calls[c].fetched = FALSE
    BY DEF Init, NewCall
  <2> QED
    BY <2>1 DEF Init, ReadInv, CachedInv, HandedInv, HasMarket, BeforePriceMap,
       BeforeBalances, Late
<1> QED
  BY <1>1, IInvHolds, NextReadInv, PTL DEF Spec

\* A delivered portfolio leaves a listed asset without a price or a balance
\* (EveryAssetPriced) only where calls that did not agree on a block overlapped and two
\* of them read the market, one with fewer assets than the portfolio lists.
THEOREM EveryListedAssetIsPriced == Spec => []EveryAssetPriced
<1>1. IInv /\ ReadInv => EveryAssetPriced
  <2> SUFFICES ASSUME IInv, ReadInv, NEW c \in Calls, Delivered(c),
                      ~(/\ calls[c].market.assets <= calls[c].priced.assets
                        /\ calls[c].market.assets <= calls[c].balanced.assets)
               PROVE  /\ ~QuietDelivery(c)
                      /\ ReadWith(calls[c].id, calls[c].market.assets)
                      /\ \E fewer \in {calls[c].priced.assets, calls[c].balanced.assets} :
                           fewer < calls[c].market.assets /\ ReadWith(calls[c].id, fewer)
    BY DEF EveryAssetPriced
  <2>1. /\ calls[c].market.assets \in Nat /\ calls[c].priced.assets \in Nat
        /\ calls[c].balanced.assets \in Nat
    BY DEF IInv, TypeOK, CallStates, MarketInfos
  <2>2. ~QuietDelivery(c)
    <3>1. QuietDelivery(c) =>
            calls[c].priced = calls[c].market /\ calls[c].balanced = calls[c].market
      BY DEF IInv, QuietInv, QuietMarkets, QuietDelivery, Delivered, Dated, Late
    <3> QED
      BY <2>1, <3>1
  <2>3. /\ ReadWith(calls[c].id, calls[c].market.assets)
        /\ ReadWith(calls[c].id, calls[c].priced.assets)
        /\ ReadWith(calls[c].id, calls[c].balanced.assets)
    BY DEF ReadInv, HandedInv, Delivered, HasMarket, Late, ReadIn, ReadWith
  <2> QED
    BY <2>1, <2>2, <2>3
<1> QED
  BY <1>1, IInvHolds, HandedWasRead, PTL

\* A market that is cached, with no call reading it any more, is never read again and
\* never changes (MarketsSettle), however long the instance lives and whatever blocks
\* later calls ask for.
THEOREM SettledMarketsStay == Spec => MarketsSettle
<1> DEFINE Stays == \A m \in Markets :
                      /\ marketMap[m] # NoMarket => marketMap'[m] # NoMarket
                      /\ MarketSettled(m) => MarketSettled(m)' /\ marketMap'[m] = marketMap[m]
<1>1. IInv /\ [Next]_vars => Stays
  <2> SUFFICES ASSUME IInv, [Next]_vars PROVE Stays
    OBVIOUS
  <2>0. /\ calls \in [Calls -> CallStates] /\ marketMap \in [Markets -> MarketInfos]
        /\ \A c \in Calls : calls[c] \in CallStates /\ calls[c].id \in Markets /\ CallInv(c)
    BY DEF IInv, TypeOK, CallStates
  <2> USE DEF Filling
  <2>1. ASSUME NEW c \in Calls, ReceiveTotals(c) PROVE Stays
    <3>1. PICK m : /\ m # NoMarket
                   /\ marketMap' = [marketMap EXCEPT ![calls[c].id] = m]
                   /\ Become(c, [calls[c] EXCEPT !.pc = "market", !.market = m, !.fetched = TRUE])
      <4>1. PICK b \in AnswerBlocks(c) :
              LET m == [calls[c].market EXCEPT !.totals = b] IN
              /\ marketMap' = [marketMap EXCEPT ![calls[c].id] = m]
              /\ Become(c, [calls[c] EXCEPT !.pc = "market", !.market = m, !.fetched = TRUE])
        BY <2>1 DEF ReceiveTotals
      <4>2. calls[c].market \in MarketInfos /\ calls[c].market.basics >= 1
        BY <2>0, <2>1 DEF ReceiveTotals, CallInv, CallStates
      <4>3. [calls[c].market EXCEPT !.totals = b].basics >= 1
        BY <4>2 DEF MarketInfos
      <4>4. [calls[c].market EXCEPT !.totals = b] # NoMarket
        BY <4>3 DEF NoMarket
      <4> QED
        BY <4>1, <4>4
    <3>2. calls[c].pc = "totals"
      BY <2>1 DEF ReceiveTotals
    <3>3. \A m_1 \in Markets : marketMap[m_1] # NoMarket => marketMap'[m_1] # NoMarket
      BY <2>0, <3>1
    <3>4. \A m_1 \in Markets : m_1 # calls[c].id => marketMap'[m_1] = marketMap[m_1]
      BY <2>0, <3>1
    <3>5. \A d \in Calls : calls'[d].id = calls[d].id
                           /\ (calls'[d].pc \in Filling => calls[d].pc \in Filling)
      BY <2>0, <3>1 DEF Become, CallStates
    <3>6. \A m_1 \in Markets : MarketSettled(m_1) => m_1 # calls[c].id
      BY <3>2 DEF MarketSettled
    <3> QED
      BY <3>3, <3>4, <3>5, <3>6 DEF MarketSettled
  <2>2. ASSUME UNCHANGED marketMap,
               \A d \in Calls : calls'[d].pc \in Filling =>
                 \/ calls'[d].id = calls[d].id /\ calls[d].pc \in Filling
                 \/ marketMap[calls'[d].id] = NoMarket
        PROVE  Stays
    BY <2>2 DEF MarketSettled
  <2>3. ASSUME NEW tag \in TagsAsked, NEW entering, Start(entering, tag) PROVE Stays
    <3>1. ASSUME NEW d \in Calls, calls'[d].pc \in Filling
          PROVE  \/ calls'[d].id = calls[d].id /\ calls[d].pc \in Filling
                 \/ marketMap[calls'[d].id] = NoMarket
      BY <2>0, <2>3, <3>1 DEF Start, Entered, NewCall, CallStates
    <3> QED
      BY <2>2, <2>3, <3>1 DEF Start
  <2>4. ASSUME NEW tag \in TagsAsked, GetPortfolio(tag) \/ GetPortfolios(tag) PROVE Stays
    BY <2>3, <2>4 DEF GetPortfolio, GetPortfolios
  <2>5. ASSUME NEW c \in Calls, NEW x, Become(c, x), UNCHANGED marketMap,
               x.id = calls[c].id, x.pc \in Filling => calls[c].pc \in Filling
        PROVE  Stays
    <3>1. \A d \in Calls : calls'[d].id = calls[d].id
                           /\ (calls'[d].pc \in Filling => calls[d].pc \in Filling)
      BY <2>0, <2>5 DEF Become
    <3> QED
      BY <2>2, <2>5, <3>1
  <2>6. ASSUME NEW c \in Calls, Continue(c), ~ReceiveTotals(c) PROVE Stays
    <3> USE <2>0 DEF CallStates, Sent
    <3> HIDE DEF Stays
    <3>1. CASE Reject(c)
      BY <2>5, <3>1 DEF Reject
    <3>2. CASE ReceiveBasics(c)
      BY <2>5, <3>2 DEF ReceiveBasics
    <3>3. CASE ReceiveInfos(c)
      BY <2>5, <3>3 DEF ReceiveInfos
    <3>4. CASE ReceiveTokens(c)
      BY <2>5, <3>4 DEF ReceiveTokens
    <3>5. CASE SendUtilization(c)
      BY <2>5, <3>5 DEF SendUtilization
    <3>6. CASE ReceiveUtilization(c)
      BY <2>5, <3>6 DEF ReceiveUtilization
    <3>7. CASE ReceiveRates(c)
      BY <2>5, <3>7 DEF ReceiveRates
    <3>8. CASE GetPriceMap(c)
      BY <2>5, <3>8 DEF GetPriceMap
    <3>9. CASE SendPrices(c)
      BY <2>5, <3>9 DEF SendPrices
    <3>10. CASE ReceivePrices(c)
      BY <2>5, <3>10 DEF ReceivePrices
    <3>11. CASE GetUserBalances(c)
      BY <2>5, <3>11 DEF GetUserBalances
    <3>12. CASE SendBalances(c)
      BY <2>5, <3>12 DEF SendBalances
    <3>13. CASE ReceiveBalances(c)
      BY <2>5, <3>13 DEF ReceiveBalances
    <3>14. CASE BuildPortfolio(c)
      BY <2>5, <3>14 DEF BuildPortfolio
    <3> QED
      BY <2>6, <3>1, <3>2, <3>3, <3>4, <3>5, <3>6, <3>7,
         <3>8, <3>9, <3>10, <3>11, <3>12, <3>13, <3>14 DEF Continue
  <2>7. CASE NewBlock \/ UNCHANGED vars
    BY <2>2, <2>7 DEF NewBlock, vars
  <2> QED
    BY <2>1, <2>4, <2>6, <2>7 DEF Next
<1> HIDE DEF Stays
<1>2. Spec => [][Stays]_vars
  BY <1>1, IInvHolds, PTL DEF Spec
<1> QED
  BY <1>2 DEF MarketsSettle, Stays
=============================================================================
