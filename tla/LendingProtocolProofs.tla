----------------------- MODULE LendingProtocolProofs -----------------------
(***************************************************************************)
(* Proofs about LendingProtocol, for any number of calls, reserves, blocks *)
(* and tags.                                                               *)
(***************************************************************************)
EXTENDS LendingProtocol, TLAPS

Reading == {"reserves", "prices", "balances"}
BeforeIndex == {"reservesRead", "prices", "pricesRead", "balances"}
Late == {"lst", "lstFetch", "supplyList", "supplyFetch", "borrowList", "borrowFetch", "done"}
AfterBalances == {"balancesRead"} \cup Late
AfterPrices == {"pricesRead", "balances"} \cup AfterBalances
HasMap == {"reservesRead", "prices"} \cup AfterPrices

\* The map an answer at block b leaves in the instance.
MapAt(b) == [block |-> b, assets |-> Decoded(b)]

\* What a call knows of its outstanding read and of the map.
CallInv(c) ==
    /\ calls[c].pc \in Reading => calls[c].since >= 1
    /\ calls[c].pc = "reserves" => calls[c].req = calls[c].tag
    /\ calls[c].pc \in HasMap => reserveDataMap # NoMap
    /\ calls[c].pc \in HasMap /\ calls[c].fetched /\ Dated(c) =>
         calls[c].reserve.block = calls[c].tag
    /\ scaled /\ calls[c].pc \in Late => calls[c].index.assets = Reserves

\* What it knows besides when only calls for the same block overlap with it.
QuietInv(c) ==
    calls[c].quiet =>
        /\ InFlight(c) => blockTag = calls[c].tag
        /\ calls[c].pc \in {"prices", "balances"} => calls[c].req = calls[c].tag
        /\ Dated(c) =>
            /\ calls[c].pc \in AfterPrices => calls[c].price = calls[c].tag
            /\ calls[c].pc \in AfterBalances => calls[c].balance = calls[c].tag
            /\ calls[c].pc = "reserves" /\ reserveDataMap # NoMap =>
                 reserveDataMap = MapAt(calls[c].tag)
            /\ calls[c].pc \in BeforeIndex => calls[c].reserve = reserveDataMap
            /\ scaled /\ calls[c].pc \in AfterBalances => calls[c].index = calls[c].reserve

\* Calls in flight together are all quiet, for the same block, or none of them is.
PairInv(c, d) ==
    InFlight(c) /\ InFlight(d) /\ calls[c].quiet =>
        calls[d].quiet /\ calls[d].tag = calls[c].tag

IInv ==
    /\ TypeOK
    /\ \A c \in Calls : CallInv(c)
    /\ \A c \in Calls : QuietInv(c)
    /\ \A c, d \in Calls : PairInv(c, d)

-----------------------------------------------------------------------------
\* An answer at block b decodes a set of reserves.
LEMMA DecodedType == ASSUME NEW b PROVE Decoded(b) \in SUBSET Reserves
BY DEF Decoded

\* The node answers from a block of the chain, and from the one asked for.
LEMMA AnswerBlocksType ==
    ASSUME TypeOK, NEW c \in Calls, NEW b \in AnswerBlocks(c)
    PROVE  /\ b \in 0..MaxHead
           /\ calls[c].req # Latest => b = calls[c].req
           /\ calls[c].since >= 1 => b >= 1
BY ChainAssumption DEF TypeOK, AnswerBlocks, CallStates, Tags, Blocks, Latest

\* Scaling the balances lets a call go on, with a whole map, or throws.
Scaled(c) == calls[c].index.assets = Reserves /\ Goto(c, "lst")
LEMMA ScaleStep ==
    ASSUME NEW c, ScaleBalances(c)
    PROVE  /\ calls[c].pc = "balancesRead"
           /\ Scaled(c) \/ Fail(c)
           /\ UNCHANGED <<scaled, head, blockTag, reserveDataMap, tokenLists, lstAPYs>>
BY DEF ScaleBalances, Scaled

\* The fields a step may write keep a call state in its type.
LEMMA CallStateUpdate ==
    ASSUME NEW k \in CallStates
    PROVE  /\ Failed(k) \in CallStates
           /\ Answered(k) \in CallStates
           /\ Answered(k).tag = k.tag
           /\ \A p \in Pcs : [k EXCEPT !.pc = p] \in CallStates
           /\ \A p \in Pcs, t \in Tags, b \in 0..MaxHead :
                [k EXCEPT !.pc = p, !.req = t, !.since = b] \in CallStates
           /\ \A p \in Pcs, m \in ReserveMaps :
                [Answered(k) EXCEPT !.pc = p, !.reserve = m, !.fetched = TRUE] \in CallStates
           /\ \A p \in Pcs, b \in 0..MaxHead, m \in ReserveMaps :
                /\ [Answered(k) EXCEPT !.pc = p, !.price = b] \in CallStates
                /\ [Answered(k) EXCEPT !.pc = p, !.balance = b] \in CallStates
                /\ [Answered(k) EXCEPT !.pc = p, !.balance = b, !.index = m] \in CallStates
<1>1. Latest \in Tags /\ 0 \in 0..MaxHead
  BY ChainAssumption DEF Tags
<1>2. Answered(k) \in CallStates /\ Answered(k).tag = k.tag
  BY <1>1 DEF Answered, CallStates
<1>3. NewCall \in CallStates
  BY <1>1 DEF NewCall, NoMap, ReserveMaps, CallStates, Pcs
<1>4. Failed(k) \in CallStates
  BY <1>3 DEF Failed, CallStates, Pcs
<1> QED
  BY <1>2, <1>4 DEF CallStates

\* Every variable keeps its type, whatever calls are made and however they interleave.
THEOREM TypeCorrect == Spec => []TypeOK
<1>1. Init => TypeOK
  BY ChainAssumption DEF Init, TypeOK, NewCall, NoMap, CallStates, ReserveMaps, Pcs,
     Tags, Latest
<1>2. TypeOK /\ [Next]_vars => TypeOK'
  <2> SUFFICES ASSUME TypeOK, [Next]_vars PROVE TypeOK'
    OBVIOUS
  <2>0. /\ \A c \in Calls, p \in Pcs : [calls[c] EXCEPT !.pc = p] \in CallStates
        /\ \A c \in Calls : Failed(calls[c]) \in CallStates
        /\ \A c \in Calls, p \in Pcs :
             [calls[c] EXCEPT !.pc = p, !.req = blockTag, !.since = head] \in CallStates
        /\ \A c \in Calls, p \in Pcs, m \in ReserveMaps :
             [Answered(calls[c]) EXCEPT !.pc = p, !.reserve = m, !.fetched = TRUE]
               \in CallStates
        /\ \A c \in Calls, p \in Pcs : \A b \in AnswerBlocks(c) :
             /\ [Answered(calls[c]) EXCEPT !.pc = p, !.price = b] \in CallStates
             /\ [Answered(calls[c]) EXCEPT !.pc = p, !.balance = b] \in CallStates
             /\ [Answered(calls[c]) EXCEPT !.pc = p, !.balance = b, !.index = reserveDataMap]
                  \in CallStates
    <3>1. /\ calls \in [Calls -> CallStates] /\ reserveDataMap \in ReserveMaps
          /\ blockTag \in Tags /\ head \in 0..MaxHead
          /\ \A c \in Calls : \A b \in AnswerBlocks(c) : b \in 0..MaxHead
      BY AnswerBlocksType, ChainAssumption DEF TypeOK
    <3>2. /\ \A c \in Calls, p \in Pcs : [calls[c] EXCEPT !.pc = p] \in CallStates
          /\ \A c \in Calls : Failed(calls[c]) \in CallStates
      BY <3>1, CallStateUpdate
    <3>3. \A c \in Calls, p \in Pcs :
            [calls[c] EXCEPT !.pc = p, !.req = blockTag, !.since = head] \in CallStates
      BY <3>1, CallStateUpdate
    <3>4. \A c \in Calls, p \in Pcs, m \in ReserveMaps :
            [Answered(calls[c]) EXCEPT !.pc = p, !.reserve = m, !.fetched = TRUE]
              \in CallStates
      BY <3>1, CallStateUpdate
    <3>5. \A c \in Calls, p \in Pcs : \A b \in AnswerBlocks(c) :
            /\ [Answered(calls[c]) EXCEPT !.pc = p, !.price = b] \in CallStates
            /\ [Answered(calls[c]) EXCEPT !.pc = p, !.balance = b] \in CallStates
            /\ [Answered(calls[c]) EXCEPT !.pc = p, !.balance = b, !.index = reserveDataMap]
                 \in CallStates
      <4> SUFFICES ASSUME NEW c \in Calls, NEW p \in Pcs, NEW b \in AnswerBlocks(c)
                   PROVE  /\ [Answered(calls[c]) EXCEPT !.pc = p, !.price = b] \in CallStates
                          /\ [Answered(calls[c]) EXCEPT !.pc = p, !.balance = b]
                               \in CallStates
                          /\ [Answered(calls[c]) EXCEPT !.pc = p, !.balance = b,
                                                       !.index = reserveDataMap]
                               \in CallStates
        OBVIOUS
      <4>1. calls[c] \in CallStates /\ b \in 0..MaxHead
        BY <3>1
      <4> QED
        BY <3>1, <4>1, CallStateUpdate
    <3> QED
      BY <3>2, <3>3, <3>4, <3>5
  <2> USE DEF TypeOK, Pcs
  <2>1. CASE NewBlock
    BY <2>1, ChainAssumption DEF NewBlock
  <2>2. ASSUME NEW c \in Calls, NEW tag \in TagsAsked[c], GetPortfolio(c, tag) PROVE TypeOK'
    <3>1. SameTag(tag) \in BOOLEAN /\ tag \in Tags /\ head \in 0..MaxHead
      BY TagAssumption, ChainAssumption DEF SameTag
    <3>2. NewCall \in CallStates
      BY ChainAssumption DEF NewCall, NoMap, ReserveMaps, Tags, CallStates
    <3>3. Entered(tag, SameTag(tag)) \in CallStates
      BY <3>1, <3>2 DEF Entered, CallStates
    <3> QED
      BY <2>2, <3>1, <3>3 DEF GetPortfolio, CallStates
  <2>3. ASSUME NEW c \in Calls, Reject(c) PROVE TypeOK'
    BY <2>0, <2>3 DEF Reject, Fail
  <2>4. ASSUME NEW c \in Calls, FillReserveDataMap(c) PROVE TypeOK'
    <3>1. \A b \in AnswerBlocks(c) : MapAt(b) \in ReserveMaps
      BY AnswerBlocksType, DecodedType DEF MapAt, ReserveMaps
    <3> QED
      BY <2>0, <2>4, <3>1 DEF FillReserveDataMap, MapAt
  <2>5. ASSUME NEW c \in Calls, SendPrices(c) PROVE TypeOK'
    BY <2>0, <2>5 DEF SendPrices, Send
  <2>6. ASSUME NEW c \in Calls, ReceivePrices(c) PROVE TypeOK'
    BY <2>0, <2>6 DEF ReceivePrices
  <2>7. ASSUME NEW c \in Calls, SendBalances(c) PROVE TypeOK'
    BY <2>0, <2>7 DEF SendBalances, Send
  <2>8. ASSUME NEW c \in Calls, ReceiveBalances(c) PROVE TypeOK'
    BY <2>0, <2>8 DEF ReceiveBalances
  <2>9. ASSUME NEW c \in Calls, ReceiveScaledBalances(c) PROVE TypeOK'
    BY <2>0, <2>9 DEF ReceiveScaledBalances
  <2>10. ASSUME NEW c \in Calls, ScaleBalances(c) PROVE TypeOK'
    BY <2>0, <2>10 DEF ScaleBalances, Goto, Fail
  <2>11. ASSUME NEW c \in Calls, GetLstTokenAPYMap(c) PROVE TypeOK'
    BY <2>0, <2>11 DEF GetLstTokenAPYMap, Goto
  <2>12. ASSUME NEW c \in Calls, ReceiveLstAPYs(c) PROVE TypeOK'
    BY <2>0, <2>12 DEF ReceiveLstAPYs, Goto
  <2>13. ASSUME NEW c \in Calls, GetSupplyTokenList(c) PROVE TypeOK'
    BY <2>0, <2>13 DEF GetSupplyTokenList, Goto
  <2>14. ASSUME NEW c \in Calls, ReceiveSupplyTokenList(c) PROVE TypeOK'
    BY <2>0, <2>14 DEF ReceiveSupplyTokenList, Goto
  <2>15. ASSUME NEW c \in Calls, GetBorrowTokenList(c) PROVE TypeOK'
    BY <2>0, <2>15 DEF GetBorrowTokenList, Goto
  <2>16. ASSUME NEW c \in Calls, ReceiveBorrowTokenList(c) PROVE TypeOK'
    BY <2>0, <2>16 DEF ReceiveBorrowTokenList, Goto
  <2>17. CASE UNCHANGED vars
    BY <2>17 DEF vars
  <2> QED
    BY <2>1, <2>2, <2>3, <2>4, <2>5, <2>6, <2>7, <2>8,
       <2>9, <2>10, <2>11, <2>12, <2>13, <2>14, <2>15, <2>16, <2>17
  DEF Next, Continue
<1> QED
  BY <1>1, <1>2, PTL DEF Spec

\* A fresh instance with no call made satisfies IInv.
LEMMA InitIInv == Init => IInv
<1> SUFFICES ASSUME Init PROVE IInv
  OBVIOUS
<1>1. TypeOK
  BY ChainAssumption DEF Init, TypeOK, NewCall, NoMap, CallStates, ReserveMaps, Pcs,
     Tags, Latest
<1>2. \A c \in Calls : calls[c] = NewCall /\ ~InFlight(c)
  BY DEF Init, InFlight, NewCall
<1>3. \A c \in Calls : CallInv(c) /\ QuietInv(c)
  BY <1>2 DEF CallInv, QuietInv, NewCall, Late, AfterBalances, AfterPrices, HasMap,
     Reading, BeforeIndex
<1> QED
  BY <1>1, <1>2, <1>3 DEF IInv, PairInv

\* Every continuation, every new call and every new block preserve IInv.
LEMMA NextIInv == IInv /\ TypeOK' /\ [Next]_vars => IInv'
<1> SUFFICES ASSUME IInv, TypeOK', [Next]_vars PROVE IInv'
  OBVIOUS
<1> USE DEF IInv, TypeOK, CallInv, QuietInv, PairInv, InFlight, Dated, Settled, Late,
        AfterBalances, AfterPrices, HasMap, Reading, BeforeIndex, CallStates,
        Answered, Failed, NewCall
<1>1. ASSUME NEW c \in Calls, Reject(c) PROVE IInv'
  <2>1. \A d \in Calls : CallInv(d)'
    BY <1>1 DEF Reject, Fail
  <2>2. \A d \in Calls : QuietInv(d)'
    BY <1>1 DEF Reject, Fail
  <2>3. \A d, e \in Calls : PairInv(d, e)'
    BY <1>1 DEF Reject, Fail
  <2> QED
    BY <2>1, <2>2, <2>3
<1>2. ASSUME NEW c \in Calls, FillReserveDataMap(c) PROVE IInv'
  <2>1. \A d \in Calls : CallInv(d)'
    BY <1>2, AnswerBlocksType DEF FillReserveDataMap, MapAt, NoMap
  <2>2. \A d \in Calls : QuietInv(d)'
    BY <1>2, AnswerBlocksType DEF FillReserveDataMap, MapAt, NoMap
  <2>3. \A d, e \in Calls : PairInv(d, e)'
    BY <1>2 DEF FillReserveDataMap, MapAt, NoMap
  <2> QED
    BY <2>1, <2>2, <2>3
<1>3. ASSUME NEW c \in Calls, SendPrices(c) PROVE IInv'
  <2>1. \A d \in Calls : CallInv(d)'
    BY <1>3 DEF SendPrices, Send
  <2>2. \A d \in Calls : QuietInv(d)'
    BY <1>3 DEF SendPrices, Send
  <2>3. \A d, e \in Calls : PairInv(d, e)'
    BY <1>3 DEF SendPrices, Send
  <2> QED
    BY <2>1, <2>2, <2>3
<1>4. ASSUME NEW c \in Calls, ReceivePrices(c) PROVE IInv'
  <2>1. \A d \in Calls : CallInv(d)'
    BY <1>4, AnswerBlocksType DEF ReceivePrices
  <2>2. \A d \in Calls : QuietInv(d)'
    BY <1>4, AnswerBlocksType DEF ReceivePrices
  <2>3. \A d, e \in Calls : PairInv(d, e)'
    BY <1>4 DEF ReceivePrices
  <2> QED
    BY <2>1, <2>2, <2>3
<1>5. ASSUME NEW c \in Calls, SendBalances(c) PROVE IInv'
  <2>1. \A d \in Calls : CallInv(d)'
    BY <1>5 DEF SendBalances, Send
  <2>2. \A d \in Calls : QuietInv(d)'
    BY <1>5 DEF SendBalances, Send
  <2>3. \A d, e \in Calls : PairInv(d, e)'
    BY <1>5 DEF SendBalances, Send
  <2> QED
    BY <2>1, <2>2, <2>3
<1>6. ASSUME NEW c \in Calls, ReceiveBalances(c) PROVE IInv'
  <2>1. \A d \in Calls : CallInv(d)'
    BY <1>6, AnswerBlocksType DEF ReceiveBalances
  <2>2. \A d \in Calls : QuietInv(d)'
    BY <1>6, AnswerBlocksType DEF ReceiveBalances
  <2>3. \A d, e \in Calls : PairInv(d, e)'
    BY <1>6 DEF ReceiveBalances
  <2> QED
    BY <2>1, <2>2, <2>3
<1>7. ASSUME NEW c \in Calls, ReceiveScaledBalances(c) PROVE IInv'
  <2>1. \A d \in Calls : CallInv(d)'
    BY <1>7, AnswerBlocksType DEF ReceiveScaledBalances
  <2>2. \A d \in Calls : QuietInv(d)'
    BY <1>7, AnswerBlocksType DEF ReceiveScaledBalances
  <2>3. \A d, e \in Calls : PairInv(d, e)'
    BY <1>7 DEF ReceiveScaledBalances
  <2> QED
    BY <2>1, <2>2, <2>3
<1>8. ASSUME NEW c \in Calls, ScaleBalances(c) PROVE IInv'
  <2>0. /\ calls[c].pc = "balancesRead" /\ (Scaled(c) \/ Fail(c))
        /\ UNCHANGED <<scaled, head, blockTag, reserveDataMap, tokenLists, lstAPYs>>
    BY <1>8, ScaleStep
  <2>1. CASE Scaled(c)
    <3>1. \A d \in Calls : CallInv(d)'
      BY <2>0, <2>1 DEF Scaled, Goto
    <3>2. \A d \in Calls : QuietInv(d)'
      BY <2>0, <2>1 DEF Scaled, Goto
    <3>3. \A d, e \in Calls : PairInv(d, e)'
      BY <2>0, <2>1 DEF Scaled, Goto
    <3> QED
      BY <2>0, <2>1, <3>1, <3>2, <3>3 DEF Scaled, Goto
  <2>2. CASE Fail(c)
    <3>1. \A d \in Calls : CallInv(d)'
      BY <2>0, <2>2 DEF Fail
    <3>2. \A d \in Calls : QuietInv(d)'
      BY <2>0, <2>2 DEF Fail
    <3>3. \A d, e \in Calls : PairInv(d, e)'
      BY <2>0, <2>2 DEF Fail
    <3> QED
      BY <2>0, <2>2, <3>1, <3>2, <3>3 DEF Fail
  <2> QED
    BY <2>0, <2>1, <2>2
<1>9. ASSUME NEW c \in Calls, GetLstTokenAPYMap(c) PROVE IInv'
  <2>1. \A d \in Calls : CallInv(d)'
    BY <1>9 DEF GetLstTokenAPYMap, Goto
  <2>2. \A d \in Calls : QuietInv(d)'
    BY <1>9 DEF GetLstTokenAPYMap, Goto
  <2>3. \A d, e \in Calls : PairInv(d, e)'
    BY <1>9 DEF GetLstTokenAPYMap, Goto
  <2> QED
    BY <2>1, <2>2, <2>3
<1>10. ASSUME NEW c \in Calls, ReceiveLstAPYs(c) PROVE IInv'
  <2>1. \A d \in Calls : CallInv(d)'
    BY <1>10 DEF ReceiveLstAPYs, Goto
  <2>2. \A d \in Calls : QuietInv(d)'
    BY <1>10 DEF ReceiveLstAPYs, Goto
  <2>3. \A d, e \in Calls : PairInv(d, e)'
    BY <1>10 DEF ReceiveLstAPYs, Goto
  <2> QED
    BY <2>1, <2>2, <2>3
<1>11. ASSUME NEW c \in Calls, GetSupplyTokenList(c) PROVE IInv'
  <2>1. \A d \in Calls : CallInv(d)'
    BY <1>11 DEF GetSupplyTokenList, Goto
  <2>2. \A d \in Calls : QuietInv(d)'
    BY <1>11 DEF GetSupplyTokenList, Goto
  <2>3. \A d, e \in Calls : PairInv(d, e)'
    BY <1>11 DEF GetSupplyTokenList, Goto
  <2> QED
    BY <2>1, <2>2, <2>3
<1>12. ASSUME NEW c \in Calls, ReceiveSupplyTokenList(c) PROVE IInv'
  <2>1. \A d \in Calls : CallInv(d)'
    BY <1>12 DEF ReceiveSupplyTokenList, Goto
  <2>2. \A d \in Calls : QuietInv(d)'
    BY <1>12 DEF ReceiveSupplyTokenList, Goto
  <2>3. \A d, e \in Calls : PairInv(d, e)'
    BY <1>12 DEF ReceiveSupplyTokenList, Goto
  <2> QED
    BY <2>1, <2>2, <2>3
<1>13. ASSUME NEW c \in Calls, GetBorrowTokenList(c) PROVE IInv'
  <2>1. \A d \in Calls : CallInv(d)'
    BY <1>13 DEF GetBorrowTokenList, Goto
  <2>2. \A d \in Calls : QuietInv(d)'
    BY <1>13 DEF GetBorrowTokenList, Goto
  <2>3. \A d, e \in Calls : PairInv(d, e)'
    BY <1>13 DEF GetBorrowTokenList, Goto
  <2> QED
    BY <2>1, <2>2, <2>3
<1>14. ASSUME NEW c \in Calls, ReceiveBorrowTokenList(c) PROVE IInv'
  <2>1. \A d \in Calls : CallInv(d)'
    BY <1>14 DEF ReceiveBorrowTokenList, Goto
  <2>2. \A d \in Calls : QuietInv(d)'
    BY <1>14 DEF ReceiveBorrowTokenList, Goto
  <2>3. \A d, e \in Calls : PairInv(d, e)'
    BY <1>14 DEF ReceiveBorrowTokenList, Goto
  <2> QED
    BY <2>1, <2>2, <2>3
<1>15. CASE NewBlock
  BY <1>15 DEF NewBlock
<1>16. ASSUME NEW c \in Calls, NEW tag \in TagsAsked[c], GetPortfolio(c, tag) PROVE IInv'
  <2>1. tag \in Tags /\ head >= 1
    BY TagAssumption
  <2>2. \A d \in Calls : CallInv(d)'
    BY <1>16, <2>1 DEF GetPortfolio, Entered, NewCall
  <2>3. /\ calls'[c] = Entered(tag, SameTag(tag))
        /\ calls'[c].tag = tag /\ calls'[c].quiet = SameTag(tag)
        /\ calls'[c].pc \in {"reserves", "reservesRead"}
        /\ calls'[c].pc = "reserves" => reserveDataMap = NoMap
        /\ calls'[c].pc = "reservesRead" => calls'[c].reserve = reserveDataMap
        /\ reserveDataMap' = reserveDataMap /\ blockTag' = tag /\ scaled' = scaled
    BY <1>16, <2>1 DEF GetPortfolio, Entered, NewCall
  <2>4. ASSUME NEW d \in Calls, d # c
        PROVE  /\ InFlight(d)' <=> InFlight(d)
               /\ InFlight(d) => calls'[d] = [calls[d] EXCEPT !.quiet = SameTag(tag)]
               /\ ~InFlight(d) => calls'[d] = calls[d]
    BY <1>16, <2>4 DEF GetPortfolio
  <2>5. ASSUME SameTag(tag), NEW d \in Calls, InFlight(d)
        PROVE  calls[d].tag = tag /\ calls[d].quiet
    BY <2>5 DEF SameTag
  <2>6. SameTag(tag) \in BOOLEAN
    BY DEF SameTag
  <2>7. \A d \in Calls : QuietInv(d)'
    <3> SUFFICES ASSUME NEW d \in Calls PROVE QuietInv(d)'
      OBVIOUS
    <3>1. CASE d = c
      BY <2>3, <3>1
    <3>2. CASE d # c /\ ~InFlight(d)
      BY <2>3, <2>4, <3>2
    <3>3. CASE d # c /\ InFlight(d)
      <4>1. calls'[d] = [calls[d] EXCEPT !.quiet = SameTag(tag)]
        BY <2>4, <3>3
      <4>2. CASE ~SameTag(tag)
        BY <4>1, <4>2
      <4>3. CASE SameTag(tag)
        BY <4>1, <4>3, <2>3, <2>5, <3>3
      <4> QED
        BY <4>2, <4>3
    <3> QED
      BY <3>1, <3>2, <3>3
  <2>8. \A d, e \in Calls : PairInv(d, e)'
    <3> SUFFICES ASSUME NEW d \in Calls, NEW e \in Calls, InFlight(d)', InFlight(e)',
                        calls'[d].quiet
                 PROVE  calls'[e].quiet /\ calls'[e].tag = calls'[d].tag
      OBVIOUS
    <3>1. ASSUME NEW k \in Calls, InFlight(k)'
          PROVE  /\ calls'[k].quiet = SameTag(tag)
                 /\ SameTag(tag) => calls'[k].tag = tag
      <4>1. CASE k = c
        BY <2>3, <4>1
      <4>2. CASE k # c
        <5>1. InFlight(k)
          BY <2>4, <3>1, <4>2
        <5> QED
          BY <2>4, <2>5, <4>2, <5>1
      <4> QED
        BY <4>1, <4>2
    <3> QED
      BY <3>1
  <2> QED
    BY <2>2, <2>7, <2>8
<1>17. CASE UNCHANGED vars
  BY <1>17 DEF vars
<1> QED
  BY <1>1, <1>2, <1>3, <1>4, <1>5, <1>6, <1>7, <1>8,
       <1>9, <1>10, <1>11, <1>12, <1>13, <1>14, <1>15, <1>16, <1>17
  DEF Next, Continue

\* IInv holds in every state of the readers: it is what the snapshot promise and the
\* wholeness of scaled portfolios follow from.
THEOREM IInvHolds == Spec => []IInv
<1>1. [](TypeOK) /\ Init /\ [][Next]_vars => []IInv
  BY InitIInv, NextIInv, PTL
<1> QED
  BY <1>1, TypeCorrect, PTL DEF Spec

\* The snapshot promise of QuietSnapshot, for any number of calls and any tags.
THEOREM QuietCallsReadOneBlock == Spec => []QuietSnapshot
<1>1. IInv => QuietSnapshot
  BY DEF IInv, QuietSnapshot, QuietInv, CallInv, Delivered, Dated, HasMap, AfterPrices,
     AfterBalances, Late
<1> QED
  BY <1>1, IInvHolds, PTL

-----------------------------------------------------------------------------
\* No step takes back the block a call asked for, that it failed, or that it put a
\* map in place.
LEMMA CallsKept ==
    ASSUME IInv, [Next]_vars, NEW d \in Calls, calls[d].pc # "idle"
    PROVE  /\ calls'[d].pc # "idle"
           /\ calls'[d].tag = calls[d].tag
           /\ calls[d].fetched => calls'[d].fetched
           /\ calls[d].pc = "rejected" => calls'[d].pc = "rejected"
<1> DEFINE Kept == /\ calls'[d].pc # "idle"
                   /\ calls'[d].tag = calls[d].tag
                   /\ calls[d].fetched => calls'[d].fetched
                   /\ calls[d].pc = "rejected" => calls'[d].pc = "rejected"
<1>0. calls \in [Calls -> CallStates]
  BY DEF IInv, TypeOK
<1>1. ASSUME NEW c \in Calls, NEW tag \in TagsAsked[c], GetPortfolio(c, tag) PROVE Kept
  <2>1. calls'[d].pc = calls[d].pc /\ calls'[d].tag = calls[d].tag
        /\ calls'[d].fetched = calls[d].fetched
    BY <1>0, <1>1 DEF GetPortfolio, CallStates
  <2> QED
    BY <2>1
<1>2. CASE NewBlock \/ UNCHANGED vars
  BY <1>2 DEF NewBlock, vars
<1>3. ASSUME NEW c \in Calls, Continue(c) PROVE Kept
  <2>1. CASE Reject(c)
    BY <1>0, <2>1 DEF Reject, Fail, Failed, NewCall, CallStates
  <2>2. CASE FillReserveDataMap(c)
    BY <1>0, <2>2 DEF FillReserveDataMap, Answered, Failed, NewCall, CallStates
  <2>3. CASE SendPrices(c)
    BY <1>0, <2>3 DEF SendPrices, Send, CallStates
  <2>4. CASE ReceivePrices(c)
    BY <1>0, <2>4 DEF ReceivePrices, Answered, CallStates
  <2>5. CASE SendBalances(c)
    BY <1>0, <2>5 DEF SendBalances, Send, CallStates
  <2>6. CASE ReceiveBalances(c)
    BY <1>0, <2>6 DEF ReceiveBalances, Answered, Failed, NewCall, CallStates
  <2>7. CASE ReceiveScaledBalances(c)
    BY <1>0, <2>7 DEF ReceiveScaledBalances, Answered, CallStates
  <2>8. CASE ScaleBalances(c)
    <3>1. /\ calls[c].pc = "balancesRead" /\ (Scaled(c) \/ Fail(c))
          /\ UNCHANGED <<scaled, head, blockTag, reserveDataMap, tokenLists, lstAPYs>>
      BY <2>8, ScaleStep
    <3>2. CASE Scaled(c)
      BY <1>0, <3>1, <3>2 DEF Scaled, Goto, CallStates
    <3>3. CASE Fail(c)
      BY <1>0, <3>1, <3>3 DEF Fail, Failed, NewCall, CallStates
    <3> QED
      BY <3>1, <3>2, <3>3
  <2>9. CASE GetLstTokenAPYMap(c)
    BY <1>0, <2>9 DEF GetLstTokenAPYMap, Goto, CallStates
  <2>10. CASE ReceiveLstAPYs(c)
    BY <1>0, <2>10 DEF ReceiveLstAPYs, Goto, CallStates
  <2>11. CASE GetSupplyTokenList(c)
    BY <1>0, <2>11 DEF GetSupplyTokenList, Goto, CallStates
  <2>12. CASE ReceiveSupplyTokenList(c)
    BY <1>0, <2>12 DEF ReceiveSupplyTokenList, Goto, CallStates
  <2>13. CASE GetBorrowTokenList(c)
    BY <1>0, <2>13 DEF GetBorrowTokenList, Goto, CallStates
  <2>14. CASE ReceiveBorrowTokenList(c)
    BY <1>0, <2>14 DEF ReceiveBorrowTokenList, Goto, CallStates
  <2> QED
    BY <1>3, <2>1, <2>2, <2>3, <2>4, <2>5, <2>6, <2>7, <2>8, <2>9, <2>10, <2>11, <2>12, <2>13, <2>14 DEF Continue
<1> QED
  BY <1>1, <1>2, <1>3 DEF Next

\* The newest block, and every later one, lists every reserve.
LEMMA HeadListsAll ==
    ASSUME NEW b \in Int, b >= FirstHead
    PROVE  Decoded(b) = Reserves
<1>1. \A r \in Reserves : ListedAt[r] \in Int /\ ListedAt[r] <= b
  BY ChainAssumption, ReserveAssumption
<1>2. \A r \in Reserves : 1..r \subseteq Reserves
  BY ReserveAssumption DEF Reserves
<1> QED
  BY <1>1, <1>2, ChainAssumption DEF Decoded

SomeCutShort == \E d \in Calls : CutShort(d)
SomeWhole == \E e \in Calls : calls[e].fetched

\* What a call that put a map in place, or is about to, knows of it.
FetchInv(c) ==
    /\ calls[c].pc = "idle" => ~calls[c].fetched
    /\ calls[c].pc = "reserves" => calls[c].since >= FirstHead /\ ~calls[c].fetched
    /\ calls[c].fetched /\ Dated(c) => Decoded(calls[c].tag) = Reserves
    /\ calls[c].fetched /\ calls[c].pc \in HasMap => calls[c].reserve.assets = Reserves

\* Where a partial map, or a whole one, a call was handed comes from.
OriginInv(c) ==
    /\ calls[c].pc \in HasMap /\ calls[c].reserve.assets # Reserves => SomeCutShort
    /\ scaled /\ calls[c].pc \in AfterBalances /\ calls[c].index.assets = Reserves =>
         SomeWhole

PartialInv ==
    /\ head >= FirstHead
    /\ \A c \in Calls : FetchInv(c)
    /\ \A c \in Calls : OriginInv(c)
    /\ reserveDataMap # NoMap /\ reserveDataMap.assets # Reserves => SomeCutShort
    /\ reserveDataMap.assets = Reserves => SomeWhole

\* A map that was cut short leaves its mark: the call that read it failed.
LEMMA MarksKept ==
    ASSUME IInv, PartialInv, [Next]_vars
    PROVE  /\ SomeCutShort => SomeCutShort'
           /\ SomeWhole => SomeWhole'
<1>1. ASSUME NEW d \in Calls, CutShort(d) PROVE CutShort(d)'
  BY <1>1, CallsKept DEF CutShort, Dated, Decoded
<1>2. ASSUME NEW e \in Calls, calls[e].fetched PROVE calls'[e].fetched
  BY <1>2, CallsKept DEF PartialInv, FetchInv
<1> QED
  BY <1>1, <1>2 DEF SomeCutShort, SomeWhole

\* Nobody is handed a partial map unless a read was cut short, nor a whole one unless
\* some call read it.
LEMMA NextPartialInv == IInv /\ PartialInv /\ [Next]_vars => PartialInv'
<1> SUFFICES ASSUME IInv, PartialInv, [Next]_vars PROVE PartialInv'
  OBVIOUS
<1>0. /\ SomeCutShort => SomeCutShort'
      /\ SomeWhole => SomeWhole'
      /\ TypeOK /\ calls \in [Calls -> CallStates]
      /\ \A c \in Calls : CallInv(c)
  BY MarksKept DEF IInv, TypeOK
<1>A. \A c \in Calls : /\ Answered(calls[c]) \in CallStates
                       /\ Answered(calls[c]).tag = calls[c].tag
  BY <1>0, CallStateUpdate
<1> USE DEF PartialInv, FetchInv, OriginInv, CallInv, TypeOK, HasMap, AfterPrices,
        AfterBalances, Late, CallStates, Dated
<1>1. CASE NewBlock
  BY <1>0, <1>1, ChainAssumption DEF NewBlock
<1>2. ASSUME NEW c \in Calls, NEW tag \in TagsAsked[c], GetPortfolio(c, tag)
      PROVE  PartialInv'
  <2>1. calls'[c] = Entered(tag, SameTag(tag))
    BY <1>2 DEF GetPortfolio
  <2>2. /\ calls'[c].pc \in {"reserves", "reservesRead"}
        /\ ~calls'[c].fetched
        /\ calls'[c].pc = "reserves" => calls'[c].since = head
        /\ calls'[c].pc = "reservesRead" => /\ reserveDataMap # NoMap
                                            /\ calls'[c].reserve = reserveDataMap
    BY <2>1 DEF Entered, NewCall
  <2>3. \A d \in Calls \ {c} : /\ calls'[d].pc = calls[d].pc
                               /\ calls'[d].tag = calls[d].tag
                               /\ calls'[d].since = calls[d].since
                               /\ calls'[d].reserve = calls[d].reserve
                               /\ calls'[d].index = calls[d].index
                               /\ calls'[d].fetched = calls[d].fetched
    BY <1>0, <1>2 DEF GetPortfolio
  <2>4. scaled' = scaled /\ head' = head /\ reserveDataMap' = reserveDataMap
    BY <1>2 DEF GetPortfolio
  <2>5. \A d \in Calls : FetchInv(d)'
    BY <1>0, <2>2, <2>3, <2>4, ChainAssumption DEF Decoded
  <2>6. \A d \in Calls : OriginInv(d)'
    BY <1>0, <2>2, <2>3, <2>4
  <2> QED
    BY <1>0, <2>4, <2>5, <2>6
<1>3. ASSUME NEW c \in Calls, FillReserveDataMap(c) PROVE PartialInv'
  <2>1. PICK b \in AnswerBlocks(c) :
          /\ reserveDataMap' = MapAt(b)
          /\ Decoded(b) = Reserves =>
               calls' = [calls EXCEPT ![c] =
                           [Answered(calls[c]) EXCEPT !.pc = "reservesRead",
                                              !.reserve = MapAt(b), !.fetched = TRUE]]
          /\ Decoded(b) # Reserves => calls' = [calls EXCEPT ![c] = Failed(@)]
    BY <1>3 DEF FillReserveDataMap, MapAt
  <2>2. scaled' = scaled /\ head' = head /\ calls[c].pc = "reserves"
    BY <1>3 DEF FillReserveDataMap
  <2>3. \A d \in Calls \ {c} : calls'[d] = calls[d]
    BY <2>1, <1>0
  <2>4. calls[c].req = calls[c].tag /\ calls[c].since >= FirstHead /\ ~calls[c].fetched
    BY <1>0, <2>2 DEF Reading
  <2>5. Dated(c) => b = calls[c].tag
    BY <2>4, AnswerBlocksType, <1>0
  <2>6. ~Dated(c) => Decoded(b) = Reserves
    <3>1. CASE ~Dated(c)
      <4>1. b \in Int /\ b >= FirstHead
        BY <2>4, <3>1, <1>0, ChainAssumption DEF AnswerBlocks
      <4> QED
        BY <4>1, HeadListsAll
    <3> QED
      BY <3>1
  <2>7. CASE Decoded(b) = Reserves
    <3>1. /\ calls'[c].pc = "reservesRead" /\ calls'[c].reserve = MapAt(b)
          /\ calls'[c].fetched /\ calls'[c].tag = calls[c].tag
      <4>1. Answered(calls[c]) \in CallStates /\ Answered(calls[c]).tag = calls[c].tag
        BY <1>A
      <4>2. calls'[c] = [Answered(calls[c]) EXCEPT !.pc = "reservesRead",
                                            !.reserve = MapAt(b), !.fetched = TRUE]
        BY <1>0, <2>1, <2>7
      <4> QED
        BY <4>1, <4>2
    <3>2. SomeWhole'
      BY <3>1 DEF SomeWhole
    <3>3. reserveDataMap'.assets = Reserves /\ calls'[c].reserve.assets = Reserves
      BY <2>1, <2>7, <3>1 DEF MapAt
    <3>4. \A d \in Calls : FetchInv(d)'
      BY <1>0, <2>3, <2>5, <2>7, <3>1, <3>3 DEF Decoded
    <3>5. \A d \in Calls : OriginInv(d)'
      BY <1>0, <2>2, <2>3, <3>1, <3>2, <3>3
    <3> QED
      BY <1>0, <2>2, <3>2, <3>3, <3>4, <3>5
  <2>8. CASE Decoded(b) # Reserves
    <3>1. /\ calls'[c].pc = "rejected" /\ calls'[c].tag = calls[c].tag
          /\ ~calls'[c].fetched
      BY <2>1, <2>4, <2>8, <1>0 DEF Failed, NewCall
    <3>2. CutShort(c)'
      BY <2>5, <2>6, <2>8, <3>1 DEF CutShort, Decoded
    <3>3. SomeCutShort' /\ reserveDataMap'.assets # Reserves
      BY <2>1, <2>8, <3>2 DEF SomeCutShort, MapAt
    <3>4. \A d \in Calls : FetchInv(d)'
      BY <1>0, <2>3, <3>1 DEF Decoded
    <3>5. \A d \in Calls : OriginInv(d)'
      BY <1>0, <2>2, <2>3, <3>1, <3>3
    <3> QED
      BY <1>0, <2>2, <3>3, <3>4, <3>5
  <2> QED
    BY <2>7, <2>8
<1>4. ASSUME NEW c \in Calls, Continue(c), ~FillReserveDataMap(c) PROVE PartialInv'
  <2>1. CASE Reject(c)
    BY <1>0, <2>1 DEF Reject, Fail, Failed, NewCall, Decoded
  <2>2. CASE SendPrices(c)
    BY <1>0, <2>2 DEF SendPrices, Send, Decoded
  <2>3. CASE ReceivePrices(c)
    BY <1>0, <2>3 DEF ReceivePrices, Answered, Decoded
  <2>4. CASE SendBalances(c)
    BY <1>0, <2>4 DEF SendBalances, Send, Decoded
  <2>5. CASE ReceiveBalances(c)
    BY <1>0, <2>5 DEF ReceiveBalances, Answered, Failed, NewCall, Decoded
  <2>6. CASE ReceiveScaledBalances(c)
    BY <1>0, <2>6 DEF ReceiveScaledBalances, Answered, Decoded
  <2>7. CASE ScaleBalances(c)
    <3>1. /\ calls[c].pc = "balancesRead" /\ (Scaled(c) \/ Fail(c))
          /\ UNCHANGED <<scaled, head, blockTag, reserveDataMap, tokenLists, lstAPYs>>
      BY <2>7, ScaleStep
    <3>2. CASE Scaled(c)
      BY <1>0, <3>1, <3>2 DEF Scaled, Goto, Decoded
    <3>3. CASE Fail(c)
      BY <1>0, <3>1, <3>3 DEF Fail, Failed, NewCall, Decoded
    <3> QED
      BY <3>1, <3>2, <3>3
  <2>8. CASE GetLstTokenAPYMap(c)
    BY <1>0, <2>8 DEF GetLstTokenAPYMap, Goto, Decoded
  <2>9. CASE ReceiveLstAPYs(c)
    BY <1>0, <2>9 DEF ReceiveLstAPYs, Goto, Decoded
  <2>10. CASE GetSupplyTokenList(c)
    BY <1>0, <2>10 DEF GetSupplyTokenList, Goto, Decoded
  <2>11. CASE ReceiveSupplyTokenList(c)
    BY <1>0, <2>11 DEF ReceiveSupplyTokenList, Goto, Decoded
  <2>12. CASE GetBorrowTokenList(c)
    BY <1>0, <2>12 DEF GetBorrowTokenList, Goto, Decoded
  <2>13. CASE ReceiveBorrowTokenList(c)
    BY <1>0, <2>13 DEF ReceiveBorrowTokenList, Goto, Decoded
  <2> QED
    BY <1>4, <2>1, <2>2, <2>3, <2>4, <2>5, <2>6, <2>7, <2>8, <2>9, <2>10, <2>11, <2>12, <2>13 DEF Continue
<1>5. CASE UNCHANGED vars
  BY <1>0, <1>5 DEF vars, Decoded
<1> QED
  BY <1>1, <1>2, <1>3, <1>4, <1>5 DEF Next

\* However the calls interleave, a portfolio lacks a reserve only after another call's
\* read was cut short, and in the classes that scale balances only if a third call
\* read the reserves whole.
THEOREM PartialPortfoliosTakeOthers == Spec => []PartialTakesOthers
<1>1. Init => PartialInv
  <2>1. Reserves # {} /\ NoMap.assets = {} /\ FirstHead \in Int
    <3>1. 1 \in Reserves
      BY ReserveAssumption DEF Reserves
    <3> QED
      BY <3>1, ChainAssumption DEF NoMap
  <2> QED
    BY <2>1 DEF Init, PartialInv, FetchInv, OriginInv, NewCall, HasMap, AfterPrices,
       AfterBalances, Late, Dated
<1>2. IInv /\ PartialInv => PartialTakesOthers
  <2> SUFFICES ASSUME IInv, PartialInv, NEW c \in Calls, Delivered(c),
                      calls[c].reserve.assets # Reserves
               PROVE  \E d \in Calls : /\ CutShort(d)
                                       /\ scaled => \E e \in Calls \ {c, d} :
                                                       calls[e].fetched
    BY DEF PartialTakesOthers
  <2> USE DEF Delivered, HasMap, AfterPrices, AfterBalances, Late
  <2>1. PICK d \in Calls : CutShort(d)
    BY DEF PartialInv, OriginInv, SomeCutShort
  <2>2. ~calls[d].fetched /\ ~calls[c].fetched
    BY <2>1 DEF PartialInv, FetchInv, CutShort
  <2>3. ASSUME scaled PROVE \E e \in Calls \ {c, d} : calls[e].fetched
    <3>1. calls[c].index.assets = Reserves
      BY <2>3 DEF IInv, CallInv
    <3>2. PICK e \in Calls : calls[e].fetched
      BY <2>3, <3>1 DEF PartialInv, OriginInv, SomeWhole
    <3> QED
      BY <2>2, <3>2
  <2> QED
    BY <2>1, <2>3
<1>3. Spec => []PartialInv
  BY <1>1, NextPartialInv, IInvHolds, PTL DEF Spec
<1> QED
  BY <1>2, <1>3, IInvHolds, PTL

-----------------------------------------------------------------------------
\* Every call made so far asked for block t.
AllAsked(t) == \A c \in Calls : calls[c].pc # "idle" => calls[c].tag = t

\* Then they are all quiet, and no map but that of block t was ever handed out.
OneBlockInv(t) ==
    AllAsked(t) =>
        /\ reserveDataMap # NoMap => reserveDataMap.block = t
        /\ \A c \in Calls : /\ calls[c].quiet
                            /\ calls[c].pc \in HasMap => calls[c].reserve.block = t

\* A step neither takes back a call nor, if all calls asked for t, brings in anything
\* from another block.
LEMMA NextOneBlockInv ==
    ASSUME IInv, NEW t \in Blocks, OneBlockInv(t), [Next]_vars
    PROVE  OneBlockInv(t)'
<1> SUFFICES ASSUME AllAsked(t)'
             PROVE  /\ reserveDataMap' # NoMap => reserveDataMap'.block = t
                    /\ \A c \in Calls : /\ calls'[c].quiet
                                        /\ calls'[c].pc \in HasMap =>
                                             calls'[c].reserve.block = t
  BY DEF OneBlockInv
<1>0. /\ AllAsked(t) /\ TypeOK /\ calls \in [Calls -> CallStates]
      /\ \A c \in Calls : CallInv(c)
      /\ reserveDataMap # NoMap => reserveDataMap.block = t
      /\ \A c \in Calls : /\ calls[c].quiet
                          /\ calls[c].pc \in HasMap => calls[c].reserve.block = t
  <2>1. AllAsked(t)
    BY CallsKept DEF AllAsked
  <2> QED
    BY <2>1 DEF IInv, TypeOK, OneBlockInv
<1> DEFINE Holds == /\ reserveDataMap' # NoMap => reserveDataMap'.block = t
                    /\ \A c \in Calls : /\ calls'[c].quiet
                                        /\ calls'[c].pc \in HasMap =>
                                             calls'[c].reserve.block = t
<1> USE DEF HasMap, AfterPrices, AfterBalances, Late, CallStates
<1>1. ASSUME NEW c \in Calls, NEW tag \in TagsAsked[c], GetPortfolio(c, tag) PROVE Holds
  <2>1. /\ calls'[c] = Entered(tag, SameTag(tag)) /\ reserveDataMap' = reserveDataMap
        /\ calls'[c].tag = tag /\ calls'[c].pc # "idle"
    BY <1>1 DEF GetPortfolio, Entered, NewCall
  <2>2. tag = t
    BY <2>1 DEF AllAsked
  <2>3. SameTag(tag)
    BY <1>0, <2>2 DEF SameTag, AllAsked, InFlight
  <2>4. calls'[c].quiet /\ (calls'[c].pc \in HasMap => calls'[c].reserve.block = t)
    BY <1>0, <2>1, <2>3 DEF Entered, NewCall
  <2>5. \A d \in Calls \ {c} : calls'[d].quiet /\ calls'[d].pc = calls[d].pc
                               /\ calls'[d].reserve = calls[d].reserve
    BY <1>0, <1>1, <2>3 DEF GetPortfolio
  <2> QED
    BY <1>0, <2>1, <2>4, <2>5
<1>2. CASE NewBlock \/ UNCHANGED vars
  BY <1>0, <1>2 DEF NewBlock, vars
<1>3. ASSUME NEW c \in Calls, FillReserveDataMap(c) PROVE Holds
  <2>1. calls[c].req = t /\ t # Latest
    BY <1>0, <1>3 DEF FillReserveDataMap, CallInv, Reading, AllAsked, Blocks, Latest
  <2>2. \A b \in AnswerBlocks(c) : b = t
    BY <1>0, <2>1, AnswerBlocksType
  <2> QED
    BY <1>0, <1>3, <2>2 DEF FillReserveDataMap, Answered, Failed, NewCall
<1>4. ASSUME NEW c \in Calls, Continue(c), ~FillReserveDataMap(c) PROVE Holds
  <2>1. CASE Reject(c)
    BY <1>0, <2>1 DEF Reject, Fail, Failed, NewCall
  <2>2. CASE SendPrices(c)
    BY <1>0, <2>2 DEF SendPrices, Send
  <2>3. CASE ReceivePrices(c)
    BY <1>0, <2>3 DEF ReceivePrices, Answered
  <2>4. CASE SendBalances(c)
    BY <1>0, <2>4 DEF SendBalances, Send
  <2>5. CASE ReceiveBalances(c)
    BY <1>0, <2>5 DEF ReceiveBalances, Answered, Failed, NewCall
  <2>6. CASE ReceiveScaledBalances(c)
    BY <1>0, <2>6 DEF ReceiveScaledBalances, Answered
  <2>7. CASE ScaleBalances(c)
    <3>1. /\ calls[c].pc = "balancesRead" /\ (Scaled(c) \/ Fail(c))
          /\ UNCHANGED <<scaled, head, blockTag, reserveDataMap, tokenLists, lstAPYs>>
      BY <2>7, ScaleStep
    <3>2. CASE Scaled(c)
      BY <1>0, <3>1, <3>2 DEF Scaled, Goto
    <3>3. CASE Fail(c)
      BY <1>0, <3>1, <3>3 DEF Fail, Failed, NewCall
    <3> QED
      BY <3>1, <3>2, <3>3
  <2>8. CASE GetLstTokenAPYMap(c)
    BY <1>0, <2>8 DEF GetLstTokenAPYMap, Goto
  <2>9. CASE ReceiveLstAPYs(c)
    BY <1>0, <2>9 DEF ReceiveLstAPYs, Goto
  <2>10. CASE GetSupplyTokenList(c)
    BY <1>0, <2>10 DEF GetSupplyTokenList, Goto
  <2>11. CASE ReceiveSupplyTokenList(c)
    BY <1>0, <2>11 DEF ReceiveSupplyTokenList, Goto
  <2>12. CASE GetBorrowTokenList(c)
    BY <1>0, <2>12 DEF GetBorrowTokenList, Goto
  <2>13. CASE ReceiveBorrowTokenList(c)
    BY <1>0, <2>13 DEF ReceiveBorrowTokenList, Goto
  <2> QED
    BY <1>4, <2>1, <2>2, <2>3, <2>4, <2>5, <2>6, <2>7, <2>8, <2>9, <2>10, <2>11, <2>12, <2>13 DEF Continue
<1> QED
  BY <1>1, <1>2, <1>3, <1>4 DEF Next

\* While every call of an instance asks for the same block, every portfolio is that
\* block's, cached reserve data included, for any number of calls.
THEOREM OneBlockPortfolios == Spec => []InstanceSnapshot
<1> DEFINE Inv == \A t \in Blocks : OneBlockInv(t)
<1>1. Init => Inv
  BY DEF Init, OneBlockInv, NewCall, HasMap, AfterPrices, AfterBalances, Late
<1>2. IInv /\ Inv /\ [Next]_vars => Inv'
  <2> SUFFICES ASSUME IInv, Inv, [Next]_vars, NEW t \in Blocks PROVE OneBlockInv(t)'
    OBVIOUS
  <2> QED
    BY NextOneBlockInv
<1>3. IInv /\ Inv => InstanceSnapshot
  BY DEF IInv, InstanceSnapshot, OneBlockInv, AllAsked, QuietInv, Delivered, Dated, Blocks,
     Latest, HasMap, AfterPrices, AfterBalances, Late
<1>4. Spec => []Inv
  BY <1>1, <1>2, IInvHolds, PTL DEF Spec
<1> QED
  BY <1>3, <1>4, IInvHolds, PTL

-----------------------------------------------------------------------------
\* What an instance has cached, with no read of it under way, is never read again and
\* stays for good.
THEOREM SettledCachesStay == Spec => CachesSettle
<1> DEFINE Stay ==
      /\ MapSettled => MapSettled' /\ reserveDataMap' = reserveDataMap
      /\ LstSettled => LstSettled' /\ lstAPYs' = lstAPYs
      /\ ListSettled("supply", "supplyFetch") => ListSettled("supply", "supplyFetch")'
      /\ ListSettled("borrow", "borrowFetch") => ListSettled("borrow", "borrowFetch")'
<1>1. TypeOK /\ [Next]_vars => [Stay]_vars
  <2> SUFFICES ASSUME TypeOK, Next PROVE Stay
    OBVIOUS
  <2> USE DEF MapSettled, LstSettled, ListSettled, TypeOK, CallStates
  <2>1. CASE NewBlock
    BY <2>1 DEF NewBlock
  <2>2. ASSUME NEW c \in Calls, NEW tag \in TagsAsked[c], GetPortfolio(c, tag) PROVE Stay
    <3>1. /\ reserveDataMap # NoMap => calls'[c].pc = "reservesRead"
          /\ calls'[c].pc \in {"reserves", "reservesRead"}
      BY <2>2 DEF GetPortfolio, Entered, NewCall
    <3>2. \A d \in Calls \ {c} : calls'[d].pc = calls[d].pc
      BY <2>2 DEF GetPortfolio
    <3> QED
      BY <2>2, <3>1, <3>2 DEF GetPortfolio
  <2>3. ASSUME NEW c \in Calls, Continue(c) PROVE Stay
    <3>1. CASE Reject(c)
      BY <3>1 DEF Reject, Fail, Failed, NewCall
    <3>2. CASE FillReserveDataMap(c)
      BY <3>2 DEF FillReserveDataMap, Answered, Failed, NewCall
    <3>3. CASE SendPrices(c)
      BY <3>3 DEF SendPrices, Send
    <3>4. CASE ReceivePrices(c)
      BY <3>4 DEF ReceivePrices, Answered
    <3>5. CASE SendBalances(c)
      BY <3>5 DEF SendBalances, Send
    <3>6. CASE ReceiveBalances(c)
      BY <3>6 DEF ReceiveBalances, Answered, Failed, NewCall
    <3>7. CASE ReceiveScaledBalances(c)
      BY <3>7 DEF ReceiveScaledBalances, Answered
    <3>8. CASE ScaleBalances(c)
      <4>1. /\ calls[c].pc = "balancesRead" /\ (Scaled(c) \/ Fail(c))
            /\ UNCHANGED <<scaled, head, blockTag, reserveDataMap, tokenLists, lstAPYs>>
        BY <3>8, ScaleStep
      <4>2. CASE Scaled(c)
        BY <4>1, <4>2 DEF Scaled, Goto
      <4>3. CASE Fail(c)
        BY <4>1, <4>3 DEF Fail, Failed, NewCall
      <4> QED
        BY <4>1, <4>2, <4>3
    <3>9. CASE GetLstTokenAPYMap(c)
      BY <3>9 DEF GetLstTokenAPYMap, Goto
    <3>10. CASE ReceiveLstAPYs(c)
      BY <3>10 DEF ReceiveLstAPYs, Goto
    <3>11. CASE GetSupplyTokenList(c)
      BY <3>11 DEF GetSupplyTokenList, Goto
    <3>12. CASE ReceiveSupplyTokenList(c)
      BY <3>12 DEF ReceiveSupplyTokenList, Goto
    <3>13. CASE GetBorrowTokenList(c)
      BY <3>13 DEF GetBorrowTokenList, Goto
    <3>14. CASE ReceiveBorrowTokenList(c)
      BY <3>14 DEF ReceiveBorrowTokenList, Goto
    <3> QED
      BY <2>3, <3>1, <3>2, <3>3, <3>4, <3>5, <3>6, <3>7, <3>8, <3>9, <3>10, <3>11, <3>12, <3>13, <3>14 DEF Continue
  <2> QED
    BY <2>1, <2>2, <2>3 DEF Next
<1>2. Spec => [][Stay]_vars
  BY <1>1, TypeCorrect, PTL DEF Spec
<1> QED
  BY <1>2 DEF CachesSettle
=============================================================================
