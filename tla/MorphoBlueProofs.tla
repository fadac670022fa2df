-------------------------- MODULE MorphoBlueProofs --------------------------
(***************************************************************************)
(* MorphoBlue implements BlockRead, for any number of calls and markets,   *)
(* any blocks and any tags.                                                *)
(***************************************************************************)
EXTENDS MorphoBlue, TLAPS

\* A block an agreed answer to call state k may come from.
Fits(k, b) == IF k.tag = Latest THEN k.from <= b ELSE b = k.tag

Moving(k) == k.pc \notin Settled \cup {"idle"}

\* What a call in state k knows of its outstanding reads and of the answers it has.
CallInv(k) ==
    /\ k.pc = "idle" => k = NewCall
    /\ Moving(k) => 1 <= k.from
    /\ k.pc \in {"markets", "rates"} => k.from <= k.since
    /\ k.pc = "rates" => k.market \in 1..head
    /\ k.from <= head
    /\ \A m \in Markets : k.rate[m] <= head

\* What it knows besides while only calls for the same block overlap with it.
QuietInv(k) ==
    Moving(k) /\ k.quiet =>
        /\ blockTag = k.tag
        /\ k.pc \in {"markets", "rates"} => k.req = k.tag
        /\ k.pc = "rates" => Fits(k, k.market)
        /\ \A m \in Markets : k.rate[m] # 0 => Fits(k, k.rate[m])

\* Calls in flight together are all quiet, for the same block, or none of them is.
PairInv(c, d) ==
    InFlight(c) /\ InFlight(d) /\ calls[c].quiet =>
        calls[d].quiet /\ calls[d].tag = calls[c].tag

IInv ==
    /\ TypeOK
    /\ \A c \in Calls : CallInv(calls[c]) /\ QuietInv(calls[c])
    /\ \A c, d \in Calls : PairInv(c, d)

-----------------------------------------------------------------------------
\* A call that was not made yet is of its type.
LEMMA NewCallType == NewCall \in CallStates
BY ChainAssumption DEF NewCall, CallStates, Tags, Latest

\* The node answers from a block of the chain: the one asked for, or one as new as
\* the newest when the read was sent.
LEMMA AnswerBlocksType ==
    ASSUME TypeOK, NEW c \in Calls, NEW b \in AnswerBlocks(c)
    PROVE  /\ b \in 0..MaxHead /\ b <= head
           /\ calls[c].req # Latest => b = calls[c].req /\ b >= 1
           /\ calls[c].req = Latest => calls[c].since <= b
BY ChainAssumption DEF TypeOK, AnswerBlocks, CallStates, Tags, Latest

\* Before any call is made IInv holds.
LEMMA InitIInv == Init => IInv
<1> SUFFICES ASSUME Init PROVE IInv
  OBVIOUS
<1>1. TypeOK
  BY ChainAssumption, NewCallType DEF Init, TypeOK, Tags, Latest
<1>2. \A c \in Calls : calls[c] = NewCall /\ ~InFlight(c)
  BY DEF Init, InFlight, NewCall
<1> QED
  BY <1>1, <1>2 DEF IInv, CallInv, QuietInv, PairInv, NewCall, TypeOK,
     Moving, InFlight

\* A step that only moves call c on keeps IInv when the new state of c satisfies it.
LEMMA OneCallStep ==
    ASSUME IInv, NEW c \in Calls, NEW n \in CallStates,
           calls' = [calls EXCEPT ![c] = n],
           head' = head, blockTag' = blockTag,
           lstAPYs' \in {"undefined", "empty", "loaded"},
           Moving(calls[c]), n.tag = calls[c].tag, n.quiet = calls[c].quiet,
           CallInv(n), QuietInv(n)
    PROVE  IInv'
<1>1. TypeOK'
  BY DEF IInv, TypeOK
<1>2. \A d \in Calls : calls'[d] = IF d = c THEN n ELSE calls[d]
  BY DEF IInv, TypeOK
<1>3. ASSUME NEW d \in Calls PROVE (CallInv(calls[d]) /\ QuietInv(calls[d]))'
  <2>1. CallInv(calls'[d]) /\ QuietInv(calls'[d])
    BY <1>2 DEF IInv
  <2> QED
    BY <2>1 DEF CallInv, QuietInv
<1>4. ASSUME NEW d \in Calls, NEW e \in Calls PROVE PairInv(d, e)'
  BY <1>2 DEF IInv, PairInv, InFlight, Moving
<1> QED
  BY <1>1, <1>3, <1>4 DEF IInv

\* A call made or continued, and a new block, preserve IInv.
LEMMA NextIInv == IInv /\ [Next]_vars => IInv'
<1> SUFFICES ASSUME IInv, [Next]_vars PROVE IInv'
  OBVIOUS
<1>0. /\ TypeOK /\ head \in 1..MaxHead /\ head \in 0..MaxHead /\ blockTag \in Tags
      /\ lstAPYs \in {"undefined", "empty", "loaded"}
      /\ calls \in [Calls -> CallStates]
  BY ChainAssumption DEF IInv, TypeOK
<1>1. CASE NewBlock
  <2>1. head' \in 1..MaxHead /\ head' = head + 1 /\ UNCHANGED <<blockTag, lstAPYs, calls>>
    BY <1>0, <1>1, ChainAssumption DEF NewBlock
  <2>2. ASSUME NEW d \in Calls PROVE (CallInv(calls[d]) /\ QuietInv(calls[d]))'
    <3>1. calls[d] \in CallStates /\ CallInv(calls[d]) /\ QuietInv(calls[d])
      BY <1>0 DEF IInv
    <3> QED
      BY <1>0, <2>1, <3>1, ChainAssumption DEF CallInv, QuietInv, Moving, Fits, CallStates
  <2> QED
    BY <1>0, <2>1, <2>2 DEF IInv, TypeOK, PairInv, InFlight
<1>2. ASSUME NEW c \in Calls, NEW tag \in TagsAsked,
             NEW markets \in {{m} : m \in Markets} \cup {Markets},
             GetPortfolios(c, tag, markets)
      PROVE  IInv'
  <2>1. /\ tag \in Tags /\ markets \in SUBSET Markets /\ SameTag(tag) \in BOOLEAN
        /\ head' = head /\ blockTag' = tag /\ lstAPYs' = lstAPYs
    BY <1>2, TagAssumption DEF GetPortfolios, SameTag
  <2> DEFINE n == [NewCall EXCEPT !.pc = IF lstAPYs # "undefined" THEN "lst" ELSE "lstFetch",
                                  !.tag = tag, !.markets = markets,
                                  !.from = head, !.quiet = SameTag(tag)]
  <2>2. /\ n \in CallStates
        /\ n.pc \in {"lst", "lstFetch"} /\ n.tag = tag /\ n.from = head
        /\ n.quiet = SameTag(tag) /\ \A m \in Markets : n.rate[m] = 0
    <3>1. /\ NewCall.rate = [m \in Markets |-> 0]
          /\ n.rate = NewCall.rate
      BY DEF NewCall
    <3>2. n.pc \in {"lst", "lstFetch"} /\ n.tag = tag /\ n.from = head /\ n.quiet = SameTag(tag)
      BY DEF NewCall
    <3>3. n \in CallStates
      BY <1>0, <2>1, NewCallType DEF CallStates
    <3> QED
      BY <3>1, <3>2, <3>3
  <2> HIDE DEF n
  <2>3. calls' = [k \in Calls |->
                    IF k = c THEN n
                    ELSE IF InFlight(k) THEN [calls[k] EXCEPT !.quiet = SameTag(tag)]
                    ELSE calls[k]]
    BY <1>2 DEF GetPortfolios, n
  <2>4. ASSUME SameTag(tag), NEW d \in Calls, InFlight(d)
        PROVE  calls[d].tag = tag /\ calls[d].quiet
    BY <2>4 DEF SameTag
  <2>5. ASSUME NEW k \in CallStates, NEW q \in BOOLEAN
        PROVE  LET u == [k EXCEPT !.quiet = q]
               IN  /\ u \in CallStates /\ u.pc = k.pc /\ u.tag = k.tag /\ u.quiet = q
                   /\ u.from = k.from /\ u.since = k.since /\ u.req = k.req
                   /\ u.market = k.market /\ u.rate = k.rate
    BY DEF CallStates
  <2>6. calls' \in [Calls -> CallStates]
    BY <1>0, <2>1, <2>2, <2>3, <2>5
  <2>7. TypeOK'
    BY <1>0, <2>1, <2>6 DEF TypeOK
  <2>8. ASSUME NEW d \in Calls PROVE (CallInv(calls[d]) /\ QuietInv(calls[d]))'
    <3>1. CASE d = c
      <4>1. calls'[d] = n
        BY <2>3, <3>1
      <4> QED
        BY <1>0, <2>1, <2>2, <4>1 DEF CallInv, QuietInv, Moving
    <3>2. CASE d # c /\ ~InFlight(d)
      <4>1. calls'[d] = calls[d] /\ CallInv(calls[d]) /\ ~Moving(calls[d])
        BY <2>3, <3>2 DEF IInv, InFlight, Moving
      <4> QED
        BY <2>1, <4>1 DEF CallInv, QuietInv, Moving
    <3>3. CASE d # c /\ InFlight(d)
      <4> DEFINE k == calls[d]
                 u == [k EXCEPT !.quiet = SameTag(tag)]
      <4>1. calls'[d] = u /\ k \in CallStates /\ CallInv(k) /\ QuietInv(k) /\ Moving(k)
        BY <1>0, <2>3, <3>3 DEF IInv, InFlight, Moving
      <4>2. /\ u.pc = k.pc /\ u.tag = k.tag /\ u.quiet = SameTag(tag)
            /\ u.from = k.from /\ u.since = k.since /\ u.req = k.req
            /\ u.market = k.market /\ u.rate = k.rate
        BY <2>1, <2>5, <4>1
      <4>3. SameTag(tag) => k.tag = tag /\ k.quiet
        BY <2>4, <3>3
      <4> HIDE DEF k, u
      <4>4. CallInv(calls[d])'
        BY <2>1, <4>1, <4>2 DEF CallInv, Moving
      <4>5. QuietInv(calls[d])'
        <5>1. CASE ~SameTag(tag)
          BY <2>1, <4>1, <4>2, <5>1 DEF QuietInv
        <5>2. CASE SameTag(tag)
          <6>1. \A b : Fits(u, b) <=> Fits(k, b)
            BY <4>2 DEF Fits
          <6>2. calls'[d] = u /\ blockTag' = k.tag
            BY <2>1, <4>1, <4>3, <5>2
          <6> QED
            BY <4>1, <4>2, <4>3, <5>2, <6>1, <6>2 DEF QuietInv, Moving, Fits
        <5> QED
          BY <5>1, <5>2
      <4> QED
        BY <4>4, <4>5
    <3> QED
      BY <3>1, <3>2, <3>3
  <2>9. ASSUME NEW d \in Calls, NEW e \in Calls PROVE PairInv(d, e)'
    <3>1. ASSUME NEW k \in Calls, InFlight(k)'
          PROVE  /\ calls'[k].quiet = SameTag(tag)
                 /\ SameTag(tag) => calls'[k].tag = tag
      <4>1. CASE k = c
        BY <2>2, <2>3, <4>1
      <4>2. CASE k # c
        <5>1. InFlight(k)
          BY <1>0, <2>1, <2>3, <2>5, <3>1, <4>2 DEF InFlight
        <5>2. calls'[k] = [calls[k] EXCEPT !.quiet = SameTag(tag)] /\ calls[k] \in CallStates
          BY <1>0, <2>3, <4>2, <5>1
        <5> QED
          BY <2>1, <2>4, <2>5, <5>1, <5>2
      <4> QED
        BY <4>1, <4>2
    <3> QED
      BY <3>1 DEF PairInv
  <2> QED
    BY <2>7, <2>8, <2>9 DEF IInv
<1>3. ASSUME NEW c \in Calls, Continue(c) PROVE IInv'
  <2> DEFINE k == calls[c]
  <2>0. k \in CallStates /\ CallInv(k) /\ QuietInv(k)
    BY <1>0 DEF IInv
  <2>1. CASE ReceiveLstAPYs(c)
    <3> DEFINE n == [k EXCEPT !.pc = "lst"]
    <3>1. /\ n \in CallStates /\ n.pc = "lst" /\ n.tag = k.tag /\ n.quiet = k.quiet
          /\ n.from = k.from /\ n.rate = k.rate
      BY <2>0 DEF CallStates
    <3>2. Moving(k) /\ calls' = [calls EXCEPT ![c] = n]
      BY <2>1 DEF ReceiveLstAPYs, Moving, Settled
    <3> HIDE DEF n, k
    <3>3. CallInv(n) /\ QuietInv(n)
      BY <2>0, <3>1, <3>2 DEF CallInv, QuietInv, Moving, Fits
    <3> QED
      BY <2>1, <3>1, <3>2, <3>3, OneCallStep DEF ReceiveLstAPYs, k
  <2>2. CASE SendMarkets(c)
    <3> DEFINE n == [k EXCEPT !.pc = "markets", !.req = blockTag, !.since = head]
    <3>1. /\ n \in CallStates /\ n.pc = "markets" /\ n.tag = k.tag /\ n.quiet = k.quiet
          /\ n.from = k.from /\ n.rate = k.rate /\ n.req = blockTag /\ n.since = head
      BY <1>0, <2>0 DEF CallStates
    <3>2. Moving(k) /\ calls' = [calls EXCEPT ![c] = n]
      BY <2>2 DEF SendMarkets, Moving, Settled
    <3>3. k.from <= head
      BY <2>0 DEF CallInv
    <3> HIDE DEF n, k
    <3>4. CallInv(n) /\ QuietInv(n)
      BY <2>0, <3>1, <3>2, <3>3 DEF CallInv, QuietInv, Moving, Fits
    <3> QED
      BY <1>0, <2>2, <3>1, <3>2, <3>4, OneCallStep DEF SendMarkets, k
  <2>3. CASE ReceiveMarkets(c)
    <3>1. PICK b \in AnswerBlocks(c) :
            calls' = [calls EXCEPT ![c] =
                        IF Readable(c, b)
                        THEN [@ EXCEPT !.pc = "rates", !.market = b, !.req = blockTag, !.since = head]
                        ELSE [@ EXCEPT !.pc = "rejected"]]
      BY <2>3 DEF ReceiveMarkets
    <3>2. b \in 1..head /\ b \in 0..MaxHead /\ Moving(k) /\ k.pc = "markets"
      <4>1. k.pc = "markets" /\ 1 <= k.from /\ k.from <= k.since
        BY <2>0, <2>3 DEF ReceiveMarkets, CallInv, Moving, Settled
      <4> QED
        BY <1>0, <2>0, <4>1, AnswerBlocksType DEF Moving, Settled, CallStates, Latest
    <3>3. k.quiet => Fits(k, b)
      BY <1>0, <2>0, <3>2, AnswerBlocksType DEF CallInv, QuietInv, Fits, CallStates, Latest
    <3>4. CASE Readable(c, b)
      <4> DEFINE n == [k EXCEPT !.pc = "rates", !.market = b, !.req = blockTag, !.since = head]
      <4>1. /\ n \in CallStates /\ n.pc = "rates" /\ n.tag = k.tag /\ n.quiet = k.quiet
            /\ n.from = k.from /\ n.rate = k.rate /\ n.req = blockTag /\ n.since = head
            /\ n.market = b
        BY <1>0, <2>0, <3>2 DEF CallStates
      <4>2. calls' = [calls EXCEPT ![c] = n]
        BY <3>1, <3>4
      <4>3. k.from <= head
        BY <2>0 DEF CallInv
      <4> HIDE DEF n, k
      <4>4. CallInv(n) /\ QuietInv(n)
        BY <2>0, <3>2, <3>3, <4>1, <4>3 DEF CallInv, QuietInv, Moving, Fits
      <4> QED
        BY <1>0, <2>3, <3>2, <4>1, <4>2, <4>4, OneCallStep DEF ReceiveMarkets, k
    <3>5. CASE ~Readable(c, b)
      <4> DEFINE n == [k EXCEPT !.pc = "rejected"]
      <4>1. /\ n \in CallStates /\ n.pc = "rejected" /\ n.tag = k.tag /\ n.quiet = k.quiet
            /\ n.from = k.from /\ n.rate = k.rate
        BY <2>0 DEF CallStates
      <4>2. calls' = [calls EXCEPT ![c] = n]
        BY <3>1, <3>5
      <4> HIDE DEF n, k
      <4>3. CallInv(n) /\ QuietInv(n)
        BY <2>0, <4>1 DEF CallInv, QuietInv, Moving, Settled
      <4> QED
        BY <1>0, <2>3, <3>2, <4>1, <4>2, <4>3, OneCallStep DEF ReceiveMarkets, k
    <3> QED
      BY <3>4, <3>5
  <2>4. ASSUME NEW m \in Markets, ReceiveRate(c, m) PROVE IInv'
    <3>1. PICK b \in AnswerBlocks(c) :
            calls' = [calls EXCEPT ![c] =
                        [@ EXCEPT !.rate[m] = b,
                                  !.pc = IF \A n \in calls[c].markets \ {m} : calls[c].rate[n] # 0
                                         THEN "done" ELSE "rates"]]
      BY <2>4 DEF ReceiveRate
    <3>2. b \in 0..MaxHead /\ b <= head /\ Moving(k) /\ k.pc = "rates"
      BY <1>0, <2>4, AnswerBlocksType DEF ReceiveRate, Moving, Settled
    <3>3. k.quiet => Fits(k, b)
      BY <1>0, <2>0, <3>2, AnswerBlocksType DEF CallInv, QuietInv, Fits, CallStates, Latest
    <3> DEFINE stage == IF \A n \in calls[c].markets \ {m} : calls[c].rate[n] # 0
                        THEN "done" ELSE "rates"
               n == [k EXCEPT !.rate[m] = b, !.pc = stage]
    <3>4. /\ n \in CallStates /\ n.pc \in {"rates", "done"} /\ n.tag = k.tag
          /\ n.quiet = k.quiet /\ n.from = k.from /\ n.req = k.req /\ n.since = k.since
          /\ n.market = k.market
          /\ \A l \in Markets : n.rate[l] = IF l = m THEN b ELSE k.rate[l]
      BY <2>0, <3>2 DEF CallStates
    <3>5. calls' = [calls EXCEPT ![c] = n]
      BY <3>1
    <3> HIDE DEF n, k
    <3>6. CallInv(n) /\ QuietInv(n)
      BY <2>0, <3>2, <3>3, <3>4 DEF CallInv, QuietInv, Moving, Settled, Fits
    <3> QED
      BY <1>0, <2>4, <3>2, <3>4, <3>5, <3>6, OneCallStep DEF ReceiveRate, k
  <2>5. CASE Reject(c)
    <3> DEFINE n == [k EXCEPT !.pc = "rejected"]
    <3>1. /\ n \in CallStates /\ n.pc = "rejected" /\ n.tag = k.tag /\ n.quiet = k.quiet
          /\ n.from = k.from /\ n.rate = k.rate
      BY <2>0 DEF CallStates
    <3>2. Moving(k) /\ calls' = [calls EXCEPT ![c] = n]
      BY <2>5 DEF Reject, Moving, Settled
    <3> HIDE DEF n, k
    <3>3. CallInv(n) /\ QuietInv(n)
      BY <2>0, <3>1 DEF CallInv, QuietInv, Moving, Settled
    <3> QED
      BY <1>0, <2>5, <3>1, <3>2, <3>3, OneCallStep DEF Reject, k
  <2> QED
    BY <1>3, <2>1, <2>2, <2>3, <2>4, <2>5 DEF Continue
<1>4. CASE UNCHANGED vars
  BY <1>0, <1>4 DEF vars, IInv, TypeOK, CallInv, QuietInv, PairInv, InFlight, Moving
<1> QED
  BY <1>1, <1>2, <1>3, <1>4 DEF Next

-----------------------------------------------------------------------------
\* The invariant holds in every state the program reaches, however calls and blocks
\* interleave.
THEOREM IInvHolds == Spec => []IInv
  BY InitIInv, NextIInv, PTL DEF Spec

\* Every variable keeps its type.
THEOREM TypeCorrect == Spec => []TypeOK
<1>1. IInv => TypeOK
  BY DEF IInv
<1> QED
  BY <1>1, IInvHolds, PTL

\* A call that waits for its answer is one in flight.
LEMMA AskedInFlight ==
    ASSUME TypeOK, NEW c \in Calls
    PROVE  ReadOf(c).stage = "asked" <=> InFlight(c)
BY DEF TypeOK, CallStates, ReadOf, Stage, InFlight, Settled

\* A call that is made is one more question of BlockRead, and makes the others disagree
\* exactly as BlockRead has it.
LEMMA AskStep ==
    ASSUME IInv, NEW c \in Calls, NEW tag \in TagsAsked,
           NEW markets \in {{m} : m \in Markets} \cup {Markets},
           GetPortfolios(c, tag, markets)
    PROVE  Reads!Ask(c, tag)
<1> DEFINE reads == [d \in Calls |-> ReadOf(d)]
<1>0. TypeOK /\ IInv'
  BY NextIInv DEF IInv, Next
<1>1. \A d \in Calls : Reads!Asked(d) <=> InFlight(d)
  BY <1>0, AskedInFlight DEF Reads!Asked
<1>2. Reads!Agree(tag) <=> SameTag(tag)
  BY <1>1 DEF Reads!Agree, SameTag, ReadOf
<1>3. ReadOf(c) = Reads!Idle
  <2>1. calls[c] = NewCall
    BY DEF IInv, CallInv, GetPortfolios
  <2> QED
    BY <2>1 DEF NewCall, ReadOf, Stage, Reads!Idle, Reads!Latest, Latest
<1>4. SameTag(tag) \in BOOLEAN
  BY DEF SameTag
<1>5. ASSUME NEW k \in Calls
      PROVE  ReadOf(k)' = IF k = c THEN [Reads!Idle EXCEPT !.stage = "asked", !.tag = tag,
                                                   !.from = head, !.agreed = Reads!Agree(tag)]
                          ELSE IF Reads!Asked(k) THEN [ReadOf(k) EXCEPT !.agreed = Reads!Agree(tag)]
                          ELSE ReadOf(k)
  <2>1. CASE k = c
    <3>1. /\ calls'[k].pc \in {"lst", "lstFetch"} /\ calls'[k].tag = tag
          /\ calls'[k].from = head /\ calls'[k].quiet = SameTag(tag)
      BY <2>1 DEF GetPortfolios, NewCall
    <3>2. ReadOf(k)' = [stage |-> "asked", tag |-> tag, from |-> head,
                        agreed |-> SameTag(tag), blocks |-> {}]
      BY <3>1 DEF ReadOf, Stage
    <3> QED
      BY <1>2, <1>4, <2>1, <3>2 DEF Reads!Idle, Reads!Agree
  <2>2. CASE k # c /\ InFlight(k)
    <3>1. calls'[k] = [calls[k] EXCEPT !.quiet = SameTag(tag)] /\ calls[k] \in CallStates
      BY <1>0, <2>2 DEF GetPortfolios, TypeOK
    <3>2. /\ calls'[k].pc = calls[k].pc /\ calls'[k].tag = calls[k].tag
          /\ calls'[k].from = calls[k].from /\ calls'[k].quiet = SameTag(tag)
          /\ calls[k].pc \notin {"idle", "done", "rejected"}
      BY <2>2, <3>1 DEF CallStates, InFlight, Settled
    <3>3. /\ ReadOf(k)' = [stage |-> "asked", tag |-> calls[k].tag, from |-> calls[k].from,
                           agreed |-> SameTag(tag), blocks |-> {}]
          /\ ReadOf(k) = [stage |-> "asked", tag |-> calls[k].tag, from |-> calls[k].from,
                          agreed |-> calls[k].quiet, blocks |-> {}]
      BY <3>2 DEF ReadOf, Stage
    <3>4. Reads!Agree(tag) = SameTag(tag)
      BY <1>2, <1>4 DEF Reads!Agree
    <3>5. [ReadOf(k) EXCEPT !.agreed = SameTag(tag)] = ReadOf(k)'
      BY <3>3
    <3> QED
      BY <1>1, <2>2, <3>4, <3>5
  <2>3. CASE k # c /\ ~InFlight(k)
    <3>1. calls'[k] = calls[k]
      BY <2>3 DEF GetPortfolios
    <3> QED
      BY <1>1, <2>3, <3>1 DEF ReadOf, Stage, BlocksRead
  <2> QED
    BY <2>1, <2>2, <2>3
<1> QED
  BY <1>3, <1>5 DEF Reads!Ask, Reads!Agree, Reads!Asked, GetPortfolios

\* A call that is continued is answered, fails, or goes on waiting.
LEMMA ContinueStep ==
    ASSUME IInv, NEW c \in Calls, Continue(c)
    PROVE  \/ \E blocks \in SUBSET (1..head) : Reads!Answer(c, blocks)
           \/ Reads!Fail(c)
           \/ UNCHANGED <<head, [d \in Calls |-> ReadOf(d)]>>
<1>0. /\ TypeOK /\ calls \in [Calls -> CallStates] /\ head' = head
      /\ CallInv(calls[c]) /\ QuietInv(calls[c]) /\ calls[c] \in CallStates
  BY DEF IInv, TypeOK, Continue, ReceiveLstAPYs, SendMarkets, ReceiveMarkets, ReceiveRate, Reject
<1>1. ASSUME NEW n, calls' = [calls EXCEPT ![c] = n]
      PROVE  \A d \in Calls : calls'[d] = IF d = c THEN n ELSE calls[d]
  BY <1>0, <1>1
<1>2. ASSUME NEW n, calls' = [calls EXCEPT ![c] = n], n.pc \in {"lst", "markets", "rates"},
             n.tag = calls[c].tag, n.from = calls[c].from, n.quiet = calls[c].quiet,
             InFlight(c)
      PROVE  UNCHANGED <<head, [d \in Calls |-> ReadOf(d)]>>
  <2>1. \A d \in Calls : ReadOf(d)' = ReadOf(d)
    BY <1>0, <1>1, <1>2 DEF ReadOf, Stage, InFlight, Settled, BlocksRead
  <2> QED
    BY <1>0, <2>1
<1>3. ASSUME NEW n, calls' = [calls EXCEPT ![c] = n], n.pc = "rejected",
             n.tag = calls[c].tag, n.from = calls[c].from, n.quiet = calls[c].quiet,
             InFlight(c)
      PROVE  Reads!Fail(c)
  <2>1. ReadOf(c).stage = "asked"
    BY <1>0, <1>3, AskedInFlight
  <2>2. \A d \in Calls : ReadOf(d)' = IF d = c THEN [ReadOf(d) EXCEPT !.stage = "failed"]
                                            ELSE ReadOf(d)
    BY <1>0, <1>1, <1>3 DEF ReadOf, Stage, InFlight, Settled, BlocksRead
  <2> QED
    BY <1>0, <2>1, <2>2 DEF Reads!Fail, Reads!Asked
<1>4. CASE ReceiveLstAPYs(c)
  <2>1. [calls[c] EXCEPT !.pc = "lst"].pc = "lst"
    BY <1>0 DEF CallStates
  <2> QED
    BY <1>0, <1>2, <1>4, <2>1 DEF ReceiveLstAPYs, InFlight, Settled, CallStates
<1>5. CASE SendMarkets(c)
  BY <1>0, <1>2, <1>5 DEF SendMarkets, InFlight, Settled, CallStates
<1>6. CASE ReceiveMarkets(c)
  BY <1>0, <1>2, <1>3, <1>6 DEF ReceiveMarkets, InFlight, Settled, CallStates
<1>7. ASSUME NEW m \in Markets, ReceiveRate(c, m)
      PROVE  \/ \E blocks \in SUBSET (1..head) : Reads!Answer(c, blocks)
             \/ UNCHANGED <<head, [d \in Calls |-> ReadOf(d)]>>
  <2> DEFINE k == calls[c]
             stage == IF \A l \in k.markets \ {m} : k.rate[l] # 0 THEN "done" ELSE "rates"
             n(b) == [k EXCEPT !.rate[m] = b, !.pc = stage]
  <2>1. PICK b \in AnswerBlocks(c) : calls' = [calls EXCEPT ![c] = n(b)]
    BY <1>7 DEF ReceiveRate
  <2>2. /\ InFlight(c) /\ k.pc = "rates" /\ k.since \in Nat /\ k.from \in Nat
        /\ k.market \in 1..head /\ k.tag \in Nat
    BY <1>0, <1>7 DEF ReceiveRate, InFlight, Settled, CallInv, CallStates, Tags
  <2>3. b \in 1..head /\ (k.quiet => Fits(k, b))
    BY <1>0, <2>2, AnswerBlocksType
       DEF CallInv, QuietInv, Moving, Settled, Fits, CallStates, Latest, TypeOK
  <2>4. /\ n(b).tag = k.tag /\ n(b).from = k.from /\ n(b).quiet = k.quiet
        /\ n(b).pc = stage /\ n(b).market = k.market /\ n(b).markets = k.markets
        /\ \A l \in Markets : n(b).rate[l] = IF l = m THEN b ELSE k.rate[l]
    BY <1>0 DEF CallStates
  <2>5. CASE stage = "rates"
    BY <1>2, <2>1, <2>2, <2>4, <2>5
  <2>6. CASE stage = "done"
    <3> DEFINE blocks == BlocksRead(n(b))
    <3>1. k.markets \subseteq Markets /\ \A l \in k.markets \ {m} : k.rate[l] \in 1..head
      BY <1>0, <2>6 DEF CallStates, CallInv, TypeOK
    <3>2. \A e \in blocks : e \in 1..head /\ (k.quiet => Fits(k, e))
      <4>1. k.quiet => Fits(k, k.market) /\ \A l \in k.markets \ {m} : Fits(k, k.rate[l])
        BY <1>0, <2>2, <3>1 DEF QuietInv, Moving, Settled
      <4> QED
        BY <2>2, <2>3, <2>4, <3>1, <4>1 DEF BlocksRead
    <3>3. k.market \in blocks
      BY <2>4 DEF BlocksRead
    <3>4. ReadOf(c) = [stage |-> "asked", tag |-> k.tag, from |-> k.from,
                       agreed |-> k.quiet, blocks |-> {}]
      BY <2>2 DEF ReadOf, Stage
    <3>5. ReadOf(c)' = [stage |-> "answered", tag |-> k.tag, from |-> k.from,
                        agreed |-> k.quiet, blocks |-> blocks]
      <4>1. calls'[c] = n(b)
        BY <1>1, <2>1
      <4> HIDE DEF k, n, stage
      <4>2. /\ calls'[c].pc = "done" /\ calls'[c].tag = k.tag /\ calls'[c].from = k.from
            /\ calls'[c].quiet = k.quiet /\ BlocksRead(calls'[c]) = blocks
        BY <2>4, <2>6, <4>1
      <4> QED
        BY <4>2 DEF ReadOf, Stage
    <3>6. \A d \in Calls : d # c => ReadOf(d)' = ReadOf(d)
      <4> HIDE DEF k, n, stage
      <4>1. \A d \in Calls : d # c => calls'[d] = calls[d]
        BY <1>1, <2>1
      <4> QED
        BY <4>1 DEF ReadOf, Stage, BlocksRead
    <3> HIDE DEF blocks, n, stage
    <3>7. Reads!Answer(c, blocks)
      <4>1. ReadOf(c).agreed => IF ReadOf(c).tag = Latest THEN blocks \subseteq ReadOf(c).from..head
                                                        ELSE blocks = {ReadOf(c).tag}
        BY <2>2, <3>2, <3>3, <3>4 DEF Fits, Latest
      <4> DEFINE f == [d \in Calls |-> ReadOf(d)]
                 r == [f[c] EXCEPT !.stage = "answered", !.blocks = blocks]
      <4>2. r = ReadOf(c)'
        <5>1. f[c] = [stage |-> "asked", tag |-> k.tag, from |-> k.from,
                      agreed |-> k.quiet, blocks |-> {}]
          BY <3>4
        <5> HIDE DEF f
        <5>2. [f[c] EXCEPT !.stage = "answered"] =
                [stage |-> "answered", tag |-> k.tag, from |-> k.from,
                 agreed |-> k.quiet, blocks |-> {}]
          BY <5>1
        <5>3. r = [[stage |-> "answered", tag |-> k.tag, from |-> k.from,
                    agreed |-> k.quiet, blocks |-> {}] EXCEPT !.blocks = blocks]
          BY <5>2
        <5> QED
          BY <3>5, <5>3
      <4> HIDE DEF r
      <4>3. f' = [f EXCEPT ![c] = r]
        BY <3>6, <4>2
      <4> QED
        BY <1>0, <3>3, <3>4, <4>1, <4>3 DEF Reads!Answer, Reads!Asked, Reads!Latest, Latest, r
    <3> QED
      BY <3>2, <3>7
  <2> QED
    BY <2>5, <2>6
<1>8. CASE Reject(c)
  BY <1>0, <1>3, <1>8 DEF Reject, InFlight, Settled, CallStates
<1> QED
  BY <1>4, <1>5, <1>6, <1>7, <1>8 DEF Continue

\* MorphoBlue implements BlockRead: however the reads of getPortfolio and getPortfolios
\* interleave with other calls and with the chain, each call is one read, answered once,
\* and wholly of the block asked for while no call for another block overlaps with it.
THEOREM CallsReadOneBlock == Spec => ReadsOneBlock
<1>1. Init => Reads!Init
  <2> SUFFICES ASSUME Init PROVE Reads!Init
    OBVIOUS
  <2>1. \A d \in Calls : ReadOf(d) = Reads!Idle
    BY DEF Init, NewCall, ReadOf, Stage, Reads!Idle, Reads!Latest, Latest
  <2> QED
    BY <2>1, ChainAssumption DEF Init, Reads!Init
<1>2. IInv /\ [Next]_vars => [Reads!Next]_<<head, [c \in Calls |-> ReadOf(c)]>>
  <2> SUFFICES ASSUME IInv, [Next]_vars PROVE [Reads!Next]_<<head, [c \in Calls |-> ReadOf(c)]>>
    OBVIOUS
  <2>1. CASE NewBlock
    BY <2>1 DEF NewBlock, Reads!Next, Reads!NewBlock, ReadOf, Stage, BlocksRead
  <2>2. ASSUME NEW c \in Calls, NEW tag \in TagsAsked,
               NEW markets \in {{m} : m \in Markets} \cup {Markets},
               GetPortfolios(c, tag, markets)
        PROVE  Reads!Next
    BY <2>2, AskStep, TagAssumption DEF Reads!Next, Tags
  <2>3. ASSUME NEW d \in Calls, Continue(d) PROVE [Reads!Next]_<<head, [c \in Calls |-> ReadOf(c)]>>
    BY <2>3, ContinueStep DEF Reads!Next
  <2>4. CASE UNCHANGED vars
    BY <2>4 DEF vars, ReadOf, Stage, BlocksRead
  <2> QED
    BY <2>1, <2>2, <2>3, <2>4 DEF Next
<1> QED
  BY <1>1, <1>2, IInvHolds, PTL DEF Spec, ReadsOneBlock, Reads!Spec

=============================================================================
