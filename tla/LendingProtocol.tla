-------------------------- MODULE LendingProtocol --------------------------
(***************************************************************************)
(* One instance of the Aave-style LendingProtocol class of the lending     *)
(* package, read by several getPortfolio calls that interleave at every    *)
(* await.  The four classes aave-v3, spark, aave-v2 and radiant-v2 share   *)
(* this control flow; they differ in how a user's supply balance is read   *)
(* (variable scaled, chosen at the start).                                 *)
(*                                                                         *)
(* The instance keeps three things that all calls share: the field         *)
(* blockTag, which setBlockTag overwrites and every contract read consults *)
(* when it is sent; the map _reserveDataMap, filled once and consulted by  *)
(* every later call; and the two token lists.  The LST APY table is static,*)
(* shared by every instance.  A value read from the chain is modelled by   *)
(* the block it was read at.                                               *)
(***************************************************************************)
EXTENDS Integers, FiniteSets

CONSTANTS
    Calls,      \* the getPortfolio calls made, each at most once
    NReserves,  \* length of reserveTokens
    ListedAt,   \* ListedAt[r]: the block from which r's contracts can be read
    FirstHead,  \* the newest block when the program starts
    MaxHead,    \* bound on the chain
    TagsAsked   \* TagsAsked[c]: the block tags call c may be made with

Latest == 0     \* an undefined blockTag: the node answers at its newest block

Reserves == 1..NReserves
Blocks == 1..MaxHead
Tags == Blocks \cup {Latest}

ASSUME ReserveAssumption ==
    /\ NReserves \in Nat \ {0}
    /\ ListedAt \in [Reserves -> Nat \ {0}]
ASSUME ChainAssumption ==
    /\ FirstHead \in Nat \ {0}
    /\ MaxHead \in Nat
    /\ FirstHead <= MaxHead
    \* every reserve the configuration names can be read now
    /\ \A r \in Reserves : ListedAt[r] <= FirstHead
ASSUME TagAssumption == TagsAsked \in [Calls -> SUBSET Tags]

VARIABLES
    scaled,          \* TRUE: aave-v3, spark; FALSE: aave-v2, radiant-v2
    head,            \* the newest block of the chain
    blockTag,        \* Protocol.blockTag
    reserveDataMap,  \* _reserveDataMap: block it was read at, reserves it holds
    tokenLists,      \* which of _supplyTokenList and _borrowTokenList are set
    lstAPYs,         \* Protocol.lstAPYs
    calls            \* the local state of each call

vars == <<scaled, head, blockTag, reserveDataMap, tokenLists, lstAPYs, calls>>

ReserveMaps == [block : 0..MaxHead, assets : SUBSET Reserves]
NoMap == [block |-> 0, assets |-> {}]

Pcs == {"idle", "reserves", "reservesRead", "prices", "pricesRead", "balances",
        "balancesRead", "index", "lst", "lstFetch", "supplyList", "supplyFetch",
        "borrowList", "borrowFetch", "done", "rejected"}

\* tag: the blockTag the caller asked for.  req, since: the blockTag of the
\* outstanding contract read and the newest block when it was sent.  reserve and
\* index: the map this call was handed by its first and its second use of
\* getReserveDataMap.  price, balance: the blocks those answers came from.
\* fetched (history): this call filled the map itself.  quiet (history): since the
\* instance was last without a call in flight, all calls asked for the same block.
CallStates == [pc : Pcs, tag : Tags, req : Tags, since : 0..MaxHead,
               reserve : ReserveMaps, price : 0..MaxHead, balance : 0..MaxHead,
               index : ReserveMaps, fetched : BOOLEAN, quiet : BOOLEAN]

NewCall == [pc |-> "idle", tag |-> Latest, req |-> Latest, since |-> 0,
            reserve |-> NoMap, price |-> 0, balance |-> 0,
            index |-> NoMap, fetched |-> FALSE, quiet |-> TRUE]

\* No contract read of the call is outstanding.
Answered(k) == [k EXCEPT !.req = Latest, !.since = 0]

\* The call ends in an exception and its locals are gone.
Failed(k) == [NewCall EXCEPT !.pc = "rejected", !.tag = k.tag, !.fetched = k.fetched]

Settled == {"done", "rejected"}
InFlight(c) == calls[c].pc \notin Settled \cup {"idle"}

Init ==
    /\ scaled \in BOOLEAN
    /\ head = FirstHead
    /\ blockTag = Latest
    /\ reserveDataMap = NoMap
    /\ tokenLists = {}
    /\ lstAPYs = "undefined"
    /\ calls = [c \in Calls |-> NewCall]

-----------------------------------------------------------------------------
(* Building blocks.                                                         *)

\* Continue call c at pc p.
Goto(c, p) == calls' = [calls EXCEPT ![c].pc = p]

\* Call c throws.
Fail(c) == calls' = [calls EXCEPT ![c] = Failed(@)]

\* Mutant: the read is sent without the blockTag.
Send_NoBlockTag(c, p) ==
    calls' = [calls EXCEPT ![c] = [@ EXCEPT !.pc = p, !.req = Latest, !.since = head]]

\* Send a contract read: its blockTag is the field's value at this moment.
Send(c, p) ==
    calls' = [calls EXCEPT ![c] = [@ EXCEPT !.pc = p, !.req = blockTag, !.since = head]]

\* Mutant: the answer may come from a block the chain does not have yet.
AnswerBlocks_Ahead(c) ==
    IF calls[c].req = Latest THEN calls[c].since..head + 1 ELSE {calls[c].req + 1}

\* The blocks the node may answer the outstanding read of call c from.
AnswerBlocks(c) ==
    IF calls[c].req = Latest THEN calls[c].since..head ELSE {calls[c].req} \cap 1..head

\* The reserves decoded from an answer at block b: the loop follows the order of
\* reserveTokens and throws at the first one that has no contract there.
Decoded(b) == {r \in Reserves : \A q \in 1..r : ListedAt[q] <= b}

\* Mutant: a read of a block the node has not seen is left waiting.
Reject_KnownBlocks(c) ==
    /\ calls[c].pc \in {"reserves", "prices", "balances", "supplyFetch", "borrowFetch"}
    /\ calls[c].req <= head
    /\ Fail(c)
    /\ UNCHANGED <<scaled, head, blockTag, reserveDataMap, tokenLists, lstAPYs>>

\* The node or the API answers with an error, or never heard of the block.
Reject(c) ==
    /\ calls[c].pc \in {"reserves", "prices", "balances", "supplyFetch", "borrowFetch"}
    /\ Fail(c)
    /\ UNCHANGED <<scaled, head, blockTag, reserveDataMap, tokenLists, lstAPYs>>

NewBlock ==
    /\ head < MaxHead
    /\ head' = head + 1
    /\ UNCHANGED <<scaled, blockTag, reserveDataMap, tokenLists, lstAPYs, calls>>

-----------------------------------------------------------------------------
(* A getPortfolio call, one action per stretch of code between two awaits.  *)

\* Mutant: the reserves are read at the newest block, whatever the caller asked for.
Entered_AtHead(tag, quiet) ==
    IF reserveDataMap # NoMap
    THEN [NewCall EXCEPT !.pc = "reservesRead", !.tag = tag, !.quiet = quiet,
                         !.reserve = reserveDataMap]
    ELSE [NewCall EXCEPT !.pc = "reserves", !.tag = tag, !.quiet = quiet,
                         !.since = head]

\* The record of a call that has just run up to its first await: a map that is
\* set, complete or not, is handed out; otherwise a read is sent.
Entered(tag, quiet) ==
    IF reserveDataMap # NoMap
    THEN [NewCall EXCEPT !.pc = "reservesRead", !.tag = tag, !.quiet = quiet,
                         !.reserve = reserveDataMap]
    ELSE [NewCall EXCEPT !.pc = "reserves", !.tag = tag, !.quiet = quiet,
                         !.req = tag, !.since = head]

\* All calls in flight asked for this block (for the history variable quiet).
SameTag(tag) == \A k \in Calls : InFlight(k) => calls[k].tag = tag /\ calls[k].quiet

\* Mutant: changing the blockTag drops the cached map.
GetPortfolio_DropsMap(c, tag) ==
    /\ calls[c].pc = "idle"
    /\ blockTag' = tag
    /\ reserveDataMap' = IF tag = blockTag THEN reserveDataMap ELSE NoMap
    /\ calls' = [calls EXCEPT ![c] = Entered(tag, SameTag(tag))]
    /\ UNCHANGED <<scaled, head, tokenLists, lstAPYs>>

GetPortfolio(c, tag) ==
    /\ calls[c].pc = "idle"
    /\ blockTag' = tag
    /\ calls' = [k \in Calls |->
                   IF k = c THEN Entered(tag, SameTag(tag))
                   ELSE IF InFlight(k) THEN [calls[k] EXCEPT !.quiet = SameTag(tag)]
                   ELSE calls[k]]
    /\ UNCHANGED <<scaled, head, reserveDataMap, tokenLists, lstAPYs>>

\* The answer to the read of the reserves.  The field is assigned before the
\* decoding loop, so an answer that cannot be decoded to its end leaves the
\* reserves decoded so far in it.
FillReserveDataMap(c) ==
    /\ calls[c].pc = "reserves"
    /\ \E b \in AnswerBlocks(c) :
         LET map == [block |-> b, assets |-> Decoded(b)] IN
         /\ reserveDataMap' = map
         /\ calls' = IF map.assets = Reserves
                     THEN [calls EXCEPT ![c] = [Answered(@) EXCEPT
                            !.pc = "reservesRead", !.reserve = map, !.fetched = TRUE]]
                     ELSE [calls EXCEPT ![c] = Failed(@)]
    /\ UNCHANGED <<scaled, head, blockTag, tokenLists, lstAPYs>>

SendPrices(c) ==
    /\ calls[c].pc = "reservesRead"
    /\ Send(c, "prices")
    /\ UNCHANGED <<scaled, head, blockTag, reserveDataMap, tokenLists, lstAPYs>>

ReceivePrices(c) ==
    /\ calls[c].pc = "prices"
    /\ \E b \in AnswerBlocks(c) :
         calls' = [calls EXCEPT ![c] = [Answered(@) EXCEPT !.pc = "pricesRead", !.price = b]]
    /\ UNCHANGED <<scaled, head, blockTag, reserveDataMap, tokenLists, lstAPYs>>

SendBalances(c) ==
    /\ calls[c].pc = "pricesRead"
    /\ Send(c, "balances")
    /\ UNCHANGED <<scaled, head, blockTag, reserveDataMap, tokenLists, lstAPYs>>

\* aave-v2, radiant-v2: balanceOf of every aToken, none may be missing.
ReceiveBalances(c) ==
    /\ ~scaled
    /\ calls[c].pc = "balances"
    /\ \E b \in AnswerBlocks(c) :
         calls' = IF Decoded(b) = Reserves
                  THEN [calls EXCEPT ![c] = [Answered(@) EXCEPT !.pc = "lst", !.balance = b]]
                  ELSE [calls EXCEPT ![c] = Failed(@)]
    /\ UNCHANGED <<scaled, head, blockTag, reserveDataMap, tokenLists, lstAPYs>>

\* aave-v3, spark: the answer holds scaled balances; the liquidity index they are
\* multiplied by comes from a second, awaited, use of getReserveDataMap.  The
\* field is set by then (CallInv in LendingProtocolProofs), so it
\* sends nothing.
ReceiveScaledBalances(c) ==
    /\ scaled
    /\ calls[c].pc = "balances"
    /\ \E b \in AnswerBlocks(c) :
         calls' = [calls EXCEPT ![c] = [Answered(@) EXCEPT !.pc = "balancesRead",
                                              !.balance = b, !.index = reserveDataMap]]
    /\ UNCHANGED <<scaled, head, blockTag, reserveDataMap, tokenLists, lstAPYs>>

\* Mutant: a reserve missing from the map is skipped.
ScaleBalances_Skips(c) ==
    /\ calls[c].pc = "balancesRead"
    /\ IF Decoded(calls[c].balance) = Reserves THEN Goto(c, "lst") ELSE Fail(c)
    /\ UNCHANGED <<scaled, head, blockTag, reserveDataMap, tokenLists, lstAPYs>>

\* The loop over reserveTokens destructures the index of every reserve: it throws
\* when the map it was handed lacks one, or an aToken could not be read.
ScaleBalances(c) ==
    /\ calls[c].pc = "balancesRead"
    /\ IF calls[c].index.assets = Reserves /\ Decoded(calls[c].balance) = Reserves
       THEN Goto(c, "lst") ELSE Fail(c)
    /\ UNCHANGED <<scaled, head, blockTag, reserveDataMap, tokenLists, lstAPYs>>

\* getLstTokenAPYMap: {} counts as set.
GetLstTokenAPYMap(c) ==
    /\ calls[c].pc = "lst"
    /\ Goto(c, IF lstAPYs # "undefined" THEN "supplyList" ELSE "lstFetch")
    /\ UNCHANGED <<scaled, head, blockTag, reserveDataMap, tokenLists, lstAPYs>>

\* The fetch never throws: a failure is stored as {}, over whatever is there.
ReceiveLstAPYs(c) ==
    /\ calls[c].pc = "lstFetch"
    /\ lstAPYs' \in {"loaded", "empty"}
    /\ Goto(c, "supplyList")
    /\ UNCHANGED <<scaled, head, blockTag, reserveDataMap, tokenLists>>

GetSupplyTokenList(c) ==
    /\ calls[c].pc = "supplyList"
    /\ Goto(c, IF "supply" \in tokenLists THEN "borrowList" ELSE "supplyFetch")
    /\ UNCHANGED <<scaled, head, blockTag, reserveDataMap, tokenLists, lstAPYs>>

ReceiveSupplyTokenList(c) ==
    /\ calls[c].pc = "supplyFetch"
    /\ tokenLists' = tokenLists \cup {"supply"}
    /\ Goto(c, "borrowList")
    /\ UNCHANGED <<scaled, head, blockTag, reserveDataMap, lstAPYs>>

\* With the last list at hand the portfolio is built and returned.
GetBorrowTokenList(c) ==
    /\ calls[c].pc = "borrowList"
    /\ Goto(c, IF "borrow" \in tokenLists THEN "done" ELSE "borrowFetch")
    /\ UNCHANGED <<scaled, head, blockTag, reserveDataMap, tokenLists, lstAPYs>>

ReceiveBorrowTokenList(c) ==
    /\ calls[c].pc = "borrowFetch"
    /\ tokenLists' = tokenLists \cup {"borrow"}
    /\ Goto(c, "done")
    /\ UNCHANGED <<scaled, head, blockTag, reserveDataMap, lstAPYs>>

\* Every await of call c comes back: the code goes on or the call is rejected.
Continue(c) ==
    \/ Reject(c)
    \/ FillReserveDataMap(c)
    \/ SendPrices(c)
    \/ ReceivePrices(c)
    \/ SendBalances(c)
    \/ ReceiveBalances(c)
    \/ ReceiveScaledBalances(c)
    \/ ScaleBalances(c)
    \/ GetLstTokenAPYMap(c)
    \/ ReceiveLstAPYs(c)
    \/ GetSupplyTokenList(c)
    \/ ReceiveSupplyTokenList(c)
    \/ GetBorrowTokenList(c)
    \/ ReceiveBorrowTokenList(c)

Next ==
    \/ NewBlock
    \/ \E c \in Calls : \/ \E tag \in TagsAsked[c] : GetPortfolio(c, tag)
                        \/ Continue(c)

Spec == Init /\ [][Next]_vars

\* The JavaScript event loop resumes every continuation whose promise has settled,
\* and the node and the APIs answer or fail: no call is left waiting for ever.
FairSpec == Spec /\ \A c \in Calls : WF_vars(Continue(c))

-----------------------------------------------------------------------------
(* Properties.                                                              *)

TypeOK ==
    /\ scaled \in BOOLEAN
    /\ head \in 1..MaxHead
    /\ blockTag \in Tags
    /\ reserveDataMap \in ReserveMaps
    /\ tokenLists \subseteq {"supply", "borrow"}
    /\ lstAPYs \in {"undefined", "empty", "loaded"}
    /\ calls \in [Calls -> CallStates]

Delivered(c) == calls[c].pc = "done"
Dated(c) == calls[c].tag # Latest

\* A portfolio asked for at a block, on an instance whose overlapping calls all
\* ask for that block, has its prices and its balances from that block; its two
\* uses of the reserve data are the same data; and if this call read the reserve
\* data itself, that is from the block too.  What getPortfolio's blockTag promises,
\* as far as the shared field and the shared map let it.
QuietSnapshot ==
    \A c \in Calls : Delivered(c) /\ Dated(c) /\ calls[c].quiet =>
        /\ calls[c].price = calls[c].tag
        /\ calls[c].balance = calls[c].tag
        /\ calls[c].fetched => calls[c].reserve.block = calls[c].tag
        /\ scaled => calls[c].index = calls[c].reserve

\* A portfolio lists every reserve of the configuration, so no position of the
\* account is missing from its totals.
CompletePortfolio ==
    \A c \in Calls : Delivered(c) => calls[c].reserve.assets = Reserves

\* A call that failed on a read it asked for at a block from before some reserve's
\* listing: such a read leaves a map cut short behind.
CutShort(d) == calls[d].pc = "rejected" /\ Dated(d) /\ Decoded(calls[d].tag) # Reserves

\* What it takes to deliver a portfolio that lacks a reserve.  In aave-v2 and
\* radiant-v2 one call whose read of the reserves was cut short is enough.  In
\* aave-v3 and spark it takes a third call besides, one that put a whole map in
\* place of the partial one: with the partial map at both uses the call throws.
PartialTakesOthers ==
    \A c \in Calls : Delivered(c) /\ calls[c].reserve.assets # Reserves =>
        \E d \in Calls : /\ CutShort(d)
                         /\ scaled => \E e \in Calls \ {c, d} : calls[e].fetched

\* When every call made so far asked for the same block, every portfolio is that
\* block's altogether, the reserve data that came from the cache included.
InstanceSnapshot ==
    \A t \in Blocks : (\A c \in Calls : calls[c].pc # "idle" => calls[c].tag = t) =>
        \A c \in Calls : Delivered(c) =>
            /\ {calls[c].reserve.block, calls[c].price, calls[c].balance} = {t}
            /\ scaled => calls[c].index = calls[c].reserve

\* A cached value has settled once it is there and no call is reading it any more:
\* within a burst of first calls a later answer still overwrites an earlier one.
MapSettled == reserveDataMap # NoMap /\ \A c \in Calls : calls[c].pc # "reserves"
LstSettled == lstAPYs # "undefined" /\ \A c \in Calls : calls[c].pc # "lstFetch"
ListSettled(list, fetch) == list \in tokenLists /\ \A c \in Calls : calls[c].pc # fetch

\* Once settled, a cached value is never read again and never changes, whatever block
\* later calls ask for: the map, the LST table and the two token lists.
CachesSettle ==
    [][/\ MapSettled => MapSettled' /\ reserveDataMap' = reserveDataMap
       /\ LstSettled => LstSettled' /\ lstAPYs' = lstAPYs
       /\ ListSettled("supply", "supplyFetch") => ListSettled("supply", "supplyFetch")'
       /\ ListSettled("borrow", "borrowFetch") => ListSettled("borrow", "borrowFetch")']_vars

\* Every getPortfolio call settles, with a portfolio or an exception: from some time
\* on no call is in flight.
Settles == <>[](\A c \in Calls : ~InFlight(c))

\* adapter.ts on getPortfolio's options.blockTag, taken at its word: prices and
\* balances are those of the block asked for, whatever other calls do meanwhile.
PricesAtBlockTag ==
    \A c \in Calls : Delivered(c) /\ Dated(c) =>
        calls[c].price = calls[c].tag /\ calls[c].balance = calls[c].tag
=============================================================================
