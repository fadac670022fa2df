----------------------------- MODULE MorphoBlue -----------------------------
(***************************************************************************)
(* One instance of the Morpho Blue LendingProtocol, read by several calls  *)
(* of getPortfolio (one market) and getPortfolios (all of them).  A call   *)
(* reads the positions, markets and prices of its markets in one multicall *)
(* and, when that is decoded, sends one more read per market for its       *)
(* borrow rate, all at once.  It keeps nothing but the field blockTag,     *)
(* which every one of these reads consults when it is sent, and the LST    *)
(* APY table that all instances share.  A value is modelled by the block   *)
(* it was read at.                                                         *)
(***************************************************************************)
EXTENDS Integers, FiniteSets

CONSTANTS
    Calls,      \* the calls made, each at most once
    Markets,    \* the market ids of the configuration
    ListedAt,   \* ListedAt[m]: the block from which m's contracts can be read
    FirstHead,  \* the newest block when the program starts
    MaxHead,    \* bound on the chain
    TagsAsked   \* the block tags the callers use

Latest == 0     \* an undefined blockTag: the node answers at its newest block

Tags == 0..MaxHead

ASSUME MarketAssumption == Markets # {} /\ ListedAt \in [Markets -> Nat \ {0}]
ASSUME ChainAssumption ==
    FirstHead \in Nat \ {0} /\ MaxHead \in Nat /\ FirstHead <= MaxHead
ASSUME TagAssumption == TagsAsked \subseteq Tags

VARIABLES
    head,      \* the newest block of the chain
    blockTag,  \* Protocol.blockTag
    lstAPYs,   \* Protocol.lstAPYs
    calls      \* the local state of each call

vars == <<head, blockTag, lstAPYs, calls>>

\* tag: the blockTag the caller asked for; markets: the markets it asked for.
\* req, since: the blockTag of the outstanding reads and the newest block when they
\* were sent.  market: the block the multicall was answered from; rate[m]: the block
\* of m's borrow rate, 0 until it is there.  from, quiet (history): the newest block
\* when the call was made; since the instance was last without a call in flight, all
\* calls asked for the same block.
CallStates == [pc : {"idle", "lst", "lstFetch", "markets", "rates", "done", "rejected"},
               tag : Tags, markets : SUBSET Markets, req : Tags, since : 0..MaxHead,
               market : 0..MaxHead, rate : [Markets -> 0..MaxHead],
               from : 0..MaxHead, quiet : BOOLEAN]

NewCall == [pc |-> "idle", tag |-> Latest, markets |-> {}, req |-> Latest, since |-> 0,
            market |-> 0, rate |-> [m \in Markets |-> 0], from |-> 0, quiet |-> TRUE]

Settled == {"done", "rejected"}
InFlight(c) == calls[c].pc \notin Settled \cup {"idle"}

Init ==
    /\ head = FirstHead
    /\ blockTag = Latest
    /\ lstAPYs = "undefined"
    /\ calls = [c \in Calls |-> NewCall]

-----------------------------------------------------------------------------
\* The blocks the node may answer an outstanding read of call c from.
AnswerBlocks(c) ==
    IF calls[c].req = Latest THEN calls[c].since..head ELSE {calls[c].req} \cap 1..head

NewBlock ==
    /\ head < MaxHead
    /\ head' = head + 1
    /\ UNCHANGED <<blockTag, lstAPYs, calls>>

\* All calls in flight asked for this block (for the history variable quiet).
SameTag(tag) == \A k \in Calls : InFlight(k) => calls[k].tag = tag /\ calls[k].quiet

\* getPortfolio or getPortfolios of the Adapter: setBlockTag, and the call up to its
\* first await.
GetPortfolios(c, tag, markets) ==
    /\ calls[c].pc = "idle"
    /\ blockTag' = tag
    /\ calls' = [k \in Calls |->
                   IF k = c
                   THEN [NewCall EXCEPT !.pc = IF lstAPYs # "undefined" THEN "lst" ELSE "lstFetch",
                                        !.tag = tag, !.markets = markets,
                                        !.from = head, !.quiet = SameTag(tag)]
                   ELSE IF InFlight(k) THEN [calls[k] EXCEPT !.quiet = SameTag(tag)]
                   ELSE calls[k]]
    /\ UNCHANGED <<head, lstAPYs>>

\* Mutant: the promise is stored instead of what it resolves to.
ReceiveLstAPYs_NotAwaited(c) ==
    /\ calls[c].pc = "lstFetch"
    /\ lstAPYs' = "promise"
    /\ calls' = [calls EXCEPT ![c].pc = "lst"]
    /\ UNCHANGED <<head, blockTag>>

\* The fetch never throws: a failure is stored as {}, over whatever is there.
ReceiveLstAPYs(c) ==
    /\ calls[c].pc = "lstFetch"
    /\ lstAPYs' \in {"loaded", "empty"}
    /\ calls' = [calls EXCEPT ![c].pc = "lst"]
    /\ UNCHANGED <<head, blockTag>>

\* One multicall for all the markets asked for.
SendMarkets(c) ==
    /\ calls[c].pc = "lst"
    /\ calls' = [calls EXCEPT ![c] = [@ EXCEPT !.pc = "markets", !.req = blockTag, !.since = head]]
    /\ UNCHANGED <<head, blockTag, lstAPYs>>

Readable(c, b) == \A m \in calls[c].markets : ListedAt[m] <= b

\* Mutant: the borrow rates are asked for without the blockTag.
ReceiveMarkets_RatesOfHead(c) ==
    /\ calls[c].pc = "markets"
    /\ \E b \in AnswerBlocks(c) :
         calls' = [calls EXCEPT ![c] =
                     IF Readable(c, b)
                     THEN [@ EXCEPT !.pc = "rates", !.market = b, !.req = Latest, !.since = head]
                     ELSE [@ EXCEPT !.pc = "rejected"]]
    /\ UNCHANGED <<head, blockTag, lstAPYs>>

\* The callbacks of Promise.all run one after the other up to their await: each
\* decodes its market, or throws, and asks for the market's rate at the blockTag the
\* instance has now.
ReceiveMarkets(c) ==
    /\ calls[c].pc = "markets"
    /\ \E b \in AnswerBlocks(c) :
         calls' = [calls EXCEPT ![c] =
                     IF Readable(c, b)
                     THEN [@ EXCEPT !.pc = "rates", !.market = b, !.req = blockTag, !.since = head]
                     ELSE [@ EXCEPT !.pc = "rejected"]]
    /\ UNCHANGED <<head, blockTag, lstAPYs>>

\* The rate of one market is there; with the last one the portfolios are returned.
ReceiveRate(c, m) ==
    /\ calls[c].pc = "rates"
    /\ m \in calls[c].markets
    /\ calls[c].rate[m] = 0
    /\ \E b \in AnswerBlocks(c) :
         calls' = [calls EXCEPT ![c] =
                     [@ EXCEPT !.rate[m] = b,
                               !.pc = IF \A n \in calls[c].markets \ {m} : calls[c].rate[n] # 0
                                      THEN "done" ELSE "rates"]]
    /\ UNCHANGED <<head, blockTag, lstAPYs>>

\* Mutant: a failed rate leaves the call waiting for the others.
Reject_MarketsOnly(c) ==
    /\ calls[c].pc = "markets"
    /\ calls' = [calls EXCEPT ![c].pc = "rejected"]
    /\ UNCHANGED <<head, blockTag, lstAPYs>>

\* The node answers with an error, or never heard of the block.  One failed rate
\* rejects Promise.all; the answers to the others go nowhere.
Reject(c) ==
    /\ calls[c].pc \in {"markets", "rates"}
    /\ calls' = [calls EXCEPT ![c].pc = "rejected"]
    /\ UNCHANGED <<head, blockTag, lstAPYs>>

Continue(c) ==
    \/ ReceiveLstAPYs(c)
    \/ SendMarkets(c)
    \/ ReceiveMarkets(c)
    \/ \E m \in Markets : ReceiveRate(c, m)
    \/ Reject(c)

Next ==
    \/ NewBlock
    \/ \E c \in Calls :
         \/ \E tag \in TagsAsked, markets \in {{m} : m \in Markets} \cup {Markets} :
              GetPortfolios(c, tag, markets)
         \/ Continue(c)

Spec == Init /\ [][Next]_vars

\* Promises that have settled are resumed, and the node and the API answer or fail.
FairSpec == Spec /\ \A c \in Calls : WF_vars(Continue(c))

-----------------------------------------------------------------------------
(* Properties.                                                              *)

TypeOK ==
    /\ head \in 1..MaxHead
    /\ blockTag \in Tags
    /\ lstAPYs \in {"undefined", "empty", "loaded"}
    /\ calls \in [Calls -> CallStates]

\* The blocks a delivered portfolio is made of: its markets' and their rates'.
BlocksRead(k) == {k.market} \cup {k.rate[m] : m \in k.markets}

Stage(c) == CASE calls[c].pc = "idle" -> "idle" [] calls[c].pc = "done" -> "answered"
              [] calls[c].pc = "rejected" -> "failed" [] OTHER -> "asked"

ReadOf(c) == [stage |-> Stage(c), tag |-> calls[c].tag, from |-> calls[c].from,
              agreed |-> calls[c].quiet,
              blocks |-> IF calls[c].pc = "done" THEN BlocksRead(calls[c]) ELSE {}]

Reads == INSTANCE BlockRead WITH reads <- [c \in Calls |-> ReadOf(c)]

\* However its reads interleave with blocks and other calls, a call is one read of one
\* block, answered once: balances, prices and every borrow rate are of the block asked
\* for unless another call asks for another block meanwhile.
ReadsOneBlock == Reads!Spec

\* A call always settles, also when one of its rates fails.
Settles == \A c \in Calls : InFlight(c) ~> calls[c].pc \in Settled
=============================================================================
