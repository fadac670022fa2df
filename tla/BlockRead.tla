------------------------------ MODULE BlockRead ------------------------------
(***************************************************************************)
(* What reading a portfolio at a block promises its caller, whatever reads *)
(* it takes inside.  A call asks for a block, or for the newest one, and   *)
(* is answered once or fails.  While all the calls in flight ask for the   *)
(* same, the whole answer is of the block asked for; of calls for the      *)
(* newest block, it is no older than the call.  Calls for different blocks *)
(* that overlap on one instance are promised nothing but an answer from    *)
(* the chain.                                                              *)
(***************************************************************************)
EXTENDS Integers

CONSTANTS Calls, MaxHead

VARIABLES head, reads

Latest == 0
Idle == [stage |-> "idle", tag |-> Latest, from |-> 0, agreed |-> TRUE, blocks |-> {}]

Asked(c) == reads[c].stage = "asked"

\* All calls in flight ask for this block.
Agree(tag) == \A k \in Calls : Asked(k) => reads[k].tag = tag /\ reads[k].agreed

Init ==
    /\ head \in 1..MaxHead
    /\ reads = [c \in Calls |-> Idle]

NewBlock ==
    /\ head' = head + 1
    /\ UNCHANGED reads

\* from: the newest block when the call is made.
Ask(c, tag) ==
    /\ reads[c] = Idle
    /\ reads' = [k \in Calls |->
                   IF k = c THEN [Idle EXCEPT !.stage = "asked", !.tag = tag, !.from = head,
                                              !.agreed = Agree(tag)]
                   ELSE IF Asked(k) THEN [reads[k] EXCEPT !.agreed = Agree(tag)]
                   ELSE reads[k]]
    /\ UNCHANGED head

\* blocks: the blocks the values of the answer are read at.
Answer(c, blocks) ==
    /\ Asked(c)
    /\ blocks # {}
    /\ reads[c].agreed => IF reads[c].tag = Latest THEN blocks \subseteq reads[c].from..head
                                                   ELSE blocks = {reads[c].tag}
    /\ reads' = [reads EXCEPT ![c] = [@ EXCEPT !.stage = "answered", !.blocks = blocks]]
    /\ UNCHANGED head

Fail(c) ==
    /\ Asked(c)
    /\ reads' = [reads EXCEPT ![c] = [@ EXCEPT !.stage = "failed"]]
    /\ UNCHANGED head

Next ==
    \/ NewBlock
    \/ \E c \in Calls : \/ \E tag \in 0..MaxHead : Ask(c, tag)
                        \/ \E blocks \in SUBSET (1..head) : Answer(c, blocks)
                        \/ Fail(c)

Spec == Init /\ [][Next]_<<head, reads>>
=============================================================================
