------------------------- MODULE MCLendingProtocol -------------------------
(***************************************************************************)
(* LendingProtocol on a chain of three blocks with two reserves, the second*)
(* of which can be read from block 2 on.  The calls are numbered.          *)
(***************************************************************************)
EXTENDS LendingProtocol, TLC

MCListedAt == <<1, 2>>

\* Calls for the block to come, the first perhaps for the newest block instead and the
\* third for a block from before the second reserve's listing.
MCTags == <<{Latest, 3}, {3}, {1, 3}>>

\* Two calls, each for one of two blocks.
RaceTags == <<{2, 3}, {2, 3}>>
PartialTags == <<{Latest, 1}, {Latest, 1}>>
=============================================================================
