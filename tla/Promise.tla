------------------------------ MODULE Promise ------------------------------
(***************************************************************************)
(* What the Adapter promises a user, without any flash loan, swap or list  *)
(* of logics: an operation offers a portfolio, and then the account either *)
(* moves to that portfolio in one step, or nothing happens to it.          *)
(***************************************************************************)
EXTENDS Integers

CONSTANTS
    Supplies, Borrows,   \* the tokens an account may supply and borrow
    Accrued,             \* the interest that may come onto a debt meanwhile
    Tolerance            \* the wei a transfer may lose

VARIABLES
    account,   \* what the account holds: [supplies, borrows]
    offer,     \* the portfolio offered
    margin,    \* how far quotations and swaps may fall short of the offer
    exact,     \* no swap has fallen short of its quotation
    stage

vars == <<account, offer, margin, exact, stage>>

\* The account ends with no less supplied and no more owed than was offered.
Kept(after) ==
    /\ \A s \in Supplies : after.supplies[s] >= offer.supplies[s] - Tolerance - margin
    /\ \A b \in Borrows : after.borrows[b] <= offer.borrows[b] + Accrued + margin

\* A debt the offer shows as repaid in full is gone.
Cleared(after) ==
    exact => \A b \in Borrows : offer.borrows[b] = 0 => after.borrows[b] = 0

Init == stage = "open" /\ margin = 0 /\ exact = TRUE

Offer ==
    /\ stage = "open"
    /\ stage' = "offered"
    /\ UNCHANGED <<account, exact>>

Accrue ==
    /\ stage = "offered"
    /\ stage' = "accepted"
    /\ account'.supplies = account.supplies
    /\ \A b \in Borrows : account'.borrows[b] \in account.borrows[b]..account.borrows[b] + Accrued
    /\ UNCHANGED <<offer, margin, exact>>

\* A swap fell short.
FallShort ==
    /\ stage = "accepted"
    /\ margin' >= margin
    /\ exact' = FALSE
    /\ UNCHANGED <<account, offer, stage>>

Settle ==
    /\ stage = "accepted"
    /\ stage' = "settled"
    /\ Kept(account')
    /\ Cleared(account')
    /\ UNCHANGED <<offer, margin, exact>>

Abandon ==
    /\ stage = "accepted"
    /\ stage' = "abandoned"
    /\ UNCHANGED <<account, offer, margin, exact>>

Next == Offer \/ Accrue \/ FallShort \/ Settle \/ Abandon

Spec == Init /\ [][Next]_vars
=============================================================================
