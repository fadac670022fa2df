----------------------------- MODULE Portfolio -----------------------------
(***************************************************************************)
(* The Portfolio class of the lending package as operators on values: what *)
(* its constructor computes, what supply, withdraw, borrow and repay do to *)
(* the balances and to the running totals, the limits it validates and the *)
(* figures it derives.                                                     *)
(*                                                                         *)
(* Amounts are natural numbers of smallest units, and prices, ltv and so   *)
(* on natural numbers too (percentages in basis points).  The gross APYs   *)
(* are integers: that of a borrow is its rate less what its token earns by *)
(* itself.  The class adds, subtracts and multiplies with BigNumber.js,    *)
(* which is exact.                                                         *)
(***************************************************************************)
EXTENDS Integers, FiniteSets, Functions

CONSTANTS
    Tokens,         \* every token, native and wrapped
    Unwrapped,      \* Unwrapped[t]: the native token of a wrapped one, else t
    SupplyTokens,   \* the tokens of the market's supplies
    BorrowTokens,   \* the tokens of the market's borrows
    Price,          \* USD price of each token
    SupplyAPY, BorrowAPY,  \* grossApy
    Collateral,     \* the supplies with usageAsCollateralEnabled
    LTV, Threshold, \* in basis points
    SupplyCap, TotalSupply, BorrowCap, TotalBorrow, BorrowMin  \* cap 0: no cap

ASSUME TokenAssumption ==
    /\ IsFiniteSet(Tokens)
    /\ Unwrapped \in [Tokens -> Tokens]
    /\ \A t \in Tokens : Unwrapped[Unwrapped[t]] = Unwrapped[t]
    /\ SupplyTokens \subseteq Tokens /\ BorrowTokens \subseteq Tokens
    /\ Collateral \subseteq SupplyTokens
ASSUME FigureAssumption ==
    /\ {Price, LTV, Threshold} \subseteq [Tokens -> Nat]
    /\ {SupplyAPY, BorrowAPY} \subseteq [Tokens -> Int]
    /\ {SupplyCap, TotalSupply, BorrowCap, TotalBorrow, BorrowMin} \subseteq [Tokens -> Nat]

\* The running totals: totalSupplyUSD, positiveProportion, totalCollateralUSD,
\* totalBorrowCapacityUSD, liquidationLimit, totalBorrowUSD, negativeProportion.
TotalNames == {"supplyUSD", "positive", "collateralUSD", "capacity", "limit",
               "borrowUSD", "negative"}
NoTotals == [n \in TotalNames |-> 0]
Plus(t, u) == [n \in TotalNames |-> t[n] + u[n]]
Minus(t, u) == [n \in TotalNames |-> t[n] - u[n]]

\* The totals that weigh APYs may be negative.
Weighed == {"positive", "negative"}

Portfolios ==
    {p \in [supplies : [SupplyTokens -> Nat], borrows : [BorrowTokens -> Nat],
            totals : [TotalNames -> Int]] :
       \A n \in TotalNames \ Weighed : p.totals[n] \in Nat}

\* What an amount of a supply, or of a borrow, contributes to the totals.
SupplyTotals(s, amount) ==
    LET usd == amount * Price[s]
        collateral == IF s \in Collateral THEN usd ELSE 0
    IN  [NoTotals EXCEPT !["supplyUSD"] = usd, !["positive"] = usd * SupplyAPY[s],
                         !["collateralUSD"] = collateral,
                         !["capacity"] = collateral * LTV[s],
                         !["limit"] = collateral * Threshold[s]]
BorrowTotals(b, amount) ==
    LET usd == amount * Price[b]
    IN  [NoTotals EXCEPT !["borrowUSD"] = usd, !["negative"] = usd * BorrowAPY[b]]

\* The constructor: the totals of the given balances.  clone() is this again.
NewPortfolio(supplies, borrows) ==
    LET supplied == FoldFunction(Plus, NoTotals,
                                 [s \in SupplyTokens |-> SupplyTotals(s, supplies[s])])
        borrowed == FoldFunction(Plus, NoTotals,
                                 [b \in BorrowTokens |-> BorrowTotals(b, borrows[b])])
    IN  [supplies |-> supplies, borrows |-> borrows, totals |-> Plus(supplied, borrowed)]
Clone(p) == NewPortfolio(p.supplies, p.borrows)

-----------------------------------------------------------------------------
(* Looking up an entry: the native form of the token first, then the token. *)

HasSupply(t) == {Unwrapped[t], t} \cap SupplyTokens # {}
FindSupply(t) == IF Unwrapped[t] \in SupplyTokens THEN Unwrapped[t] ELSE t
HasBorrow(t) == {Unwrapped[t], t} \cap BorrowTokens # {}
FindBorrow(t) == IF Unwrapped[t] \in BorrowTokens THEN Unwrapped[t] ELSE t

SmallerOf(a, b) == IF a > b THEN b ELSE a

(* The four operations.  A token the market does not list changes nothing; a *)
(* withdrawal or a repayment is cut to the balance.                          *)

\* Mutant: the borrow capacity is raised even by what is no collateral.
Supply_AnyCollateral(p, t, amount) ==
    LET s == FindSupply(t) IN
    IF HasSupply(t)
    THEN [p EXCEPT !.supplies[s] = @ + amount,
                   !.totals = Plus(@, [SupplyTotals(s, amount) EXCEPT
                                         !["capacity"] = amount * Price[s] * LTV[s]])]
    ELSE p

Supply(p, t, amount) ==
    LET s == FindSupply(t) IN
    IF HasSupply(t)
    THEN [p EXCEPT !.supplies[s] = @ + amount, !.totals = Plus(@, SupplyTotals(s, amount))]
    ELSE p

\* Mutant: the balance is cut, the totals are not.
Withdraw_TotalsUncut(p, t, amount) ==
    LET s == FindSupply(t) IN
    IF HasSupply(t)
    THEN [p EXCEPT !.supplies[s] = @ - SmallerOf(amount, p.supplies[s]),
                   !.totals = Minus(@, SupplyTotals(s, amount))]
    ELSE p

Withdraw(p, t, amount) ==
    LET s == FindSupply(t)
        taken == SmallerOf(amount, p.supplies[s])
    IN
    IF HasSupply(t)
    THEN [p EXCEPT !.supplies[s] = @ - taken, !.totals = Minus(@, SupplyTotals(s, taken))]
    ELSE p

Borrow(p, t, amount) ==
    LET b == FindBorrow(t) IN
    IF HasBorrow(t)
    THEN [p EXCEPT !.borrows[b] = @ + amount, !.totals = Plus(@, BorrowTotals(b, amount))]
    ELSE p

\* Mutant: more can be repaid than is owed.
Repay_Uncut(p, t, amount) ==
    LET b == FindBorrow(t) IN
    IF HasBorrow(t)
    THEN [p EXCEPT !.borrows[b] = @ - amount, !.totals = Minus(@, BorrowTotals(b, amount))]
    ELSE p

Repay(p, t, amount) ==
    LET b == FindBorrow(t)
        paid == SmallerOf(amount, p.borrows[b])
    IN
    IF HasBorrow(t)
    THEN [p EXCEPT !.borrows[b] = @ - paid, !.totals = Minus(@, BorrowTotals(b, paid))]
    ELSE p

-----------------------------------------------------------------------------
(* The limits an operation is validated against.                            *)

ValidateWithdraw(p, t, amount) == amount <= p.supplies[FindSupply(t)]
ValidateRepay(p, t, amount) == amount <= p.borrows[FindBorrow(t)]
ValidateSupplyCap(t, amount) ==
    LET s == FindSupply(t) IN SupplyCap[s] = 0 \/ TotalSupply[s] + amount <= SupplyCap[s]
ValidateBorrowCap(t, amount) ==
    LET b == FindBorrow(t) IN BorrowCap[b] = 0 \/ TotalBorrow[b] + amount <= BorrowCap[b]
ValidateBorrowMin(p, t, amount) ==
    LET b == FindBorrow(t) IN BorrowMin[b] = 0 \/ p.borrows[b] + amount >= BorrowMin[b]

(* Derived figures.  capacity and limit carry the factor 10000 of the basis *)
(* points.                                                                  *)

HasBorrowCapacity(p) == p.totals["capacity"] > p.totals["borrowUSD"] * 10000

\* healthRate is limit / borrowUSD, Infinity without debt; healthy is > 1.0001.
\* Without collateral the limit is 0 as well, so the average threshold the code
\* divides and multiplies by drops out.
IsHealthy(p) ==
    p.totals["borrowUSD"] = 0 \/ p.totals["limit"] > p.totals["borrowUSD"] * 10001

CanWithdraw(p) == p.totals["supplyUSD"] > 0 /\ IsHealthy(p)
CanBorrow(p) == p.totals["capacity"] > 0 /\ HasBorrowCapacity(p)
=============================================================================
