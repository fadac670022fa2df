---------------------------- MODULE PortfolioOps ----------------------------
(***************************************************************************)
(* A portfolio object through any sequence of its four operations, as the  *)
(* adapter and a front end apply them to a clone.                          *)
(***************************************************************************)
EXTENDS Portfolio

CONSTANTS
    Amounts,     \* the amounts passed to an operation
    MaxBalance   \* bound on a balance

ASSUME AmountAssumption == Amounts \subseteq Nat /\ MaxBalance \in Nat

VARIABLE portfolio

Init == portfolio = NewPortfolio([s \in SupplyTokens |-> 0], [b \in BorrowTokens |-> 0])

DoSupply(t, amount) == portfolio' = Supply(portfolio, t, amount)
DoWithdraw(t, amount) == portfolio' = Withdraw(portfolio, t, amount)
DoBorrow(t, amount) == portfolio' = Borrow(portfolio, t, amount)
DoRepay(t, amount) == portfolio' = Repay(portfolio, t, amount)

WithinBound(p) ==
    /\ \A s \in SupplyTokens : p.supplies[s] <= MaxBalance
    /\ \A b \in BorrowTokens : p.borrows[b] <= MaxBalance

Next ==
    /\ \E t \in Tokens, amount \in Amounts :
         \/ DoSupply(t, amount)
         \/ DoWithdraw(t, amount)
         \/ DoBorrow(t, amount)
         \/ DoRepay(t, amount)
    /\ WithinBound(portfolio')

Spec == Init /\ [][Next]_portfolio

-----------------------------------------------------------------------------
TypeOK == portfolio \in Portfolios

\* The running totals are at every moment what the constructor would compute from
\* the balances: cloning a portfolio never changes a figure, however it got there.
TotalsMatchBalances == Clone(portfolio) = portfolio

\* canBorrow and isHealthy are computed from different totals, kept up to date
\* separately.  A portfolio that can still borrow has a health rate above 1 as long as
\* no supplied collateral has its ltv above its threshold; and it is healthy, which asks
\* for more than 1.0001, as long as the threshold of each is that much above the ltv.
\* Morpho Blue sets the two equal (morphoblue/lending-protocol.ts:167-168): there a
\* portfolio may still borrow and not be healthy.
SuppliedCollateral == {s \in Collateral : portfolio.supplies[s] > 0}
CanBorrowIsHealthy ==
    CanBorrow(portfolio) =>
        /\ (\A s \in SuppliedCollateral : Threshold[s] >= LTV[s]) =>
             portfolio.totals["limit"] > portfolio.totals["borrowUSD"] * 10000
        /\ (\A s \in SuppliedCollateral : Threshold[s] * 10000 >= LTV[s] * 10001) =>
             IsHealthy(portfolio)

\* The health rate, limit over debt, drops only when a supply shrinks or a debt grows.
HealthDropsOnlyByRisk ==
    [][portfolio'.totals["limit"] * portfolio.totals["borrowUSD"]
         < portfolio.totals["limit"] * portfolio'.totals["borrowUSD"] =>
         \/ \E s \in SupplyTokens : portfolio'.supplies[s] < portfolio.supplies[s]
         \/ \E b \in BorrowTokens : portfolio'.borrows[b] > portfolio.borrows[b]]_portfolio
=============================================================================
