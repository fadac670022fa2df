------------------------------ MODULE Adapter ------------------------------
(***************************************************************************)
(* The operations of the lending Adapter as operators: from a portfolio,   *)
(* the caller's tokens and amounts and the quotations they await, each     *)
(* computes an OperationOutput (destAmount, afterPortfolio, error, logics).*)
(* An operation shares nothing with another one but the portfolio it is    *)
(* handed, which it clones, so its awaits need no interleaving here: what  *)
(* the APIs answer is the argument net.                                    *)
(*                                                                         *)
(* The lists it returns are run by the Router (module Router).             *)
(***************************************************************************)
EXTENDS Portfolio, TokenMath, SequencesExt

CONSTANTS
    Wrapped,          \* Wrapped[t]: the wrapped token of a native one, else t
    ProtocolToken,    \* ProtocolToken[t]: the receipt token of a supply (aToken)
    AssetTokenized,   \* the tokens whose supply is a transferable receipt token
    SupplyOrder, BorrowOrder,  \* portfolio.supplies, portfolio.borrows
    SwapFeeBps,       \* what a swap costs against the oracle price
    FlashLoanFeeBps,
    ReverseQuotes     \* the swapper has no exact-out quote and asks for the reverse

ASSUME ListAssumption ==
    /\ SupplyOrder \in Seq(SupplyTokens) /\ BorrowOrder \in Seq(BorrowTokens)
    /\ \A s \in SupplyTokens : Contains(SupplyOrder, s)
    /\ \A b \in BorrowTokens : Contains(BorrowOrder, b)
ASSUME WrapAssumption ==
    /\ Wrapped \in [Tokens -> Tokens]
    /\ \A t \in Tokens : /\ Wrapped[Wrapped[t]] = Wrapped[t] /\ Wrapped[Unwrapped[t]] = Wrapped[t]
                         /\ Unwrapped[Wrapped[t]] = Unwrapped[t]
\* A native token and its wrapped one are one reserve, and its receipt token is none.
ASSUME ReceiptAssumption ==
    \A t \in Tokens :
        /\ t \in AssetTokenized <=> Wrapped[t] \in AssetTokenized
        /\ ProtocolToken[t] = ProtocolToken[Wrapped[t]]
        /\ ProtocolToken[t] \notin Tokens /\ "none" \notin {t, ProtocolToken[t]}
\* What is swapped has a price, and a swap delivers something.
ASSUME QuoteAssumption == \A t \in Tokens : Price[t] > 0
ASSUME FeeAssumption ==
    SwapFeeBps \in 0..(BPS_BASE - 1) /\ FlashLoanFeeBps \in 0..BPS_BASE /\ ReverseQuotes \in BOOLEAN

DefaultSlippage == 100

Same(t, u) == Wrapped[t] = Wrapped[u]

TokenAmount(t, n) == [token |-> t, amount |-> n]
NoAmount == TokenAmount("none", 0)

-----------------------------------------------------------------------------
(* Logics.  bps: balanceBps is set to BPS_BASE, the Router takes the agent's *)
(* whole balance of the input token instead of the amount.                   *)

Logic(kind, input, output, bps, slippage) ==
    [kind |-> kind, input |-> input, output |-> output, bps |-> bps, slippage |-> slippage]

Receipt(a) == TokenAmount(ProtocolToken[a.token], a.amount)

Loan(loan) == Logic("loan", NoAmount, loan, FALSE, 0)
LoanRepay(loan) == Logic("loanRepay", loan, NoAmount, FALSE, 0)
SwapToken(q) == Logic("swap", q.input, q.output, FALSE, q.slippage)
\* mutants: the amount is fixed before the swap or the transfer that delivers it
SupplyLogic_Fixed(input, bps) == Logic("supply", input, Receipt(input), FALSE, 0)
RepayLogic_Fixed(input, bps) == Logic("repay", input, NoAmount, FALSE, 0)
SupplyLogic(input, bps) == Logic("supply", input, Receipt(input), bps, 0)
WithdrawLogic(output, bps) == Logic("withdraw", Receipt(output), output, bps, 0)
BorrowLogic(output) == Logic("borrow", NoAmount, output, FALSE, 0)
RepayLogic(input, bps) == Logic("repay", input, NoAmount, bps, 0)
SendToken(input) == Logic("send", input, NoAmount, TRUE, 0)
PullToken(output) == Logic("pull", NoAmount, output, FALSE, 0)
WrapNative(input, output) == Logic("wrap", input, output, FALSE, 0)

-----------------------------------------------------------------------------
(* Quotations.  net.noRoute: the pairs a swapper finds no route for;         *)
(* net.flashLoan: the flash loan aggregator answers.                         *)

HasRoute(net, tokenIn, tokenOut) ==
    tokenIn # tokenOut /\ <<Wrapped[tokenIn], Wrapped[tokenOut]>> \notin net.noRoute

\* Exact in: the output at oracle prices less the swap's cost; wrapping is free.
SwapOutput(tokenIn, tokenOut, amount) ==
    IF Same(tokenIn, tokenOut) THEN amount
    ELSE (amount * Price[tokenIn] * (BPS_BASE - SwapFeeBps)) \div (Price[tokenOut] * BPS_BASE)

\* The input an exact-out quotation asks for.  OpenOcean quotes the reverse swap
\* exact in and exchanges the two amounts; ParaSwap quotes exact out.
SwapInput(tokenIn, tokenOut, amount) ==
    IF ReverseQuotes THEN SwapOutput(tokenOut, tokenIn, amount)
    ELSE LET wanted == amount * Price[tokenOut] * BPS_BASE
             unit == Price[tokenIn] * (BPS_BASE - SwapFeeBps)
         IN  (wanted + unit - 1) \div unit

QuoteIn(input, tokenOut, slippage) ==
    [input |-> input, slippage |-> slippage,
     output |-> TokenAmount(tokenOut, SwapOutput(input.token, tokenOut, input.amount))]

\* mutant: the exact-out quotation is not converted
QuoteOut_Unconverted(tokenIn, output, slippage) ==
    [input |-> TokenAmount(tokenIn, SwapInput(tokenIn, output.token, output.amount)),
     slippage |-> slippage, output |-> output]

\* An exact-out quotation converted to exact in by a second one.
QuoteOut(tokenIn, output, slippage) ==
    QuoteIn(TokenAmount(tokenIn, SwapInput(tokenIn, output.token, output.amount)),
            output.token, slippage)

\* mutant: the fee is forgotten
Repays_NoFee(loan) == loan

\* The flash loan aggregator's repays for given loans, and loans for given repays.
Repays(loan) == TokenAmount(loan.token, loan.amount + CalcFee(loan.amount, FlashLoanFeeBps, "floor"))
Loans(repay) == TokenAmount(repay.token, ReverseAmountWithFee(repay.amount, FlashLoanFeeBps))

-----------------------------------------------------------------------------
Output(destAmount, afterPortfolio, error, logics) ==
    [destAmount |-> destAmount, afterPortfolio |-> afterPortfolio,
     error |-> error, logics |-> logics]
NoOperation(p) == Output(0, p, "none", <<>>)
Failed(p, error) == Output(0, p, error, <<>>)

\* mutant: a full repayment is not scaled
RepayAmount_Unscaled(p, src, amount, scale, isRepayAll) == amount

\* A full repayment is scaled, a partial one is not.
RepayAmount(p, src, amount, scale, isRepayAll) ==
    IF isRepayAll \/ amount = p.borrows[FindBorrow(src)] THEN ScaleRepayAmount(amount, scale)
    ELSE amount

CollateralSwap(p, src, amount, dest, slippage, net) ==
    LET tokenized == src \in AssetTokenized
        withdrawn == Withdraw(p, FindSupply(src), amount)
        loan == Loans(TokenAmount(Wrapped[src], amount - (IF tokenized THEN 2 ELSE 0)))
        swap == QuoteIn(loan, Wrapped[dest], slippage)
        after == Supply(withdrawn, swap.output.token, swap.output.amount)
        output == TokenAmount(Wrapped[src], amount)
    IN  IF amount = 0 THEN NoOperation(p)
        ELSE IF ~(HasSupply(src) /\ HasSupply(dest)) THEN Failed(p, "UNSUPPORTED_TOKEN")
        ELSE IF ~ValidateWithdraw(p, src, amount) THEN Failed(withdrawn, "INSUFFICIENT_AMOUNT")
        ELSE IF ~net.flashLoan THEN Failed(withdrawn, "UNEXPECTED_ERROR")
        ELSE IF ~HasRoute(net, Wrapped[src], Wrapped[dest]) THEN Failed(withdrawn, "NO_ROUTE_FOUND")
        ELSE IF ~ValidateSupplyCap(dest, swap.output.amount)
             THEN Output(swap.output.amount, after, "SUPPLY_CAP_EXCEEDED", <<>>)
        ELSE Output(swap.output.amount, after, "none",
                <<Loan(loan), SwapToken(swap), SupplyLogic(swap.output, TRUE)>>
                \o (IF tokenized
                    THEN <<SendToken(Receipt(swap.output)), PullToken(Receipt(output))>>
                    ELSE <<>>)
                \o <<WithdrawLogic(output, tokenized), LoanRepay(loan)>>)

DebtSwap(p, src, amount, dest, slippage, isRepayAll, net) ==
    LET repaid == Repay(p, FindBorrow(src), amount)
        needed == RepayAmount(p, src, amount, slippage, isRepayAll)
        swap == QuoteOut(Wrapped[dest], TokenAmount(Wrapped[src], needed), slippage)
        borrowOutput == Repays(swap.input)
        after == Borrow(repaid, borrowOutput.token, borrowOutput.amount)
    IN  IF amount = 0 THEN NoOperation(p)
        ELSE IF ~(HasBorrow(src) /\ HasBorrow(dest)) THEN Failed(p, "UNSUPPORTED_TOKEN")
        ELSE IF ~ValidateRepay(p, src, amount) THEN Failed(repaid, "INSUFFICIENT_AMOUNT")
        ELSE IF ~HasRoute(net, Wrapped[dest], Wrapped[src]) THEN Failed(repaid, "NO_ROUTE_FOUND")
        ELSE IF ~net.flashLoan THEN Failed(repaid, "UNEXPECTED_ERROR")
        ELSE IF ~ValidateBorrowCap(dest, borrowOutput.amount)
             THEN Output(borrowOutput.amount, after, "BORROW_CAP_EXCEEDED", <<>>)
        ELSE Output(borrowOutput.amount, after, "none",
                <<Loan(swap.input), SwapToken(swap), RepayLogic(swap.output, TRUE),
                  BorrowLogic(borrowOutput), LoanRepay(swap.input)>>)

\* mutant: the loan is to be repaid before the borrowing that pays it
LeverageLogics_EarlyRepay(loan, swaps, supplyInput, borrowOutput) ==
    <<Loan(loan)>> \o swaps \o <<SupplyLogic(supplyInput, swaps # <<>>)>>
    \o <<LoanRepay(loan), BorrowLogic(borrowOutput)>>

\* The list both leverage operations return.
LeverageLogics(loan, swaps, supplyInput, borrowOutput) ==
    LET supply == SupplyLogic(supplyInput, swaps # <<>>)
        returnFunds == IF supplyInput.token \in AssetTokenized
                       THEN <<SendToken(supply.output)>> ELSE <<>>
    IN  <<Loan(loan)>> \o swaps \o <<supply>> \o returnFunds
        \o <<BorrowLogic(borrowOutput), LoanRepay(loan)>>

LeverageByCollateral(p, src, amount, dest, slippage, net) ==
    LET wanted == TokenAmount(Wrapped[src], amount)
        swap == QuoteOut(Wrapped[dest], wanted, slippage)
        loan == IF Same(src, dest) THEN wanted ELSE swap.input
        supplyInput == IF Same(src, dest) THEN wanted ELSE swap.output
        supplied == Supply(p, supplyInput.token, supplyInput.amount)
        borrowOutput == Repays(loan)
        after == Borrow(supplied, borrowOutput.token, borrowOutput.amount)
        swaps == IF Same(src, dest) THEN <<>> ELSE <<SwapToken(swap)>>
    IN  IF amount = 0 THEN NoOperation(p)
        ELSE IF ~(HasSupply(src) /\ HasBorrow(dest)) THEN Failed(p, "UNSUPPORTED_TOKEN")
        ELSE IF ~(Same(src, dest) \/ HasRoute(net, Wrapped[dest], Wrapped[src]))
             THEN Failed(p, "NO_ROUTE_FOUND")
        ELSE IF ~ValidateSupplyCap(src, supplyInput.amount)
             THEN Failed(supplied, "SUPPLY_CAP_EXCEEDED")
        ELSE IF ~net.flashLoan THEN Failed(supplied, "UNEXPECTED_ERROR")
        ELSE IF ~ValidateBorrowCap(dest, borrowOutput.amount)
             THEN Output(borrowOutput.amount, after, "BORROW_CAP_EXCEEDED", <<>>)
        ELSE Output(borrowOutput.amount, after, "none",
                    LeverageLogics(loan, swaps, supplyInput, borrowOutput))

LeverageByDebt(p, src, amount, dest, slippage, net) ==
    LET loan == TokenAmount(Wrapped[src], amount)
        borrowOutput == Repays(loan)
        borrowed == Borrow(p, borrowOutput.token, borrowOutput.amount)
        swap == QuoteIn(loan, Wrapped[dest], slippage)
        supplyInput == IF Same(src, dest) THEN TokenAmount(Wrapped[dest], amount) ELSE swap.output
        after == Supply(borrowed, supplyInput.token, supplyInput.amount)
        swaps == IF Same(src, dest) THEN <<>> ELSE <<SwapToken(swap)>>
    IN  IF amount = 0 THEN NoOperation(p)
        ELSE IF ~(HasBorrow(src) /\ HasSupply(dest)) THEN Failed(p, "UNSUPPORTED_TOKEN")
        ELSE IF ~net.flashLoan THEN Failed(p, "UNEXPECTED_ERROR")
        ELSE IF ~ValidateBorrowCap(src, borrowOutput.amount)
             THEN Failed(borrowed, "BORROW_CAP_EXCEEDED")
        ELSE IF ~(Same(src, dest) \/ HasRoute(net, Wrapped[src], Wrapped[dest]))
             THEN Failed(borrowed, "NO_ROUTE_FOUND")
        ELSE IF ~ValidateSupplyCap(dest, supplyInput.amount)
             THEN Output(supplyInput.amount, after, "SUPPLY_CAP_EXCEEDED", <<>>)
        ELSE Output(supplyInput.amount, after, "none",
                    LeverageLogics(loan, swaps, supplyInput, borrowOutput))

Deleverage(p, src, amount, dest, slippage, isRepayAll, net) ==
    LET repaid == Repay(p, FindBorrow(src), amount)
        needed == RepayAmount(p, src, amount, IF Same(src, dest) THEN 1 ELSE slippage, isRepayAll)
        swap == QuoteOut(Wrapped[dest], TokenAmount(Wrapped[src], needed), slippage)
        swaps == IF Same(src, dest) THEN <<>> ELSE <<SwapToken(swap)>>
        loan == IF Same(src, dest) THEN TokenAmount(Wrapped[dest], needed) ELSE swap.input
        repayInput == IF Same(src, dest) THEN TokenAmount(Wrapped[src], needed) ELSE swap.output
        tokenized == loan.token \in AssetTokenized
        withdrawOutput == [Repays(loan) EXCEPT !.amount = @ + IF tokenized THEN 2 ELSE 0]
        after == Withdraw(repaid, withdrawOutput.token, withdrawOutput.amount)
        addFunds == IF tokenized THEN <<PullToken(Receipt(withdrawOutput))>> ELSE <<>>
    IN  IF amount = 0 THEN NoOperation(p)
        ELSE IF ~(HasBorrow(src) /\ HasSupply(dest)) THEN Failed(p, "UNSUPPORTED_TOKEN")
        ELSE IF ~ValidateRepay(p, src, amount) THEN Failed(repaid, "INSUFFICIENT_AMOUNT")
        ELSE IF ~(Same(src, dest) \/ HasRoute(net, Wrapped[dest], Wrapped[src]))
             THEN Failed(repaid, "NO_ROUTE_FOUND")
        ELSE IF ~net.flashLoan THEN Failed(repaid, "UNEXPECTED_ERROR")
        ELSE IF ~ValidateWithdraw(p, dest, withdrawOutput.amount)
             THEN Output(withdrawOutput.amount, after, "INSUFFICIENT_AMOUNT", <<>>)
        ELSE Output(withdrawOutput.amount, after, "none",
                <<Loan(loan)>> \o swaps \o <<RepayLogic(repayInput, swaps # <<>>)>> \o addFunds
                \o <<WithdrawLogic(withdrawOutput, tokenized), LoanRepay(loan)>>)

-----------------------------------------------------------------------------
(* The zaps: one swap next to one step on the market, no flash loan.  What   *)
(* they push before an error stays in the list.                              *)

ZapSupply(p, src, amount, dest, slippage, net) ==
    LET swap == QuoteIn(TokenAmount(src, amount), Wrapped[dest], slippage)
        swaps == IF Same(src, dest) THEN <<>> ELSE <<SwapToken(swap)>>
        supplyInput == IF Same(src, dest) THEN TokenAmount(src, amount) ELSE swap.output
        after == Supply(p, supplyInput.token, supplyInput.amount)
    IN  IF amount = 0 THEN NoOperation(p)
        ELSE IF ~HasSupply(dest) THEN Failed(p, "UNSUPPORTED_TOKEN")
        ELSE IF ~(Same(src, dest) \/ HasRoute(net, src, Wrapped[dest]))
             THEN Failed(p, "NO_ROUTE_FOUND")
        ELSE IF ~ValidateSupplyCap(dest, supplyInput.amount)
             THEN Output(supplyInput.amount, after, "SUPPLY_CAP_EXCEEDED", swaps)
        ELSE Output(supplyInput.amount, after, "none",
                    swaps \o <<SupplyLogic(supplyInput, swaps # <<>>)>>)

ZapWithdraw(p, src, amount, dest, slippage, net) ==
    LET withdrawn == Withdraw(p, FindSupply(src), amount)
        output == TokenAmount(IF Same(src, dest) THEN dest ELSE Wrapped[src], amount)
        tokenized == output.token \in AssetTokenized
        swap == QuoteIn([output EXCEPT !.amount = @ - IF tokenized THEN 3 ELSE 0], dest, slippage)
        swaps == IF Same(src, dest) THEN <<>> ELSE <<SwapToken(swap)>>
    IN  IF amount = 0 THEN NoOperation(p)
        ELSE IF ~HasSupply(src) THEN Failed(p, "UNSUPPORTED_TOKEN")
        ELSE IF ~ValidateWithdraw(p, src, amount) THEN Failed(withdrawn, "INSUFFICIENT_AMOUNT")
        ELSE IF ~(Same(src, dest) \/ HasRoute(net, Wrapped[src], dest))
             THEN Failed(withdrawn, "NO_ROUTE_FOUND")
        ELSE Output(IF Same(src, dest) THEN amount ELSE swap.output.amount, withdrawn, "none",
                    <<WithdrawLogic(output, tokenized)>> \o swaps)

\* mutant: the borrow logic is pushed before anything is validated or quoted
ZapBorrow_PushedFirst(p, src, amount, dest, slippage, net) ==
    LET ok == HasBorrow(src) /\ ValidateBorrowCap(src, amount) IN
    IF amount = 0 THEN NoOperation(p)
    ELSE Output(amount, p, IF ok THEN "none" ELSE "BORROW_CAP_EXCEEDED",
                <<BorrowLogic(TokenAmount(Wrapped[src], amount))>>)

ZapBorrow(p, src, amount, dest, slippage, net) ==
    LET after == Borrow(p, src, amount)
        output == TokenAmount(IF Same(src, dest) THEN dest ELSE Wrapped[src], amount)
        swap == QuoteIn(output, dest, slippage)
        swaps == IF Same(src, dest) THEN <<>> ELSE <<SwapToken(swap)>>
    IN  IF amount = 0 THEN NoOperation(p)
        ELSE IF ~HasBorrow(src) THEN Failed(p, "UNSUPPORTED_TOKEN")
        ELSE IF ~ValidateBorrowMin(p, src, amount) THEN Failed(after, "BORROW_MIN")
        ELSE IF ~ValidateBorrowCap(src, amount) THEN Failed(after, "BORROW_CAP_EXCEEDED")
        ELSE IF ~(Same(src, dest) \/ HasRoute(net, Wrapped[src], dest))
             THEN Failed(after, "NO_ROUTE_FOUND")
        ELSE Output(IF Same(src, dest) THEN amount ELSE swap.output.amount, after, "none",
                    <<BorrowLogic(output)>> \o swaps)

\* With one token on both sides destAmount is the amount before it is scaled.
ZapRepay(p, src, amount, dest, slippage, isRepayAll, net) ==
    LET repaid == Repay(p, FindBorrow(src), amount)
        needed == RepayAmount(p, src, amount, IF Same(src, dest) THEN 1 ELSE slippage, isRepayAll)
        swap == QuoteOut(dest, TokenAmount(Wrapped[src], needed), slippage)
        swaps == IF Same(src, dest) THEN <<>> ELSE <<SwapToken(swap)>>
        repayInput == IF Same(src, dest) THEN TokenAmount(dest, needed) ELSE swap.output
    IN  IF amount = 0 THEN NoOperation(p)
        ELSE IF ~HasBorrow(src) THEN Failed(p, "UNSUPPORTED_TOKEN")
        ELSE IF ~ValidateRepay(p, src, amount) THEN Failed(repaid, "INSUFFICIENT_AMOUNT")
        ELSE IF ~(Same(src, dest) \/ HasRoute(net, dest, Wrapped[src]))
             THEN Failed(repaid, "NO_ROUTE_FOUND")
        ELSE Output(IF Same(src, dest) THEN amount ELSE swap.input.amount, repaid, "none",
                    swaps \o <<RepayLogic(repayInput, swaps # <<>>)>>)

-----------------------------------------------------------------------------
(* Opening and closing positions: compositions of the operations above.      *)

\* mutant: the swap of the loan is not counted
LogicIndex_NoSwap(collateral, debt) == 2

\* Where the code looks for the supply of a leverage (1 and 2 there, counted from 0).
LogicIndex(collateral, debt) == IF Same(collateral, debt) THEN 2 ELSE 3

\* The zapped amount joins the k-th logic of a leverage, whatever that is.  The input of
\* a supply is the very TokenAmount that is the output of the swap before it, so that
\* one grows as well.
AddZap(logics, k, zapped) ==
    [i \in DOMAIN logics |->
        IF i = k THEN [logics[i] EXCEPT !.input.amount = @ + zapped, !.bps = TRUE]
        ELSE IF i = k - 1 /\ logics[i].kind = "swap"
             THEN [logics[i] EXCEPT !.output.amount = @ + zapped]
        ELSE logics[i]]

\* What openByCollateral and openByDebt share: the zap, and a leverage by the one token
\* or the other on the portfolio with the zap supplied, run with the default slippage.
Open(p, zap, zapAmount, collateral, amount, debt, slippage, net, byDebt) ==
    LET swap == QuoteIn(TokenAmount(zap, zapAmount), Wrapped[collateral], slippage)
        direct == zap = Wrapped[collateral]
        swaps == IF direct THEN <<>> ELSE <<SwapToken(swap)>>
        zapped == IF direct THEN zapAmount ELSE swap.output.amount
        supplied == Supply(p, Wrapped[collateral], zapped)
        leverage ==
            IF byDebt
            THEN LeverageByDebt(supplied, Wrapped[debt], amount, Wrapped[collateral],
                                DefaultSlippage, net)
            ELSE LeverageByCollateral(supplied, Wrapped[collateral], amount, Wrapped[debt],
                                      DefaultSlippage, net)
    IN  IF zapAmount = 0 THEN NoOperation(p)
        ELSE IF ~(HasSupply(collateral) /\ HasBorrow(debt)) THEN Failed(p, "UNSUPPORTED_TOKEN")
        ELSE IF ~(direct \/ HasRoute(net, zap, Wrapped[collateral]))
             THEN Failed(p, "NO_ROUTE_FOUND")
        ELSE IF amount = 0 THEN Output(0, p, "none", swaps)
        ELSE IF leverage.error # "none" THEN Output(0, supplied, leverage.error, swaps)
        ELSE Output(leverage.destAmount + IF byDebt THEN zapped ELSE 0,
                    leverage.afterPortfolio, "none",
                    swaps \o AddZap(leverage.logics, LogicIndex(collateral, debt), zapped))

OpenByCollateral(p, zap, zapAmount, collateral, amount, debt, slippage, net) ==
    Open(p, zap, zapAmount, collateral, amount, debt, slippage, net, FALSE)

OpenByDebt(p, zap, zapAmount, collateral, debt, amount, slippage, net) ==
    Open(p, zap, zapAmount, collateral, amount, debt, slippage, net, TRUE)

\* The loop over the borrows of close: acc.out is the output so far, acc.sum what is to
\* be borrowed for it.
RepayEach(p, w, slippage, net, acc, b) ==
    LET zap == ZapRepay(acc.out.afterPortfolio, b, p.borrows[b], w, slippage, TRUE, net)
    IN  IF acc.out.error # "none" \/ p.borrows[b] = 0 THEN acc
        ELSE IF zap.error # "none" THEN [acc EXCEPT !.out.error = zap.error]
        ELSE [out |-> [acc.out EXCEPT !.logics = @ \o zap.logics,
                                      !.afterPortfolio = zap.afterPortfolio],
              sum |-> acc.sum + zap.destAmount]

CloseBorrows(p, w, slippage, net) ==
    LET after[i \in 0..Len(BorrowOrder)] ==
            IF i = 0 THEN [out |-> NoOperation(p), sum |-> 0]
            ELSE RepayEach(p, w, slippage, net, after[i - 1], BorrowOrder[i])
    IN  after[Len(BorrowOrder)]

\* The loop over the supplies: each is withdrawn in full, and swapped if need be.
WithdrawEach(p, w, slippage, net, acc, s) ==
    LET balance == p.supplies[s]
        zap == ZapWithdraw(acc.out.afterPortfolio, s, balance, w, slippage, net)
        addFunds == IF s \in AssetTokenized THEN <<PullToken(zap.logics[1].input)>> ELSE <<>>
    IN  IF acc.out.error # "none" \/ balance = 0 THEN acc
        ELSE IF zap.error # "none" THEN [acc EXCEPT !.out.error = zap.error]
        ELSE [out |-> [acc.out EXCEPT !.logics = @ \o addFunds \o zap.logics,
                                      !.afterPortfolio = zap.afterPortfolio],
              sum |-> acc.sum + zap.destAmount]

CloseSupplies(out, w, slippage, net) ==
    LET after[i \in 0..Len(SupplyOrder)] ==
            IF i = 0 THEN [out |-> out, sum |-> 0]
            ELSE WithdrawEach(out.afterPortfolio, w, slippage, net, after[i - 1], SupplyOrder[i])
    IN  after[Len(SupplyOrder)]

\* The loan is repaid inside the branch that withdraws the supplies.
Close(p, withdrawal, slippage, net) ==
    LET w == Wrapped[withdrawal]
        indebted == p.totals["borrowUSD"] > 0
        repaid == IF indebted THEN CloseBorrows(p, w, slippage, net)
                  ELSE [out |-> NoOperation(p), sum |-> 0]
        loan == TokenAmount(w, repaid.sum)
        loaned == IF indebted THEN [repaid.out EXCEPT !.logics = <<Loan(loan)>> \o @]
                  ELSE repaid.out
        withdrawn == CloseSupplies(loaned, w, slippage, net)
        left == withdrawn.sum - IF indebted THEN Repays(loan).amount ELSE 0
        repayLoan == IF indebted THEN <<LoanRepay(loan)>> ELSE <<>>
        wrap == IF withdrawal # w /\ left > 0
                THEN <<WrapNative(TokenAmount(w, left), TokenAmount(withdrawal, left))>>
                ELSE <<>>
    IN  IF repaid.out.error # "none" THEN repaid.out
        ELSE IF indebted /\ ~net.flashLoan
             THEN [repaid.out EXCEPT !.error = "UNEXPECTED_ERROR"]
        ELSE IF p.totals["supplyUSD"] = 0 THEN loaned
        ELSE IF withdrawn.out.error # "none" THEN withdrawn.out
        ELSE [withdrawn.out EXCEPT !.destAmount = left, !.logics = @ \o repayLoan \o wrap]
=============================================================================
