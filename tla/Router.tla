------------------------------- MODULE Router -------------------------------
(***************************************************************************)
(* A list of logics from the Adapter on its way through the user's wallet, *)
(* the estimate of the API and the Router's agent to the lending market.   *)
(* The Adapter plans from the portfolio; until the transaction runs the    *)
(* debts accrue interest; then the agent executes the logics one by one,   *)
(* swaps deliver anything down to their slippage, and protocol tokens      *)
(* arrive a few wei short.  Either every logic runs and the flash loan is  *)
(* repaid, and the draft becomes the position, or the transaction reverts. *)
(*                                                                         *)
(* Everything below the list of logics is outside the repository: it is    *)
(* modelled as the Adapter's code and comments take it to be.              *)
(***************************************************************************)
EXTENDS Adapter

CONSTANTS
    Positions,   \* the positions an account may start with
    Operations,  \* the operations the user may ask for
    Pairs,       \* the <<source token, destination token>> pairs asked for
    Withdrawals, \* the tokens positions are closed into
    Amounts,
    Zaps,        \* the <<token, amount>> pairs zapped into an opened position
    Slippages,
    NoRoutes,    \* the sets of pairs of wrapped tokens that may have no route
    Interest,    \* wei of interest on a debt until the transaction runs
    MaxShort     \* how many wei short a transferred protocol token may arrive

ASSUME RequestAssumption ==
    /\ Positions \subseteq Portfolios
    /\ Pairs \subseteq Tokens \X Tokens /\ Amounts \subseteq Nat
    /\ Zaps \subseteq Tokens \X Nat /\ Withdrawals \subseteq Tokens
ASSUME SlippageAssumption == Slippages \subseteq 0..BPS_BASE
ASSUME MarketAssumption == Interest \in Nat /\ MaxShort \in Nat

VARIABLES
    position,    \* the account's portfolio on the market
    request,     \* what the user asked for
    plan,        \* the OperationOutput
    pc,
    step,        \* the number of logics executed
    draft        \* the transaction so far

vars == <<position, request, plan, pc, step, draft>>

ReceiptTokens == {ProtocolToken[t] : t \in Tokens}
AgentTokens == Tokens \cup ReceiptTokens

\* What the lending pool takes back for a flash loan.
Due(loan) == TokenAmount(loan.token, loan.amount + (loan.amount * FlashLoanFeeBps) \div BPS_BASE)

NoFunds == [t \in AgentTokens |-> 0]

\* logics: what the transaction runs; position: the account's portfolio inside it;
\* agent: the balances of the agent; owed: the flash loan and its fee; exact: every
\* swap delivered what was quoted; short: wei that went missing in transfers.
Draft(logics, p, funds) ==
    [logics |-> logics, position |-> p, agent |-> funds, owed |-> 0, exact |-> TRUE, short |-> 0]

NoRequest == [op |-> "none", src |-> "none", dest |-> "none", amount |-> 0,
              zap |-> <<"none", 0>>, slippage |-> 0]

Init ==
    /\ position \in Positions
    /\ request = NoRequest
    /\ plan = NoOperation(position)
    /\ pc = "idle"
    /\ step = 0
    /\ draft = Draft(<<>>, position, NoFunds)

-----------------------------------------------------------------------------
(* Asking: one operation of the Adapter on the portfolio just read.  The     *)
(* protocol's can... methods say which Operations a market supports.         *)

\* What the awaited APIs may answer.
Nets == [noRoute : NoRoutes, flashLoan : BOOLEAN]

Ask(r, output) ==
    /\ pc = "idle"
    /\ r.op \in Operations
    /\ request' = r
    /\ plan' = output
    /\ pc' = "planned"
    /\ UNCHANGED <<position, step, draft>>

\* The request [op, src, dest, amount, slippage] without a zap.
Asked(op, pair, amount, slippage) ==
    [NoRequest EXCEPT !.op = op, !.src = pair[1], !.dest = pair[2], !.amount = amount,
                      !.slippage = slippage]

AskCollateralSwap(pair, n, slippage, net) ==
    Ask(Asked("collateralSwap", pair, n, slippage),
        CollateralSwap(position, pair[1], n, pair[2], slippage, net))
AskDebtSwap(pair, n, slippage, net) ==
    Ask(Asked("debtSwap", pair, n, slippage),
        DebtSwap(position, pair[1], n, pair[2], slippage, FALSE, net))
AskLeverageByCollateral(pair, n, slippage, net) ==
    Ask(Asked("leverageByCollateral", pair, n, slippage),
        LeverageByCollateral(position, pair[1], n, pair[2], slippage, net))
AskLeverageByDebt(pair, n, slippage, net) ==
    Ask(Asked("leverageByDebt", pair, n, slippage),
        LeverageByDebt(position, pair[1], n, pair[2], slippage, net))
AskDeleverage(pair, n, slippage, net) ==
    Ask(Asked("deleverage", pair, n, slippage),
        Deleverage(position, pair[1], n, pair[2], slippage, FALSE, net))
AskZapSupply(pair, n, slippage, net) ==
    Ask(Asked("zapSupply", pair, n, slippage),
        ZapSupply(position, pair[1], n, pair[2], slippage, net))
AskZapWithdraw(pair, n, slippage, net) ==
    Ask(Asked("zapWithdraw", pair, n, slippage),
        ZapWithdraw(position, pair[1], n, pair[2], slippage, net))
AskZapBorrow(pair, n, slippage, net) ==
    Ask(Asked("zapBorrow", pair, n, slippage),
        ZapBorrow(position, pair[1], n, pair[2], slippage, net))
AskZapRepay(pair, n, slippage, net) ==
    Ask(Asked("zapRepay", pair, n, slippage),
        ZapRepay(position, pair[1], n, pair[2], slippage, FALSE, net))

\* The pair is <<collateral, debt>>.
AskOpenByCollateral(pair, n, zap, slippage, net) ==
    Ask([Asked("openByCollateral", pair, n, slippage) EXCEPT !.zap = zap],
        OpenByCollateral(position, zap[1], zap[2], pair[1], n, pair[2], slippage, net))
AskOpenByDebt(pair, n, zap, slippage, net) ==
    Ask([Asked("openByDebt", pair, n, slippage) EXCEPT !.zap = zap],
        OpenByDebt(position, zap[1], zap[2], pair[1], pair[2], n, slippage, net))

AskClose(withdrawal, slippage, net) ==
    Ask([NoRequest EXCEPT !.op = "close", !.dest = withdrawal, !.slippage = slippage],
        Close(position, withdrawal, slippage, net))

AskOperation ==
    \E slippage \in Slippages, net \in Nets :
        \/ \E withdrawal \in Withdrawals : AskClose(withdrawal, slippage, net)
        \/ \E pair \in Pairs, n \in Amounts :
             \/ AskCollateralSwap(pair, n, slippage, net)
             \/ AskDebtSwap(pair, n, slippage, net)
             \/ AskLeverageByCollateral(pair, n, slippage, net)
             \/ AskLeverageByDebt(pair, n, slippage, net)
             \/ AskDeleverage(pair, n, slippage, net)
             \/ AskZapSupply(pair, n, slippage, net)
             \/ AskZapWithdraw(pair, n, slippage, net)
             \/ AskZapBorrow(pair, n, slippage, net)
             \/ AskZapRepay(pair, n, slippage, net)
             \/ \E zap \in Zaps : \/ AskOpenByCollateral(pair, n, zap, slippage, net)
                                  \/ AskOpenByDebt(pair, n, zap, slippage, net)

-----------------------------------------------------------------------------
(* The API's estimate and the transaction.                                   *)

\* A withdrawal of what is no receipt token takes nothing from the agent.
TakesInput(l) ==
    l.input # NoAmount /\ ~(l.kind = "withdraw" /\ l.output.token \notin AssetTokenized)

\* What a logic is to be given, and what it then has for those after it.  A swap is
\* counted with what the market quotes for it.
Owed(l) == IF l.kind = "loanRepay" THEN Due(l.input).amount ELSE l.input.amount
Provided(l) == IF l.kind = "swap" THEN SwapOutput(l.input.token, l.output.token, l.input.amount)
               ELSE l.output.amount

\* What a logic needs of its input when there is so much of it.
Needed(l, there) == IF l.bps /\ there > Owed(l) THEN there ELSE Owed(l)

\* One logic of the estimate: what it lacks of its input comes from the user.
CountLogic(acc, l) ==
    LET need == [t \in AgentTokens |->
                   IF TakesInput(l) /\ t = l.input.token THEN Needed(l, acc.have[t]) ELSE 0]
        lack == [t \in AgentTokens |-> IF need[t] > acc.have[t] THEN need[t] - acc.have[t] ELSE 0]
    IN  [funds |-> [t \in AgentTokens |-> acc.funds[t] + lack[t]],
         have |-> [t \in AgentTokens |-> acc.have[t] + lack[t] - need[t]
                                         + IF t = l.output.token THEN Provided(l) ELSE 0]]

\* What the list takes from the user: every input that nothing before it provides.
Estimate(logics) ==
    LET after[i \in 0..Len(logics)] ==
            IF i = 0 THEN [funds |-> NoFunds, have |-> NoFunds]
            ELSE CountLogic(after[i - 1], logics[i])
    IN  after[Len(logics)].funds

\* The user signs: the funds go to the agent, receipt tokens among them by a transfer
\* the API puts before the list.  Interest has come onto the debts.  A
\* front end offers no transaction for an output with an error.
SendTransaction ==
    /\ pc = "planned"
    /\ plan.error = "none"
    /\ plan.logics # <<>>
    /\ LET grown == NewPortfolio(position.supplies,
                        [b \in BorrowTokens |-> IF position.borrows[b] = 0 THEN 0
                                                ELSE position.borrows[b] + Interest])
           funds == Estimate(plan.logics)
           receipts == SetToSeq({r \in ReceiptTokens : funds[r] > 0})
           pulls == [i \in DOMAIN receipts |-> PullToken(TokenAmount(receipts[i], funds[receipts[i]]))]
       IN  /\ position' = grown
           /\ draft' = Draft(pulls \o plan.logics, grown,
                            [t \in AgentTokens |-> IF t \in ReceiptTokens THEN 0 ELSE funds[t]])
    /\ pc' = "running"
    /\ UNCHANGED <<request, plan, step>>

GiveAgent(d, a) == [d EXCEPT !.agent[a.token] = @ + a.amount]
TakeAgent(d, a) == [d EXCEPT !.agent[a.token] = @ - a.amount]
AgentHas(a) == a.amount > 0 /\ draft.agent[a.token] >= a.amount

\* The amount a logic takes from the agent.
Taken(l) == IF l.bps THEN TokenAmount(l.input.token, draft.agent[l.input.token]) ELSE l.input

\* The market's checks after a borrowing, and after a withdrawal.
WithinCapacity(p) == p.totals["capacity"] >= p.totals["borrowUSD"] * BPS_BASE
AboveLiquidation(p) == p.totals["borrowUSD"] = 0 \/ p.totals["limit"] >= p.totals["borrowUSD"] * BPS_BASE

\* The underlying token of a receipt token.
Underlying(r) == CHOOSE s \in SupplyTokens : ProtocolToken[s] = r

\* The borrow that a token repays: a native token and its wrapped one are one debt.
Debt(t) == CHOOSE b \in BorrowTokens : Same(b, t)

\* The drafts a logic may lead to; none if it reverts.
Swapped(l) ==
    LET quoted == SwapOutput(l.input.token, l.output.token, l.input.amount) IN
    {[GiveAgent(TakeAgent(draft, l.input), TokenAmount(l.output.token, n))
        EXCEPT !.exact = @ /\ n = quoted] : n \in {quoted, CalcSlippage(quoted, l.slippage)}}
Supplied(l) ==
    LET taken == Taken(l)
        left == TakeAgent(draft, taken)
    IN  IF ~ValidateSupplyCap(taken.token, taken.amount) THEN {}
        ELSE IF taken.token \in AssetTokenized THEN {GiveAgent(left, Receipt(taken))}
        ELSE {[left EXCEPT !.position = Supply(@, taken.token, taken.amount)]}
Withdrawn(l) ==
    LET taken == Taken(l)
        after == Withdraw(draft.position, l.output.token, l.output.amount)
    IN  IF l.output.token \in AssetTokenized
        THEN {GiveAgent(TakeAgent(draft, taken), TokenAmount(l.output.token, taken.amount))}
        ELSE IF ValidateWithdraw(draft.position, l.output.token, l.output.amount)
                /\ AboveLiquidation(after)
        THEN {GiveAgent([draft EXCEPT !.position = after], l.output)}
        ELSE {}
Pulled(l) ==
    LET s == Underlying(l.output.token)
        after == Withdraw(draft.position, s, l.output.amount)
    IN  IF ValidateWithdraw(draft.position, s, l.output.amount) /\ AboveLiquidation(after)
        THEN {[GiveAgent(draft, TokenAmount(l.output.token, l.output.amount - short))
                 EXCEPT !.position = after, !.short = @ + short] : short \in 0..MaxShort}
        ELSE {}
Borrowed(l) ==
    LET after == Borrow(draft.position, l.output.token, l.output.amount) IN
    IF ValidateBorrowCap(l.output.token, l.output.amount) /\ WithinCapacity(after)
    THEN {GiveAgent([draft EXCEPT !.position = after], l.output)} ELSE {}
Repaid(l) ==
    LET debt == Debt(l.input.token)
        n == SmallerOf(Taken(l).amount, draft.position.borrows[debt])
    IN  {TakeAgent([draft EXCEPT !.position = Repay(@, debt, n)], TokenAmount(l.input.token, n))}

Outcomes(l) ==
    IF TakesInput(l) /\ ~AgentHas(Taken(l)) THEN {}
    ELSE CASE l.kind = "loan" ->
                {GiveAgent([draft EXCEPT !.owed = @ + Due(l.output).amount], l.output)}
           [] l.kind = "loanRepay" ->
                IF AgentHas(Due(l.input))
                THEN {TakeAgent([draft EXCEPT !.owed = @ - Due(l.input).amount], Due(l.input))}
                ELSE {}
           [] l.kind = "swap" -> Swapped(l)
           [] l.kind = "supply" -> Supplied(l)
           [] l.kind = "withdraw" -> Withdrawn(l)
           [] l.kind = "pull" -> Pulled(l)
           [] l.kind = "borrow" -> Borrowed(l)
           [] l.kind = "repay" -> Repaid(l)
           [] l.kind = "send" ->
                {TakeAgent([draft EXCEPT !.position =
                              Supply(@, Underlying(l.input.token), Taken(l).amount)], Taken(l))}
           [] l.kind = "wrap" -> {GiveAgent(TakeAgent(draft, l.input), l.output)}

ExecuteLogic ==
    /\ pc = "running"
    /\ step < Len(draft.logics)
    /\ draft' \in Outcomes(draft.logics[step + 1])
    /\ step' = step + 1
    /\ UNCHANGED <<position, request, plan, pc>>

Revert ==
    /\ pc = "running"
    /\ IF step < Len(draft.logics) THEN Outcomes(draft.logics[step + 1]) = {} ELSE draft.owed > 0
    /\ pc' = "reverted"
    /\ UNCHANGED <<position, request, plan, step, draft>>

\* What is left with the agent is returned: receipt tokens are supplies again.
Returned(d) ==
    LET Return(p, s) == Supply(p, s, d.agent[ProtocolToken[s]])
    IN  FoldLeft(Return, d.position, SupplyOrder)

Commit ==
    /\ pc = "running"
    /\ step = Len(draft.logics)
    /\ draft.owed = 0
    /\ position' = Returned(draft)
    /\ pc' = "committed"
    /\ UNCHANGED <<request, plan, step, draft>>

Next == AskOperation \/ SendTransaction \/ ExecuteLogic \/ Revert \/ Commit

Spec == Init /\ [][Next]_vars

-----------------------------------------------------------------------------
(* Properties.                                                               *)

LogicKinds == {"loan", "loanRepay", "swap", "supply", "withdraw", "borrow", "repay",
               "send", "pull", "wrap"}

TypeOK ==
    /\ position \in Portfolios
    /\ pc \in {"idle", "planned", "running", "committed", "reverted"}
    /\ plan.afterPortfolio \in Portfolios
    /\ \A i \in DOMAIN plan.logics :
         /\ plan.logics[i].kind \in LogicKinds
         /\ {plan.logics[i].input, plan.logics[i].output}
              \subseteq [token : AgentTokens \cup {"none"}, amount : Nat]
    /\ draft.position \in Portfolios
    /\ draft.agent \in [AgentTokens -> Nat] /\ draft.owed \in Nat
    /\ step \in 0..Len(draft.logics)

Promised == pc = "planned" /\ plan.error = "none"
Places(kind) == {i \in DOMAIN plan.logics : plan.logics[i].kind = kind}

\* A list returned without an error repays every flash loan it takes, in the amount
\* it was taken, and does nothing on the market outside the loan.
LoansPaired ==
    Promised => \A i \in Places("loan") : \E j \in Places("loanRepay") :
        /\ plan.logics[i].output = plan.logics[j].input
        /\ \A k \in Places("supply") \cup Places("withdraw") \cup Places("borrow") \cup Places("repay") :
              i < k /\ k < j

Opens == {"openByCollateral", "openByDebt"}

\* What the operation tells the user it takes: nothing when it works with a flash
\* loan, else the amount zapped; a repayment takes what destAmount says, and with one
\* token on both sides the head-room of a full repayment on top.
Told(r, p, destAmount) ==
    CASE r.op = "zapSupply" -> TokenAmount(r.src, r.amount)
      [] r.op = "zapWithdraw" /\ r.src \in AssetTokenized ->
           TokenAmount(ProtocolToken[r.src], r.amount)
      [] r.op = "zapRepay" /\ Same(r.src, r.dest) ->
           TokenAmount(r.dest, RepayAmount(p, r.src, r.amount, 1, FALSE))
      [] r.op = "zapRepay" /\ ~Same(r.src, r.dest) -> TokenAmount(r.dest, destAmount)
      [] r.op \in Opens -> TokenAmount(r.zap[1], r.zap[2])
      [] OTHER -> NoAmount

ToldFunds ==
    LET told == Told(request, position, plan.destAmount)
    IN  [t \in AgentTokens |-> IF t = told.token THEN told.amount ELSE 0]

\* The position is closed into a token that it owes.
ClosesInto(r, p) == r.op = "close" /\ \E b \in BorrowTokens : p.borrows[b] > 0 /\ Same(b, r.dest)
ClosesIntoDebt == ClosesInto(request, position)

\* The list needs from the user's wallet exactly what the operation tells: every
\* other input is there when its logic runs, given the quotations.
FundsAsTold ==
    Promised /\ plan.logics # <<>> /\ ~ClosesIntoDebt => Estimate(plan.logics) = ToldFunds

\* The same for every close, as close's flash loan and its comments have it: the loan
\* pays all debts and the withdrawals pay the loan.
CloseTakesNothing ==
    Promised /\ plan.logics # <<>> /\ request.op = "close" => Estimate(plan.logics) = ToldFunds

\* The portfolio shown to the user keeps its debts within the borrow capacity, even
\* after the worst slippage.
WorstSlippage == IF request.slippage > DefaultSlippage THEN request.slippage ELSE DefaultSlippage
Roomy ==
    LET t == plan.afterPortfolio.totals IN
    (t["capacity"] \div BPS_BASE) * (BPS_BASE - WorstSlippage - 10) >= t["borrowUSD"] * BPS_BASE

OverCapTogether ==
    \E s \in SupplyTokens :
        LET more == plan.afterPortfolio.supplies[s] - position.supplies[s] IN
        more > 0 /\ ~ValidateSupplyCap(s, more)

\* A list returned without an error runs to its end unless the portfolio it shows is
\* too close to the limits: slippage, a few wei lost in transfers and interest do not
\* leave any logic without its input nor the flash loan unpaid.  A close that withdraws
\* every collateral has no room at all and is held to this only when its swaps deliver
\* what they were quoted; an opening supplies twice and holds each supply against the
\* market's cap, not their sum.
RunsAsPlanned ==
    pc = "reverted" => \/ ~Roomy
                       \/ request.op = "close" /\ ~draft.exact
                       \/ request.op \in Opens /\ OverCapTogether

\* How many wei the operations set aside for what goes missing in transfers.
SetAside == 2

\* An input that a logic takes in a fixed amount is there when its turn comes, and the
\* flash loan is repaid when the list ends, however far the swaps fall short and with
\* the wei lost that the operations set aside: what stops a list is a check of the
\* market or an empty balance, never an amount planned too high.  A close plans its
\* repayment on what its swaps are quoted, so it is held to this when they deliver it.
NothingMissing ==
    pc = "running" /\ draft.short <= SetAside
    /\ (request.op = "close" => draft.exact /\ draft.short = 0 /\ ~ClosesIntoDebt) =>
        IF step = Len(draft.logics) THEN draft.owed = 0
        ELSE LET l == draft.logics[step + 1] IN
             TakesInput(l) /\ ~l.bps => draft.agent[l.input.token] >= Owed(l)

\* Of every operation but a close: an output with an error holds no step on the market
\* and no flash loan.  A close is not covered, it returns the error of its last swap with
\* the list it has built so far, a loan and steps on the market among it.
FailedTouchNothing ==
    pc = "planned" /\ plan.error # "none" /\ request.op # "close" =>
        \A i \in DOMAIN plan.logics : plan.logics[i].kind = "swap"

Tolerates(slippage) == \A i \in Places("swap") : plan.logics[i].slippage = slippage

\* Every swap in the list states what the market quotes for its input and is made with
\* the slippage the caller set.  (An opening quotes the leverage from the portfolio the
\* zap leaves, and leverages with the default slippage.)
SwapsAsAsked ==
    Promised /\ request.op \notin Opens =>
        /\ Tolerates(request.slippage)
        /\ \A i \in Places("swap") :
             LET l == plan.logics[i] IN
             l.output.amount = SwapOutput(l.input.token, l.output.token, l.input.amount)

\* The slippage of the openings, as their doc comment on input.slippage has it.
OpenSlippageAsAsked == Promised /\ request.op \in Opens => Tolerates(request.slippage)

-----------------------------------------------------------------------------
(* The list of logics implements the promise of the operation.              *)

Holdings(p) == [supplies |-> p.supplies, borrows |-> p.borrows]
Stage == CASE pc = "idle" -> "open" [] pc = "planned" -> "offered" [] pc = "running" -> "accepted"
           [] pc = "committed" -> "settled" [] pc = "reverted" -> "abandoned"

\* What a reversed quotation may be off by: it leaves the swap's cost out both ways.
Spread == IF ReverseQuotes THEN (2 * request.amount * SwapFeeBps) \div BPS_BASE ELSE 0

\* The most that quotations, and swaps that fall short, take from a balance.
Margin ==
    LET all == request.amount + request.zap[2]
        lost == IF draft.exact THEN 0 ELSE 2 * (all - CalcSlippage(all, WorstSlippage)) + 1
    IN  Spread + lost

Promises == INSTANCE Promise
    WITH Supplies <- SupplyTokens, Borrows <- BorrowTokens, Accrued <- Interest,
         Tolerance <- 2 * MaxShort, account <- Holdings(position),
         offer <- Holdings(plan.afterPortfolio), margin <- Margin,
         exact <- draft.exact, stage <- Stage

\* Whatever happens between, the account goes from what it held (and the interest on
\* it) to the portfolio the operation showed, in one step and up to what slippage and
\* transfers take; or it is left alone.  What afterPortfolio and destAmount promise.
KeepsPromise == Promises!Spec
=============================================================================
