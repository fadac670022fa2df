---------------------------- MODULE RouterProofs ----------------------------
(***************************************************************************)
(* The arithmetic on amounts, and the lists of logics the Adapter returns, *)
(* for every market, portfolio, request and answer of the APIs: first that *)
(* loans are paired, swaps are quoted and failures hold nothing on the     *)
(* market, then what a list takes from the user's wallet, and that nothing *)
(* is missing when the agent runs it.                                      *)
(***************************************************************************)
EXTENDS Router, FoldLemmas

-----------------------------------------------------------------------------
(* Fees, slippage and the head-room of a repayment, for every amount.        *)

\* A flash loan reversed from the amount at hand can be repaid from it, in either
\* rounding mode: collateralSwap relies on it when it repays the loan with exactly
\* what it withdraws.
LEMMA ReversedLoanIsRepayable ==
    ASSUME NEW amount \in Nat, NEW feeBps \in Nat, NEW mode \in FeeRoundingModes
    PROVE  LET loan == ReverseAmountWithFee(amount, feeBps)
           IN  loan + CalcFee(loan, feeBps, mode) <= amount
<1> DEFINE loan == ReverseAmountWithFee(amount, feeBps)
           half == IF mode = "round" THEN BPS_BASE \div 2 ELSE 0
<1>1. loan \in Nat /\ (BPS_BASE + feeBps) * loan <= amount * BPS_BASE
  BY DivBounds DEF ReverseAmountWithFee, BPS_BASE
<1>2. half \in Nat /\ half < BPS_BASE
  BY DEF BPS_BASE
<1>3. amount - loan \in Nat
  <2>1. feeBps * loan \in Nat
    BY <1>1
  <2>2. BPS_BASE * loan <= amount * BPS_BASE
    BY <1>1, <2>1 DEF BPS_BASE
  <2> QED
    BY <1>1, <2>2 DEF BPS_BASE
<1>4. loan * feeBps + half < BPS_BASE * ((amount - loan) + 1)
  BY <1>1, <1>2 DEF BPS_BASE
<1>5. CalcFee(loan, feeBps, mode) \in Nat
  <2>1. loan * feeBps + half \in Nat
    BY <1>1, <1>2
  <2> QED
    BY <2>1, DivBounds DEF CalcFee, BPS_BASE
<1>6. CalcFee(loan, feeBps, mode) <= amount - loan
  BY <1>1, <1>2, <1>3, <1>4, DivAtMost DEF CalcFee, BPS_BASE
<1>7. loan + CalcFee(loan, feeBps, mode) <= amount
  BY <1>1, <1>5, <1>6
<1> QED
  BY <1>7

\* What is sent to repay all of a debt is never less than the debt, whatever the
\* scale: the debt the portfolio showed is covered even where floor rounding leaves
\* nothing over.
LEMMA ScaledRepayCovers ==
    ASSUME NEW amount \in Nat, NEW scale \in Nat
    PROVE  ScaleRepayAmount(amount, scale) >= amount
<1> DEFINE grown == amount * (BPS_BASE + scale)
<1>1. grown \in Nat /\ grown >= amount * BPS_BASE
  <2>1. amount * scale \in Nat
    OBVIOUS
  <2>2. grown = amount * BPS_BASE + amount * scale
    BY DEF BPS_BASE
  <2> QED
    BY <2>1, <2>2 DEF BPS_BASE
<1>2. ScaleRepayAmount(amount, scale) = grown \div BPS_BASE
  <2>1. BPS_BASE - (-scale) = BPS_BASE + scale
    BY DEF BPS_BASE
  <2> QED
    BY <2>1 DEF ScaleRepayAmount, CalcSlippage
<1>3. grown < BPS_BASE * (grown \div BPS_BASE) + BPS_BASE
  BY <1>1, DivBounds DEF BPS_BASE
<1>4. grown \div BPS_BASE \in Nat
  BY <1>1, DivBounds DEF BPS_BASE
<1> HIDE DEF grown
<1> QED
  BY <1>1, <1>2, <1>3, <1>4 DEF BPS_BASE

\* The loan is the largest but for one unit: with two more, the repayment is more
\* than what is at hand.
LEMMA TwoMoreAreTooMuch ==
    ASSUME NEW amount \in Nat, NEW feeBps \in Nat, NEW mode \in FeeRoundingModes
    PROVE  LET loan == ReverseAmountWithFee(amount, feeBps) + 2
           IN  loan + CalcFee(loan, feeBps, mode) > amount
<1> DEFINE base == BPS_BASE + feeBps
           loan == ReverseAmountWithFee(amount, feeBps)
           half == IF mode = "round" THEN BPS_BASE \div 2 ELSE 0
           product == (loan + 2) * feeBps + half
           fee == CalcFee(loan + 2, feeBps, mode)
<1>1. loan \in Nat /\ amount * BPS_BASE < base * loan + base
  BY DivBounds DEF ReverseAmountWithFee, BPS_BASE
<1>2. half \in Nat
  BY DEF BPS_BASE
<1>3. product \in Nat /\ fee = product \div BPS_BASE
  BY <1>1, <1>2 DEF CalcFee
<1>4. fee \in Nat /\ product < BPS_BASE * fee + BPS_BASE
  BY <1>3, DivBounds DEF BPS_BASE
<1>5. product = loan * feeBps + 2 * feeBps + half
  BY <1>1, <1>2
<1>6. loan * feeBps \in Nat /\ base * loan = BPS_BASE * loan + loan * feeBps
  BY <1>1 DEF BPS_BASE
<1> HIDE DEF loan, half, product, fee
<1>7. BPS_BASE * amount < BPS_BASE * (loan + 2 + fee)
  BY <1>1, <1>2, <1>4, <1>5, <1>6 DEF BPS_BASE
<1>8. amount < loan + 2 + fee
  BY <1>1, <1>4, <1>7 DEF BPS_BASE
<1> QED
  BY <1>1, <1>4, <1>8 DEF loan, fee

\* The scale adds a unit exactly when it amounts to one.
LEMMA ScaleReachesAUnit ==
    ASSUME NEW amount \in Nat, NEW scale \in Nat
    PROVE  ScaleRepayAmount(amount, scale) > amount <=> amount * scale >= BPS_BASE
<1> DEFINE extra == amount * scale
           scaled == ScaleRepayAmount(amount, scale)
<1>1. extra \in Nat /\ scaled = (amount * BPS_BASE + extra) \div BPS_BASE
  <2>1. extra \in Nat /\ amount * (BPS_BASE - (-scale)) = amount * BPS_BASE + extra
    BY DEF BPS_BASE
  <2> QED
    BY <2>1 DEF ScaleRepayAmount, CalcSlippage
<1> HIDE DEF extra, scaled
<1>2. /\ scaled \in Nat
      /\ BPS_BASE * scaled <= amount * BPS_BASE + extra
      /\ amount * BPS_BASE + extra < BPS_BASE * scaled + BPS_BASE
  BY <1>1, DivBounds DEF BPS_BASE
<1>3. scaled > amount <=> extra >= BPS_BASE
  BY <1>1, <1>2 DEF BPS_BASE
<1> QED
  BY <1>3 DEF extra, scaled

-----------------------------------------------------------------------------
\* A loan that can be repaid, its fee included, from the amount at hand.
Repayable(loan, amount, feeBps, mode) == loan + CalcFee(loan, feeBps, mode) <= amount

\* For every amount, fee and rounding: the reversed loan is repaid from the amount, as
\* collateralSwap counts on; and it gives nothing away, for no loan of two units more is.
THEOREM ReversalIsTight ==
    ASSUME NEW amount \in Nat, NEW feeBps \in Nat, NEW mode \in FeeRoundingModes
    PROVE  LET loan == ReverseAmountWithFee(amount, feeBps)
           IN  /\ Repayable(loan, amount, feeBps, mode)
               /\ ~Repayable(loan + 2, amount, feeBps, mode)
<1> DEFINE loan == ReverseAmountWithFee(amount, feeBps)
<1>1. loan \in Nat
  BY DivBounds DEF ReverseAmountWithFee, BPS_BASE
<1>2. loan + 2 + CalcFee(loan + 2, feeBps, mode) \in Int
  <2>1. (loan + 2) * feeBps + (IF mode = "round" THEN BPS_BASE \div 2 ELSE 0) \in Nat
    BY <1>1 DEF BPS_BASE
  <2> QED
    BY <1>1, <2>1, DivBounds DEF CalcFee, BPS_BASE
<1>3. loan + CalcFee(loan, feeBps, mode) <= amount
  BY ReversedLoanIsRepayable
<1>4. loan + 2 + CalcFee(loan + 2, feeBps, mode) > amount
  BY TwoMoreAreTooMuch
<1> HIDE DEF loan
<1>5. ~(loan + 2 + CalcFee(loan + 2, feeBps, mode) <= amount)
  BY <1>2, <1>4
<1> QED
  BY <1>3, <1>5 DEF Repayable, loan

\* For every debt and scale: a full repayment covers the debt, and has a unit or more
\* to spare for the interest exactly when the scale amounts to one.
THEOREM HeadRoomIsExact ==
    ASSUME NEW debt \in Nat, NEW scale \in Nat
    PROVE  LET scaled == ScaleRepayAmount(debt, scale)
           IN  scaled >= debt /\ (scaled > debt <=> debt * scale >= BPS_BASE)
BY ScaledRepayCovers, ScaleReachesAUnit

\* Yet it is no protection against slippage: when a swap that was to deliver the
\* scaled amount delivers only what the same slippage tolerates, part of the debt
\* stays, whatever the debt and the slippage.
THEOREM SlippageEatsTheScale ==
    ASSUME NEW amount \in Nat \ {0}, NEW slippage \in 1..BPS_BASE
    PROVE  CalcSlippage(ScaleRepayAmount(amount, slippage), slippage) < amount
<1> DEFINE scaled == ScaleRepayAmount(amount, slippage)
           low == BPS_BASE - slippage
           high == BPS_BASE + slippage
<1>1. low \in Nat /\ high \in Nat /\ slippage \in Nat \ {0}
  BY DEF BPS_BASE
<1>2. scaled \in Nat /\ BPS_BASE * scaled <= amount * high
  <2>1. amount * high \in Nat
    BY <1>1
  <2>2. BPS_BASE - (-slippage) = high
    BY <1>1 DEF BPS_BASE
  <2>3. scaled = (amount * high) \div BPS_BASE
    BY <2>2 DEF ScaleRepayAmount, CalcSlippage
  <2> HIDE DEF scaled, high
  <2> QED
    BY <2>1, <2>3, DivBounds DEF BPS_BASE
<1>3. high * low < BPS_BASE * BPS_BASE
  <2>1. high * low = BPS_BASE * BPS_BASE - slippage * slippage
    BY <1>1 DEF BPS_BASE
  <2>2. slippage * slippage \in Nat \ {0}
    BY <1>1
  <2> QED
    BY <2>1, <2>2 DEF BPS_BASE
<1> HIDE DEF scaled, low, high
<1>4. scaled * low \in Nat
  BY <1>1, <1>2
<1>5. BPS_BASE * (scaled * low) <= (amount * high) * low
  <2>1. (BPS_BASE * scaled) * low <= (amount * high) * low
    BY <1>1, <1>2 DEF BPS_BASE
  <2> QED
    BY <1>1, <1>2, <2>1 DEF BPS_BASE
<1>6. (amount * high) * low < amount * (BPS_BASE * BPS_BASE)
  <2>1. (amount * high) * low = amount * (high * low)
    BY <1>1
  <2>2. amount * (high * low) < amount * (BPS_BASE * BPS_BASE)
    BY <1>1, <1>3 DEF BPS_BASE
  <2> QED
    BY <2>1, <2>2
<1>7. scaled * low < BPS_BASE * amount
  BY <1>1, <1>2, <1>4, <1>5, <1>6 DEF BPS_BASE
<1>8. amount - 1 \in Nat /\ scaled * low < BPS_BASE * ((amount - 1) + 1)
  BY <1>4, <1>7 DEF BPS_BASE
<1>9. (scaled * low) \div BPS_BASE <= amount - 1
  BY <1>4, <1>8, DivAtMost DEF BPS_BASE
<1>10. (scaled * low) \div BPS_BASE \in Nat
  BY <1>4, DivBounds DEF BPS_BASE
<1> QED
  BY <1>9, <1>10 DEF scaled, low, CalcSlippage

-----------------------------------------------------------------------------
(* Swaps as asked for, and what holds of lists when they are joined.         *)

\* Every swap of the list states its quotation, and the slippage asked for.
AsAsked(l, slippage) ==
    l.kind = "swap" => /\ l.slippage = slippage
                       /\ l.output.amount = SwapOutput(l.input.token, l.output.token, l.input.amount)
Honest(s, slippage) == List(s) /\ \A i \in 1..Len(s) : AsAsked(s[i], slippage)

LEMMA HonestJoined ==
    ASSUME NEW s, NEW t, NEW slippage, Honest(s, slippage), Honest(t, slippage)
    PROVE  Honest(s \o t, slippage)
<1>1. \A i \in 1..Len(s \o t) : AsAsked((s \o t)[i], slippage)
  BY Parts DEF Honest
<1> QED
  BY <1>1, Joined DEF Honest

\* The empty list, and the list of one logic.
LEMMA FewLogics ==
    /\ \A kinds : OnlyKinds(<<>>, kinds)
    /\ \A slippage : Honest(<<>>, slippage)
    /\ \A l, kinds : l.kind \in kinds => OnlyKinds(<<l>>, kinds)
    /\ \A l, slippage : AsAsked(l, slippage) => Honest(<<l>>, slippage)
<1>1. List(<<>>) /\ Len(<<>>) = 0
  BY DEF List
<1>2. ASSUME NEW l PROVE List(<<l>>) /\ Len(<<l>>) = 1 /\ <<l>>[1] = l
  BY DEF List
<1> QED
  BY <1>1, <1>2 DEF OnlyKinds, Honest

\* A list without swaps is honest.
LEMMA NoSwaps ==
    ASSUME NEW s, NEW kinds, NEW slippage, OnlyKinds(s, kinds), "swap" \notin kinds
    PROVE  Honest(s, slippage)
  BY DEF OnlyKinds, Honest, AsAsked

-----------------------------------------------------------------------------
(* The logics and the quotations.                                            *)

\* A quotation that states what the market quotes for its input.
Quoted(q, slippage) ==
    /\ q.slippage = slippage
    /\ q.output.amount = SwapOutput(q.input.token, q.output.token, q.input.amount)

LEMMA QuotesAreQuoted ==
    /\ \A input, tokenOut, slippage : Quoted(QuoteIn(input, tokenOut, slippage), slippage)
    /\ \A tokenIn, output, slippage : Quoted(QuoteOut(tokenIn, output, slippage), slippage)
<1>1. ASSUME NEW input, NEW tokenOut, NEW slippage
      PROVE  Quoted(QuoteIn(input, tokenOut, slippage), slippage)
  BY DEF Quoted, QuoteIn, TokenAmount
<1> QED
  BY <1>1 DEF QuoteOut

LEMMA LogicKind ==
    /\ \A a : Loan(a).kind = "loan" /\ Loan(a).output = a
    /\ \A a : LoanRepay(a).kind = "loanRepay" /\ LoanRepay(a).input = a
    /\ \A q : SwapToken(q).kind = "swap"
    /\ \A a, bps : SupplyLogic(a, bps).kind = "supply" /\ RepayLogic(a, bps).kind = "repay"
                   /\ WithdrawLogic(a, bps).kind = "withdraw"
    /\ \A a : BorrowLogic(a).kind = "borrow" /\ SendToken(a).kind = "send" /\ PullToken(a).kind = "pull"
    /\ \A a, b : WrapNative(a, b).kind = "wrap"
  BY DEF Logic, Loan, LoanRepay, SwapToken, SupplyLogic, RepayLogic, WithdrawLogic, BorrowLogic,
         SendToken, PullToken, WrapNative

LEMMA SwapAsAsked ==
    ASSUME NEW q, NEW slippage, Quoted(q, slippage)
    PROVE  AsAsked(SwapToken(q), slippage)
  BY DEF Quoted, AsAsked, SwapToken, Logic

\* What the operations put around their swap: nothing, or the swap.
IsSwaps(s, slippage) == OnlyKinds(s, {"swap"}) /\ Honest(s, slippage)

LEMMA SwapOrNone ==
    ASSUME NEW q, NEW slippage, NEW swaps, Quoted(q, slippage),
           swaps = <<>> \/ swaps = <<SwapToken(q)>>
    PROVE  IsSwaps(swaps, slippage)
  BY FewLogics, LogicKind, SwapAsAsked DEF IsSwaps

LEMMA LoanFirst ==
    ASSUME NEW loan, NEW slippage
    PROVE  TakesLoan(<<Loan(loan)>>, loan) /\ Honest(<<Loan(loan)>>, slippage)
<1> DEFINE l == Loan(loan)
<1>1. l.kind = "loan" /\ l.output = loan
  BY LogicKind
<1> HIDE DEF l
<1>2. TakesLoan(<<l>>, loan)
  BY <1>1 DEF TakesLoan, List
<1>3. Honest(<<l>>, slippage)
  BY <1>1, FewLogics DEF AsAsked
<1> QED
  BY <1>2, <1>3 DEF l

\* One step on the market and the repayment of the loan.
LEMMA LoanLast ==
    ASSUME NEW l, NEW loan, NEW slippage, l.kind \in Market
    PROVE  /\ RepaysLoan(<<l, LoanRepay(loan)>>, loan)
           /\ Honest(<<l, LoanRepay(loan)>>, slippage)
<1> DEFINE r == LoanRepay(loan)
<1>1. r.kind = "loanRepay" /\ r.input = loan
  BY LogicKind
<1> HIDE DEF r
<1>2. List(<<l, r>>) /\ Len(<<l, r>>) = 2 /\ <<l, r>>[1] = l /\ <<l, r>>[2] = r
  BY DEF List
<1> HIDE DEF List
<1>3. \A i \in 1..(2 - 1) : i = 1
  OBVIOUS
<1>4. RepaysLoan(<<l, r>>, loan)
  BY <1>1, <1>2, <1>3 DEF RepaysLoan, Inner
<1>5. \A i \in 1..2 : AsAsked(<<l, r>>[i], slippage)
  <2>1. \A i \in 1..2 : i = 1 \/ i = 2
    OBVIOUS
  <2>2. AsAsked(l, slippage) /\ AsAsked(r, slippage)
    BY <1>1 DEF AsAsked, Market
  <2> QED
    BY <1>2, <2>1, <2>2
<1>6. Honest(<<l, r>>, slippage)
  BY <1>2, <1>5 DEF Honest
<1> QED
  BY <1>4, <1>6 DEF r

-----------------------------------------------------------------------------
(* What every operation returns: nothing on the market with an error, else   *)
(* a list that repays its loan and swaps as it was asked to.                 *)

Careful(o) ==
    /\ o.error # "none" => OnlyKinds(o.logics, {"swap"})
    /\ o.error = "none" => Paired(o.logics)
Swaps(o, slippage) == o.error = "none" => Honest(o.logics, slippage)
Sound(o, slippage) == Careful(o) /\ Swaps(o, slippage)

LEMMA WithoutLogics ==
    ASSUME NEW slippage
    PROVE  /\ \A n, p, e : Sound(Output(n, p, e, <<>>), slippage)
           /\ \A p, e : Sound(Failed(p, e), slippage)
           /\ \A p : Sound(NoOperation(p), slippage)
<1>1. ASSUME NEW o, o.logics = <<>> PROVE Sound(o, slippage)
  BY <1>1, FewLogics, NothingPaired DEF Sound, Careful, Swaps
<1>2. \A n, p, e : Output(n, p, e, <<>>).logics = <<>>
  BY DEF Output
<1> QED
  BY <1>1, <1>2 DEF Failed, NoOperation

LEMMA WithLogics ==
    ASSUME NEW s, NEW slippage, Paired(s), Honest(s, slippage)
    PROVE  \A n, p : Sound(Output(n, p, "none", s), slippage)
  BY DEF Sound, Careful, Swaps, Output

LEMMA WithSwaps ==
    ASSUME NEW s, NEW slippage, IsSwaps(s, slippage)
    PROVE  \A n, p, e : Sound(Output(n, p, e, s), slippage)
<1>1. Paired(s)
  BY KindsWiden, NothingPaired DEF IsSwaps, Inner, Aside
<1> QED
  BY <1>1 DEF Sound, Careful, Swaps, Output, IsSwaps

-----------------------------------------------------------------------------
LEMMA CollateralSwapSound ==
    ASSUME NEW p, NEW src, NEW amount, NEW dest, NEW slippage, NEW net
    PROVE  Sound(CollateralSwap(p, src, amount, dest, slippage, net), slippage)
<1>1. ASSUME NEW loan, NEW swap, Quoted(swap, slippage), NEW sent, NEW output, NEW bps, NEW back,
             back = <<SendToken(sent), PullToken(Receipt(output))>> \/ back = <<>>,
             NEW list,
             list = <<Loan(loan), SwapToken(swap), SupplyLogic(swap.output, TRUE)>> \o back
                    \o <<WithdrawLogic(output, bps), LoanRepay(loan)>>
      PROVE  Paired(list) /\ Honest(list, slippage)
  <2> DEFINE l == Loan(loan)
             swapped == SwapToken(swap)
             supplied == SupplyLogic(swap.output, TRUE)
             first == <<l, swapped, supplied>>
             last == <<WithdrawLogic(output, bps), LoanRepay(loan)>>
  <2>1. /\ l.kind = "loan" /\ l.output = loan /\ swapped.kind = "swap" /\ supplied.kind = "supply"
        /\ AsAsked(swapped, slippage)
    <3>1. AsAsked(swapped, slippage)
      BY <1>1, SwapAsAsked
    <3>2. l.kind = "loan" /\ l.output = loan
      BY LogicKind
    <3>3. swapped.kind = "swap" /\ supplied.kind = "supply"
      BY DEF SwapToken, SupplyLogic, Logic
    <3> QED
      BY <3>1, <3>2, <3>3
  <2>2. TakesLoan(first, loan) /\ Honest(first, slippage)
    <3> HIDE DEF l, swapped, supplied
    <3>1. /\ List(first) /\ Len(first) = 3
          /\ first[1] = l /\ first[2] = swapped /\ first[3] = supplied
      BY DEF List
    <3> HIDE DEF first
    <3>2. \A i \in 1..3 : i = 1 \/ i = 2 \/ i = 3
      OBVIOUS
    <3>3. \A i \in 2..3 : i = 2 \/ i = 3
      OBVIOUS
    <3>4. TakesLoan(first, loan)
      BY <2>1, <3>1, <3>3 DEF TakesLoan, Inner, Market, Aside
    <3>5. \A i \in 1..3 : AsAsked(first[i], slippage)
      BY <2>1, <3>1, <3>2 DEF AsAsked
    <3> QED
      BY <3>1, <3>4, <3>5 DEF Honest
  <2>3. OnlyKinds(back, {"send", "pull"})
    <3>1. CASE back = <<>>
      BY <3>1, FewLogics
    <3>2. CASE back = <<SendToken(sent), PullToken(Receipt(output))>>
      <4> DEFINE s == SendToken(sent)
                 t == PullToken(Receipt(output))
      <4>1. s.kind = "send" /\ t.kind = "pull"
        BY LogicKind
      <4> HIDE DEF s, t
      <4>2. List(<<s, t>>) /\ Len(<<s, t>>) = 2 /\ <<s, t>>[1] = s /\ <<s, t>>[2] = t
        BY DEF List
      <4>3. \A i \in 1..2 : i = 1 \/ i = 2
        OBVIOUS
      <4>4. OnlyKinds(<<s, t>>, {"send", "pull"})
        BY <4>1, <4>2, <4>3 DEF OnlyKinds
      <4> QED
        BY <3>2, <4>4 DEF s, t
    <3> QED
      BY <1>1, <3>1, <3>2
  <2>4. OnlyKinds(back, Inner) /\ Honest(back, slippage)
    <3>1. {"send", "pull"} \subseteq Inner
      BY DEF Inner, Aside
    <3> QED
      BY <2>3, <3>1, KindsWiden, NoSwaps
  <2>5. RepaysLoan(last, loan) /\ Honest(last, slippage)
    BY LogicKind, LoanLast DEF Market
  <2> HIDE DEF first, last
  <2>6. TakesLoan(first \o back, loan) /\ Honest(first \o back, slippage)
    BY <2>2, <2>4, LoanGoesOn, HonestJoined
  <2>7. Paired((first \o back) \o last) /\ Honest((first \o back) \o last, slippage)
    BY <2>5, <2>6, LoanRepaid, HonestJoined
  <2> QED
    BY <1>1, <2>7 DEF first, last
<1> DEFINE tokenized == src \in AssetTokenized
           loan == Loans(TokenAmount(Wrapped[src], amount - (IF tokenized THEN 2 ELSE 0)))
           swap == QuoteIn(loan, Wrapped[dest], slippage)
           output == TokenAmount(Wrapped[src], amount)
           back == IF tokenized
                   THEN <<SendToken(Receipt(swap.output)), PullToken(Receipt(output))>>
                   ELSE <<>>
           list == <<Loan(loan), SwapToken(swap), SupplyLogic(swap.output, TRUE)>> \o back
                   \o <<WithdrawLogic(output, tokenized), LoanRepay(loan)>>
<1>2. Paired(list) /\ Honest(list, slippage)
  <2>1. Quoted(swap, slippage)
    BY QuotesAreQuoted
  <2> HIDE DEF loan, swap, output, tokenized
  <2> QED
    BY <1>1, <2>1
<1>3. \A n, q : Sound(Output(n, q, "none", list), slippage)
  <2> HIDE DEF list
  <2> QED
    BY <1>2, WithLogics
<1> QED
  BY <1>3, WithoutLogics DEF CollateralSwap

LEMMA DebtSwapSound ==
    ASSUME NEW p, NEW src, NEW amount, NEW dest, NEW slippage, NEW isRepayAll, NEW net
    PROVE  Sound(DebtSwap(p, src, amount, dest, slippage, isRepayAll, net), slippage)
<1>1. ASSUME NEW swap, Quoted(swap, slippage), NEW borrowed, NEW list,
             list = <<Loan(swap.input), SwapToken(swap), RepayLogic(swap.output, TRUE),
                      BorrowLogic(borrowed), LoanRepay(swap.input)>>
      PROVE  Paired(list) /\ Honest(list, slippage)
  <2> DEFINE l == Loan(swap.input)
             s == SwapToken(swap)
             r == RepayLogic(swap.output, TRUE)
             b == BorrowLogic(borrowed)
             e == LoanRepay(swap.input)
  <2>1. /\ l.kind = "loan" /\ s.kind = "swap" /\ r.kind = "repay" /\ b.kind = "borrow"
        /\ e.kind = "loanRepay" /\ l.output = e.input /\ AsAsked(s, slippage)
    <3>1. AsAsked(s, slippage)
      BY <1>1, SwapAsAsked
    <3>2. l.kind = "loan" /\ e.kind = "loanRepay" /\ l.output = e.input
      BY LogicKind
    <3>3. s.kind = "swap" /\ r.kind = "repay" /\ b.kind = "borrow"
      BY DEF SwapToken, RepayLogic, BorrowLogic, Logic
    <3> QED
      BY <3>1, <3>2, <3>3
  <2>2. list = <<l, s, r, b, e>>
    BY <1>1
  <2> HIDE DEF l, s, r, b, e
  <2>3. /\ List(list) /\ Len(list) = 5
        /\ list[1] = l /\ list[2] = s /\ list[3] = r /\ list[4] = b /\ list[5] = e
    BY <2>2 DEF List
  <2>4. \A i \in 1..5 : i \in {1, 2, 3, 4, 5}
    OBVIOUS
  <2>5. Encloses(list, 1, 5)
    BY <2>1, <2>3, <2>4 DEF Encloses, Market
  <2>6. \A i \in 1..5 : list[i].kind = "loan" => i = 1
    BY <2>1, <2>3, <2>4
  <2>7. Paired(list)
    BY <2>3, <2>5, <2>6 DEF Paired
  <2>8. \A i \in 1..5 : AsAsked(list[i], slippage)
    BY <2>1, <2>3, <2>4 DEF AsAsked
  <2> QED
    BY <2>3, <2>7, <2>8 DEF Honest
<1> DEFINE needed == RepayAmount(p, src, amount, slippage, isRepayAll)
           swap == QuoteOut(Wrapped[dest], TokenAmount(Wrapped[src], needed), slippage)
           borrowed == Repays(swap.input)
           list == <<Loan(swap.input), SwapToken(swap), RepayLogic(swap.output, TRUE),
                     BorrowLogic(borrowed), LoanRepay(swap.input)>>
<1>2. Paired(list) /\ Honest(list, slippage)
  <2>1. Quoted(swap, slippage)
    BY QuotesAreQuoted
  <2> HIDE DEF swap, borrowed
  <2> QED
    BY <1>1, <2>1
<1>3. \A n, q : Sound(Output(n, q, "none", list), slippage)
  <2> HIDE DEF list
  <2> QED
    BY <1>2, WithLogics
<1> QED
  BY <1>3, WithoutLogics DEF DebtSwap

\* A loan, what is swapped, a step on the market, funds moved, another step, the
\* repayment.
LEMMA LoanAround ==
    ASSUME NEW loan, NEW slippage, NEW swaps, IsSwaps(swaps, slippage),
           NEW l, l.kind \in Market, NEW moved, OnlyKinds(moved, {"send", "pull"}),
           NEW m, m.kind \in Market
    PROVE  LET list == <<Loan(loan)>> \o swaps \o <<l>> \o moved \o <<m, LoanRepay(loan)>>
           IN  Paired(list) /\ Honest(list, slippage)
<1> DEFINE a == <<Loan(loan)>> \o swaps
           b == a \o <<l>>
           c == b \o moved
<1>1. TakesLoan(a, loan) /\ Honest(a, slippage)
  <2>1. OnlyKinds(swaps, Inner)
    BY KindsWiden DEF IsSwaps, Inner, Aside
  <2> QED
    BY <2>1, LoanFirst, LoanGoesOn, HonestJoined DEF IsSwaps
<1> HIDE DEF a
<1>2. TakesLoan(b, loan) /\ Honest(b, slippage)
  <2>1. OnlyKinds(<<l>>, Market) /\ Market \subseteq Inner /\ "swap" \notin Market
    BY FewLogics DEF Inner, Market
  <2>2. OnlyKinds(<<l>>, Inner) /\ Honest(<<l>>, slippage)
    BY <2>1, KindsWiden, NoSwaps
  <2> QED
    BY <1>1, <2>2, LoanGoesOn, HonestJoined
<1> HIDE DEF b
<1>3. TakesLoan(c, loan) /\ Honest(c, slippage)
  <2>1. {"send", "pull"} \subseteq Inner
    BY DEF Inner, Aside
  <2>2. OnlyKinds(moved, Inner) /\ Honest(moved, slippage)
    BY <2>1, KindsWiden, NoSwaps
  <2> QED
    BY <1>2, <2>2, LoanGoesOn, HonestJoined
<1> HIDE DEF c
<1>4. LET last == <<m, LoanRepay(loan)>> IN Paired(c \o last) /\ Honest(c \o last, slippage)
  BY <1>3, LoanLast, LoanRepaid, HonestJoined
<1> QED
  BY <1>4 DEF a, b, c

LEMMA MovedOrNone ==
    ASSUME NEW l, l.kind \in {"send", "pull"}, NEW moved, moved = <<>> \/ moved = <<l>>
    PROVE  OnlyKinds(moved, {"send", "pull"})
  BY FewLogics

LEMMA LeverageListed ==
    ASSUME NEW loan, NEW slippage, NEW swaps, IsSwaps(swaps, slippage),
           NEW supplyInput, NEW borrowOutput
    PROVE  LET list == LeverageLogics(loan, swaps, supplyInput, borrowOutput)
           IN  Paired(list) /\ Honest(list, slippage)
<1> DEFINE supply == SupplyLogic(supplyInput, swaps # <<>>)
           sent == SendToken(supply.output)
           returnFunds == IF supplyInput.token \in AssetTokenized THEN <<sent>> ELSE <<>>
           borrow == BorrowLogic(borrowOutput)
<1>1. supply.kind \in Market /\ borrow.kind \in Market /\ sent.kind \in {"send", "pull"}
  BY LogicKind DEF Market
<1>2. LeverageLogics(loan, swaps, supplyInput, borrowOutput) =
        <<Loan(loan)>> \o swaps \o <<supply>> \o returnFunds \o <<borrow, LoanRepay(loan)>>
  BY DEF LeverageLogics
<1> HIDE DEF supply, sent, borrow
<1>3. OnlyKinds(returnFunds, {"send", "pull"})
  BY <1>1, MovedOrNone
<1> HIDE DEF returnFunds
<1> QED
  BY <1>1, <1>2, <1>3, LoanAround

LEMMA LeverageByCollateralSound ==
    ASSUME NEW p, NEW src, NEW amount, NEW dest, NEW slippage, NEW net
    PROVE  Sound(LeverageByCollateral(p, src, amount, dest, slippage, net), slippage)
<1> DEFINE wanted == TokenAmount(Wrapped[src], amount)
           swap == QuoteOut(Wrapped[dest], wanted, slippage)
           loan == IF Same(src, dest) THEN wanted ELSE swap.input
           supplyInput == IF Same(src, dest) THEN wanted ELSE swap.output
           borrowOutput == Repays(loan)
           swaps == IF Same(src, dest) THEN <<>> ELSE <<SwapToken(swap)>>
           list == LeverageLogics(loan, swaps, supplyInput, borrowOutput)
<1>1. IsSwaps(swaps, slippage)
  <2>1. Quoted(swap, slippage)
    BY QuotesAreQuoted
  <2> HIDE DEF swap
  <2> QED
    BY <2>1, SwapOrNone
<1>2. Paired(list) /\ Honest(list, slippage)
  <2> HIDE DEF loan, swaps, supplyInput, borrowOutput
  <2> QED
    BY <1>1, LeverageListed
<1>3. \A n, q : Sound(Output(n, q, "none", list), slippage)
  <2> HIDE DEF list
  <2> QED
    BY <1>2, WithLogics
<1> QED
  BY <1>3, WithoutLogics DEF LeverageByCollateral

LEMMA LeverageByDebtSound ==
    ASSUME NEW p, NEW src, NEW amount, NEW dest, NEW slippage, NEW net
    PROVE  Sound(LeverageByDebt(p, src, amount, dest, slippage, net), slippage)
<1> DEFINE loan == TokenAmount(Wrapped[src], amount)
           borrowOutput == Repays(loan)
           swap == QuoteIn(loan, Wrapped[dest], slippage)
           supplyInput == IF Same(src, dest) THEN TokenAmount(Wrapped[dest], amount) ELSE swap.output
           swaps == IF Same(src, dest) THEN <<>> ELSE <<SwapToken(swap)>>
           list == LeverageLogics(loan, swaps, supplyInput, borrowOutput)
<1>1. IsSwaps(swaps, slippage)
  <2>1. Quoted(swap, slippage)
    BY QuotesAreQuoted
  <2> HIDE DEF swap
  <2> QED
    BY <2>1, SwapOrNone
<1>2. Paired(list) /\ Honest(list, slippage)
  <2> HIDE DEF loan, swaps, supplyInput, borrowOutput
  <2> QED
    BY <1>1, LeverageListed
<1>3. \A n, q : Sound(Output(n, q, "none", list), slippage)
  <2> HIDE DEF list
  <2> QED
    BY <1>2, WithLogics
<1> QED
  BY <1>3, WithoutLogics DEF LeverageByDebt

LEMMA DeleverageSound ==
    ASSUME NEW p, NEW src, NEW amount, NEW dest, NEW slippage, NEW isRepayAll, NEW net
    PROVE  Sound(Deleverage(p, src, amount, dest, slippage, isRepayAll, net), slippage)
<1> DEFINE needed == RepayAmount(p, src, amount, IF Same(src, dest) THEN 1 ELSE slippage, isRepayAll)
           swap == QuoteOut(Wrapped[dest], TokenAmount(Wrapped[src], needed), slippage)
           swaps == IF Same(src, dest) THEN <<>> ELSE <<SwapToken(swap)>>
           loan == IF Same(src, dest) THEN TokenAmount(Wrapped[dest], needed) ELSE swap.input
           repayInput == IF Same(src, dest) THEN TokenAmount(Wrapped[src], needed) ELSE swap.output
           tokenized == loan.token \in AssetTokenized
           withdrawOutput == [Repays(loan) EXCEPT !.amount = @ + IF tokenized THEN 2 ELSE 0]
           repay == RepayLogic(repayInput, swaps # <<>>)
           pull == PullToken(Receipt(withdrawOutput))
           addFunds == IF tokenized THEN <<pull>> ELSE <<>>
           withdraw == WithdrawLogic(withdrawOutput, tokenized)
           list == <<Loan(loan)>> \o swaps \o <<repay>> \o addFunds \o <<withdraw, LoanRepay(loan)>>
<1>1. IsSwaps(swaps, slippage)
  <2>1. Quoted(swap, slippage)
    BY QuotesAreQuoted
  <2> HIDE DEF swap
  <2> QED
    BY <2>1, SwapOrNone
<1>2. repay.kind \in Market /\ withdraw.kind \in Market /\ pull.kind \in {"send", "pull"}
  BY LogicKind DEF Market
<1>3. OnlyKinds(addFunds, {"send", "pull"})
  <2> HIDE DEF pull
  <2> QED
    BY <1>2, MovedOrNone
<1>4. Paired(list) /\ Honest(list, slippage)
  <2> HIDE DEF loan, swaps, repay, addFunds, withdraw
  <2> QED
    BY <1>1, <1>2, <1>3, LoanAround
<1>5. \A n, q : Sound(Output(n, q, "none", list), slippage)
  <2> HIDE DEF list
  <2> QED
    BY <1>4, WithLogics
<1> QED
  BY <1>5, WithoutLogics DEF Deleverage

-----------------------------------------------------------------------------
(* The zaps take no loan at all.                                             *)

Loanless(o, slippage) == Sound(o, slippage) /\ OnlyKinds(o.logics, Inner)

LEMMA WithoutSteps ==
    ASSUME NEW slippage
    PROVE  /\ \A p, e : Loanless(Failed(p, e), slippage)
           /\ \A p : Loanless(NoOperation(p), slippage)
<1>1. \A p, e : Failed(p, e).logics = <<>> /\ NoOperation(p).logics = <<>>
  BY DEF Failed, NoOperation, Output
<1>2. OnlyKinds(<<>>, Inner)
  BY FewLogics
<1> QED
  BY <1>1, <1>2, WithoutLogics DEF Loanless

\* A swap, and one step on the market before or after it.
LEMMA SwapAndStep ==
    ASSUME NEW slippage, NEW swaps, IsSwaps(swaps, slippage), NEW l, l.kind \in Market
    PROVE  \A n, p : /\ Loanless(Output(n, p, "none", swaps \o <<l>>), slippage)
                     /\ Loanless(Output(n, p, "none", <<l>> \o swaps), slippage)
<1>1. OnlyKinds(<<l>>, Market) /\ Market \subseteq Inner /\ {"swap"} \subseteq Inner /\ "swap" \notin Market
  BY FewLogics DEF Inner, Market, Aside
<1>2. OnlyKinds(<<l>>, Inner) /\ Honest(<<l>>, slippage)
  BY <1>1, KindsWiden, NoSwaps
<1>3. OnlyKinds(swaps, Inner) /\ Honest(swaps, slippage)
  BY <1>1, KindsWiden DEF IsSwaps
<1>4. ASSUME NEW s, OnlyKinds(s, Inner), Honest(s, slippage)
      PROVE  \A n, p : Loanless(Output(n, p, "none", s), slippage)
  <2>1. \A n, p : Sound(Output(n, p, "none", s), slippage) /\ Output(n, p, "none", s).logics = s
    BY <1>4, NothingPaired, WithLogics DEF Output
  <2> QED
    BY <1>4, <2>1 DEF Loanless
<1>5. OnlyKinds(swaps \o <<l>>, Inner) /\ Honest(swaps \o <<l>>, slippage)
  BY <1>2, <1>3, KindsJoined, HonestJoined
<1>6. OnlyKinds(<<l>> \o swaps, Inner) /\ Honest(<<l>> \o swaps, slippage)
  BY <1>2, <1>3, KindsJoined, HonestJoined
<1> QED
  BY <1>4, <1>5, <1>6

LEMMA ZapSupplySound ==
    ASSUME NEW p, NEW src, NEW amount, NEW dest, NEW slippage, NEW net
    PROVE  Loanless(ZapSupply(p, src, amount, dest, slippage, net), slippage)
<1> DEFINE swap == QuoteIn(TokenAmount(src, amount), Wrapped[dest], slippage)
           swaps == IF Same(src, dest) THEN <<>> ELSE <<SwapToken(swap)>>
           supplyInput == IF Same(src, dest) THEN TokenAmount(src, amount) ELSE swap.output
           l == SupplyLogic(supplyInput, swaps # <<>>)
<1>1. IsSwaps(swaps, slippage)
  <2>1. Quoted(swap, slippage)
    BY QuotesAreQuoted
  <2> HIDE DEF swap
  <2> QED
    BY <2>1, SwapOrNone
<1>2. l.kind \in Market
  BY LogicKind DEF Market
<1>3. \A n, q : Loanless(Output(n, q, "none", swaps \o <<l>>), slippage)
  <2> HIDE DEF swaps, l
  <2> QED
    BY <1>1, <1>2, SwapAndStep
<1>4. \A n, q, e : Loanless(Output(n, q, e, swaps), slippage)
  <2> HIDE DEF swaps
  <2>1. OnlyKinds(swaps, Inner)
    BY <1>1, KindsWiden DEF IsSwaps, Inner, Aside
  <2>2. \A n, q, e : Output(n, q, e, swaps).logics = swaps
    BY DEF Output
  <2> QED
    BY <1>1, <2>1, <2>2, WithSwaps DEF Loanless
<1> QED
  BY <1>3, <1>4, WithoutSteps DEF ZapSupply

LEMMA ZapWithdrawSound ==
    ASSUME NEW p, NEW src, NEW amount, NEW dest, NEW slippage, NEW net
    PROVE  Loanless(ZapWithdraw(p, src, amount, dest, slippage, net), slippage)
<1> DEFINE output == TokenAmount(IF Same(src, dest) THEN dest ELSE Wrapped[src], amount)
           tokenized == output.token \in AssetTokenized
           swap == QuoteIn([output EXCEPT !.amount = @ - IF tokenized THEN 3 ELSE 0], dest, slippage)
           swaps == IF Same(src, dest) THEN <<>> ELSE <<SwapToken(swap)>>
           l == WithdrawLogic(output, tokenized)
<1>1. IsSwaps(swaps, slippage)
  <2>1. Quoted(swap, slippage)
    BY QuotesAreQuoted
  <2> HIDE DEF swap
  <2> QED
    BY <2>1, SwapOrNone
<1>2. l.kind \in Market
  BY LogicKind DEF Market
<1>3. \A n, q : Loanless(Output(n, q, "none", <<l>> \o swaps), slippage)
  <2> HIDE DEF swaps, l
  <2> QED
    BY <1>1, <1>2, SwapAndStep
<1> QED
  BY <1>3, WithoutSteps DEF ZapWithdraw

LEMMA ZapBorrowSound ==
    ASSUME NEW p, NEW src, NEW amount, NEW dest, NEW slippage, NEW net
    PROVE  Loanless(ZapBorrow(p, src, amount, dest, slippage, net), slippage)
<1> DEFINE output == TokenAmount(IF Same(src, dest) THEN dest ELSE Wrapped[src], amount)
           swap == QuoteIn(output, dest, slippage)
           swaps == IF Same(src, dest) THEN <<>> ELSE <<SwapToken(swap)>>
           l == BorrowLogic(output)
<1>1. IsSwaps(swaps, slippage)
  <2>1. Quoted(swap, slippage)
    BY QuotesAreQuoted
  <2> HIDE DEF swap
  <2> QED
    BY <2>1, SwapOrNone
<1>2. l.kind \in Market
  BY LogicKind DEF Market
<1>3. \A n, q : Loanless(Output(n, q, "none", <<l>> \o swaps), slippage)
  <2> HIDE DEF swaps, l
  <2> QED
    BY <1>1, <1>2, SwapAndStep
<1> QED
  BY <1>3, WithoutSteps DEF ZapBorrow

LEMMA ZapRepaySound ==
    ASSUME NEW p, NEW src, NEW amount, NEW dest, NEW slippage, NEW isRepayAll, NEW net
    PROVE  Loanless(ZapRepay(p, src, amount, dest, slippage, isRepayAll, net), slippage)
<1> DEFINE needed == RepayAmount(p, src, amount, IF Same(src, dest) THEN 1 ELSE slippage, isRepayAll)
           swap == QuoteOut(dest, TokenAmount(Wrapped[src], needed), slippage)
           swaps == IF Same(src, dest) THEN <<>> ELSE <<SwapToken(swap)>>
           repayInput == IF Same(src, dest) THEN TokenAmount(dest, needed) ELSE swap.output
           l == RepayLogic(repayInput, swaps # <<>>)
<1>1. IsSwaps(swaps, slippage)
  <2>1. Quoted(swap, slippage)
    BY QuotesAreQuoted
  <2> HIDE DEF swap
  <2> QED
    BY <2>1, SwapOrNone
<1>2. l.kind \in Market
  BY LogicKind DEF Market
<1>3. \A n, q : Loanless(Output(n, q, "none", swaps \o <<l>>), slippage)
  <2> HIDE DEF swaps, l
  <2> QED
    BY <1>1, <1>2, SwapAndStep
<1> QED
  BY <1>3, WithoutSteps DEF ZapRepay

-----------------------------------------------------------------------------
(* Opening: the zapped amount joins the supply of a leverage, and no other   *)
(* logic; above all it reaches neither the loan nor its repayment.           *)

IsLogic(l) == l = Logic(l.kind, l.input, l.output, l.bps, l.slippage)
OnlyLogics(s) == List(s) /\ \A i \in 1..Len(s) : IsLogic(s[i])
Supplies(s, k) == k \in 1..Len(s) /\ s[k].kind = "supply"

\* Where the supply of a leverage is, by its swaps and by its two tokens.
Place(swaps) == IF swaps = <<>> THEN 2 ELSE 3
PlaceOf(from, to) == IF from = to THEN 2 ELSE 3

LEMMA LogicsJoined ==
    ASSUME NEW s, NEW t, OnlyLogics(s), OnlyLogics(t)
    PROVE  OnlyLogics(s \o t)
<1>1. \A i \in 1..Len(s \o t) : IsLogic((s \o t)[i])
  BY Parts DEF OnlyLogics
<1> QED
  BY <1>1, Joined DEF OnlyLogics

LEMMA LogicOrNone ==
    /\ OnlyLogics(<<>>)
    /\ \A l : IsLogic(l) => OnlyLogics(<<l>>)
<1>1. List(<<>>) /\ Len(<<>>) = 0
  BY DEF List
<1>2. ASSUME NEW l PROVE List(<<l>>) /\ Len(<<l>>) = 1 /\ <<l>>[1] = l
  BY DEF List
<1> QED
  BY <1>1, <1>2 DEF OnlyLogics

LEMMA AreLogics ==
    /\ \A a : IsLogic(Loan(a)) /\ IsLogic(LoanRepay(a)) /\ IsLogic(BorrowLogic(a)) /\ IsLogic(SendToken(a))
    /\ \A q : IsLogic(SwapToken(q))
    /\ \A a, bps : IsLogic(SupplyLogic(a, bps))
  BY DEF IsLogic, Logic, Loan, LoanRepay, BorrowLogic, SendToken, SwapToken, SupplyLogic

LEMMA LeverageSupplies ==
    ASSUME NEW loan, NEW swaps, OnlyLogics(swaps), Len(swaps) = Place(swaps) - 2,
           NEW supplyInput, NEW borrowOutput
    PROVE  LET list == LeverageLogics(loan, swaps, supplyInput, borrowOutput)
           IN  OnlyLogics(list) /\ Supplies(list, Place(swaps))
<1> DEFINE l == Loan(loan)
           supply == SupplyLogic(supplyInput, swaps # <<>>)
           sent == SendToken(supply.output)
           returnFunds == IF supplyInput.token \in AssetTokenized THEN <<sent>> ELSE <<>>
           borrow == BorrowLogic(borrowOutput)
           repay == LoanRepay(loan)
           a == <<l>> \o swaps
           b == a \o <<supply>>
           c == b \o returnFunds
           last == <<borrow, repay>>
<1>1. /\ IsLogic(l) /\ IsLogic(supply) /\ IsLogic(sent) /\ IsLogic(borrow) /\ IsLogic(repay)
      /\ supply.kind = "supply"
  BY AreLogics, LogicKind
<1>2. LeverageLogics(loan, swaps, supplyInput, borrowOutput) = c \o last
  BY DEF LeverageLogics
<1> HIDE DEF l, supply, sent, borrow, repay
<1>3. OnlyLogics(last)
  <2>1. List(last) /\ Len(last) = 2 /\ last[1] = borrow /\ last[2] = repay
    BY DEF List
  <2> HIDE DEF last
  <2>2. \A i \in 1..2 : i = 1 \/ i = 2
    OBVIOUS
  <2> QED
    BY <1>1, <2>1, <2>2 DEF OnlyLogics
<1>4. OnlyLogics(returnFunds)
  BY <1>1, LogicOrNone
<1> HIDE DEF last, returnFunds
<1>5. OnlyLogics(a) /\ Len(a) + 1 = Place(swaps)
  <2>1. OnlyLogics(<<l>>) /\ List(<<l>>) /\ Len(<<l>>) = 1
    BY <1>1, LogicOrNone DEF List
  <2>2. Len(a) = 1 + Len(swaps)
    BY <2>1, Joined DEF OnlyLogics
  <2> QED
    BY <2>1, <2>2, LogicsJoined DEF Place
<1> HIDE DEF a
<1>6. OnlyLogics(b) /\ Supplies(b, Place(swaps))
  <2>1. OnlyLogics(<<supply>>) /\ Len(<<supply>>) = 1 /\ <<supply>>[1] = supply
    BY <1>1, LogicOrNone
  <2> DEFINE t == <<supply>>
  <2> HIDE DEF t
  <2>2. List(a) /\ List(t) /\ Len(a) \in Nat /\ Len(t) = 1 /\ t[1] = supply
    BY <1>5, <2>1 DEF OnlyLogics, List, t
  <2>3. Len(a \o t) = Len(a) + 1 /\ Len(a) + 1 \in (Len(a) + 1)..(Len(a) + Len(t))
    <3>1. Len(a \o t) = Len(a) + Len(t)
      BY <2>2, Joined
    <3> QED
      BY <2>2, <3>1
  <2>4. (a \o t)[Len(a) + 1] = t[(Len(a) + 1) - Len(a)]
    BY <2>2, <2>3, Joined
  <2>5. (a \o t)[Len(a) + 1].kind = "supply" /\ Len(a) + 1 \in 1..Len(a \o t)
    BY <1>1, <2>2, <2>3, <2>4
  <2>6. Supplies(a \o t, Place(swaps))
    BY <1>5, <2>5 DEF Supplies
  <2>7. OnlyLogics(a \o t)
    BY <1>5, <2>1, LogicsJoined DEF t
  <2> QED
    BY <2>6, <2>7 DEF t
<1> HIDE DEF b
<1> DEFINE i == Place(swaps)
<1> HIDE DEF i
<1>7. ASSUME NEW s, NEW t, OnlyLogics(s), OnlyLogics(t), Supplies(s, i)
      PROVE  OnlyLogics(s \o t) /\ Supplies(s \o t, i)
  <2>1. i \in 1..Len(s) /\ s[i].kind = "supply"
    BY <1>7 DEF Supplies
  <2>2. List(s) /\ List(t) /\ Len(s) \in Nat /\ Len(t) \in Nat
    BY <1>7 DEF OnlyLogics, List
  <2>3. (s \o t)[i].kind = "supply" /\ i \in 1..Len(s \o t)
    BY <2>1, <2>2, Joined
  <2> QED
    BY <1>7, <2>3, LogicsJoined DEF Supplies
<1>8. OnlyLogics(c) /\ Supplies(c, i)
  BY <1>4, <1>6, <1>7 DEF i
<1> HIDE DEF c
<1> QED
  BY <1>2, <1>3, <1>7, <1>8 DEF i

LEMMA AddZapPaired ==
    ASSUME NEW s, NEW k, NEW zapped, OnlyLogics(s), Supplies(s, k), Paired(s)
    PROVE  Paired(AddZap(s, k, zapped))
<1> DEFINE t == AddZap(s, k, zapped)
           Changed(i) == IF i = k THEN [s[i] EXCEPT !.input.amount = @ + zapped, !.bps = TRUE]
                         ELSE IF i = k - 1 /\ s[i].kind = "swap"
                              THEN [s[i] EXCEPT !.output.amount = @ + zapped]
                         ELSE s[i]
<1>1. DOMAIN s = 1..Len(s) /\ Len(s) \in Nat
  BY DEF OnlyLogics, List
<1>2. t = [i \in 1..Len(s) |-> Changed(i)]
  BY <1>1 DEF AddZap
<1>3. k \in 1..Len(s) /\ s[k].kind = "supply"
  BY DEF Supplies
<1>4. List(t) /\ Len(t) = Len(s) /\ \A i \in 1..Len(s) : t[i] = Changed(i)
  <2> HIDE DEF t, Changed
  <2>1. Len(t) = Len(s)
    BY <1>1, <1>2
  <2> QED
    BY <1>1, <1>2, <2>1 DEF List
<1> HIDE DEF t
<1>5. ASSUME NEW i \in 1..Len(s) PROVE t[i].kind = s[i].kind
  <2>1. "kind" \in DOMAIN s[i]
    <3>1. IsLogic(s[i])
      BY DEF OnlyLogics
    <3> QED
      BY <3>1 DEF IsLogic, Logic
  <2>2. Changed(i).kind = s[i].kind
    BY <2>1
  <2> HIDE DEF Changed
  <2> QED
    BY <1>4, <2>2
<1>6. ASSUME NEW i \in 1..Len(s), s[i].kind \in {"loan", "loanRepay"} PROVE t[i] = s[i]
  <2>1. Changed(i) = s[i]
    BY <1>3, <1>6
  <2> HIDE DEF Changed
  <2> QED
    BY <1>4, <2>1
<1> HIDE DEF Changed
<1> QED
  BY <1>4, <1>5, <1>6, PairedKept DEF t

\* A leverage that returns no error returns the list of LeverageLogics.
Leverages(o, k) == o.error = "none" => OnlyLogics(o.logics) /\ Supplies(o.logics, k)

LEMMA FailuresLeverageNothing ==
    /\ \A p, e, k : e # "none" => Leverages(Failed(p, e), k)
    /\ \A n, p, e, k : e # "none" => Leverages(Output(n, p, e, <<>>), k)
  BY DEF Leverages, Failed, Output

LEMMA SwapLogics ==
    ASSUME NEW q, NEW swaps, swaps = <<>> \/ swaps = <<SwapToken(q)>>
    PROVE  OnlyLogics(swaps) /\ Len(swaps) = Place(swaps) - 2
<1>1. OnlyLogics(swaps)
  BY LogicOrNone, AreLogics
<1>2. ASSUME NEW l PROVE Len(<<l>>) = Place(<<l>>) - 2
  <2>1. Len(<<l>>) = 1 /\ <<l>> # <<>>
    OBVIOUS
  <2> QED
    BY <2>1 DEF Place
<1>3. Len(<<>>) = Place(<<>>) - 2
  BY DEF Place
<1> QED
  BY <1>1, <1>2, <1>3

LEMMA LeverageByCollateralLeverages ==
    ASSUME NEW p, NEW src, NEW amount, amount # 0, NEW dest, NEW slippage, NEW net
    PROVE  Leverages(LeverageByCollateral(p, src, amount, dest, slippage, net), PlaceOf(Wrapped[dest], Wrapped[src]))
<1> DEFINE wanted == TokenAmount(Wrapped[src], amount)
           swap == QuoteOut(Wrapped[dest], wanted, slippage)
           loan == IF Same(src, dest) THEN wanted ELSE swap.input
           supplyInput == IF Same(src, dest) THEN wanted ELSE swap.output
           borrowOutput == Repays(loan)
           swaps == IF Same(src, dest) THEN <<>> ELSE <<SwapToken(swap)>>
           list == LeverageLogics(loan, swaps, supplyInput, borrowOutput)
           k == PlaceOf(Wrapped[dest], Wrapped[src])
<1>1. OnlyLogics(list) /\ Supplies(list, k)
  <2>1. OnlyLogics(swaps) /\ Len(swaps) = Place(swaps) - 2
    <3> HIDE DEF swap
    <3> QED
      BY SwapLogics
  <2>2. k = Place(swaps)
    BY DEF Same, Place, PlaceOf
  <2> HIDE DEF k, swaps, loan, supplyInput, borrowOutput
  <2> QED
    BY <2>1, <2>2, LeverageSupplies
<1>2. \A n, q : Leverages(Output(n, q, "none", list), k)
  <2> HIDE DEF k, list
  <2> QED
    BY <1>1 DEF Leverages, Output
<1> QED
  BY <1>2, FailuresLeverageNothing DEF LeverageByCollateral

LEMMA LeverageByDebtLeverages ==
    ASSUME NEW p, NEW src, NEW amount, amount # 0, NEW dest, NEW slippage, NEW net
    PROVE  Leverages(LeverageByDebt(p, src, amount, dest, slippage, net), PlaceOf(Wrapped[src], Wrapped[dest]))
<1> DEFINE loan == TokenAmount(Wrapped[src], amount)
           borrowOutput == Repays(loan)
           swap == QuoteIn(loan, Wrapped[dest], slippage)
           supplyInput == IF Same(src, dest) THEN TokenAmount(Wrapped[dest], amount) ELSE swap.output
           swaps == IF Same(src, dest) THEN <<>> ELSE <<SwapToken(swap)>>
           list == LeverageLogics(loan, swaps, supplyInput, borrowOutput)
           k == PlaceOf(Wrapped[src], Wrapped[dest])
<1>1. OnlyLogics(list) /\ Supplies(list, k)
  <2>1. OnlyLogics(swaps) /\ Len(swaps) = Place(swaps) - 2
    <3> HIDE DEF swap
    <3> QED
      BY SwapLogics
  <2>2. k = Place(swaps)
    BY DEF Same, Place, PlaceOf
  <2> HIDE DEF k, swaps, loan, supplyInput, borrowOutput
  <2> QED
    BY <2>1, <2>2, LeverageSupplies
<1>2. \A n, q : Leverages(Output(n, q, "none", list), k)
  <2> HIDE DEF k, list
  <2> QED
    BY <1>1 DEF Leverages, Output
<1> QED
  BY <1>2, FailuresLeverageNothing DEF LeverageByDebt

LEMMA OpenCareful ==
    ASSUME NEW p, NEW zap, NEW zapAmount, NEW collateral \in Tokens, NEW amount,
           NEW debt \in Tokens, NEW slippage, NEW net, NEW byDebt
    PROVE  Careful(Open(p, zap, zapAmount, collateral, amount, debt, slippage, net, byDebt))
<1> DEFINE swap == QuoteIn(TokenAmount(zap, zapAmount), Wrapped[collateral], slippage)
           direct == zap = Wrapped[collateral]
           swaps == IF direct THEN <<>> ELSE <<SwapToken(swap)>>
           zapped == IF direct THEN zapAmount ELSE swap.output.amount
           supplied == Supply(p, Wrapped[collateral], zapped)
           byOne == LeverageByDebt(supplied, Wrapped[debt], amount, Wrapped[collateral],
                                   DefaultSlippage, net)
           byOther == LeverageByCollateral(supplied, Wrapped[collateral], amount, Wrapped[debt],
                                           DefaultSlippage, net)
           leverage == IF byDebt THEN byOne ELSE byOther
           k == LogicIndex(collateral, debt)
<1>1. IsSwaps(swaps, slippage)
  <2>1. Quoted(swap, slippage)
    BY QuotesAreQuoted
  <2> HIDE DEF swap
  <2> QED
    BY <2>1, SwapOrNone
<1>2. /\ Sound(leverage, DefaultSlippage)
      /\ amount # 0 => Leverages(leverage, k)
  <2>1. Sound(byOne, DefaultSlippage) /\ Sound(byOther, DefaultSlippage)
    BY LeverageByDebtSound, LeverageByCollateralSound
  <2>2. k = PlaceOf(Wrapped[Wrapped[debt]], Wrapped[Wrapped[collateral]])
    BY WrapAssumption DEF LogicIndex, Same, PlaceOf
  <2> HIDE DEF k
  <2>3. amount # 0 => Leverages(byOne, k) /\ Leverages(byOther, k)
    BY <2>2, LeverageByDebtLeverages, LeverageByCollateralLeverages
  <2> HIDE DEF byOne, byOther
  <2> QED
    BY <2>1, <2>3
<1> HIDE DEF leverage, k
<1>3. \A n, q, e : Careful(Output(n, q, e, swaps))
  <2> HIDE DEF swaps
  <2> QED
    BY <1>1, WithSwaps DEF Sound
<1>4. \A q, e : Careful(Failed(q, e)) /\ Careful(NoOperation(q))
  BY WithoutLogics DEF Sound
<1>5. ASSUME amount # 0, leverage.error = "none"
      PROVE  \A n, q : Careful(Output(n, q, "none", swaps \o AddZap(leverage.logics, k, zapped)))
  <2>1. Paired(AddZap(leverage.logics, k, zapped))
    BY <1>2, <1>5, AddZapPaired DEF Sound, Careful, Leverages
  <2>2. OnlyKinds(swaps, Aside)
    <3> HIDE DEF swaps
    <3> QED
      BY <1>1, KindsWiden DEF IsSwaps, Aside
  <2> DEFINE list == swaps \o AddZap(leverage.logics, k, zapped)
  <2> HIDE DEF swaps, zapped
  <2>3. Paired(list)
    BY <2>1, <2>2, PairedBefore
  <2> HIDE DEF list
  <2>4. \A n, q : Careful(Output(n, q, "none", list))
    BY <2>3 DEF Careful, Output
  <2> QED
    BY <2>4 DEF list
<1> DEFINE opened == Open(p, zap, zapAmount, collateral, amount, debt, slippage, net, byDebt)
<1>6. \/ \E q, e : opened \in {Failed(q, e), NoOperation(q)}
      \/ \E n, q, e : opened = Output(n, q, e, swaps)
      \/ /\ amount # 0 /\ leverage.error = "none"
         /\ \E n, q : opened = Output(n, q, "none", swaps \o AddZap(leverage.logics, k, zapped))
  BY DEF Open, leverage, k
<1> HIDE DEF opened
<1> QED
  BY <1>3, <1>4, <1>5, <1>6 DEF opened

-----------------------------------------------------------------------------
(* Closing: the two loops, each from one list to a longer one.               *)

\* The list of a close so far: it has taken the loan for its debts, or needs none.
Carries(s, indebted, loan, slippage) ==
    /\ Honest(s, slippage)
    /\ IF indebted THEN TakesLoan(s, loan) ELSE OnlyKinds(s, Inner)

LEMMA CarriesOn ==
    ASSUME NEW s, NEW t, NEW indebted, NEW loan, NEW slippage, Carries(s, indebted, loan, slippage),
           OnlyKinds(t, Inner), Honest(t, slippage)
    PROVE  Carries(s \o t, indebted, loan, slippage)
<1>1. Honest(s \o t, slippage)
  BY HonestJoined DEF Carries
<1>2. CASE indebted
  BY <1>1, <1>2, LoanGoesOn DEF Carries
<1>3. CASE ~indebted
  BY <1>1, <1>3, KindsJoined DEF Carries
<1> QED
  BY <1>2, <1>3

\* What a loop has come to.
IsOutput(o) == o = Output(o.destAmount, o.afterPortfolio, o.error, o.logics)
LoopCarries(acc, indebted, loan, slippage) ==
    /\ acc = [out |-> acc.out, sum |-> acc.sum] /\ IsOutput(acc.out)
    /\ Carries(acc.out.logics, indebted, loan, slippage)

\* A turn of a loop that fails, and one that adds to the list.
LEMMA LoopTurn ==
    ASSUME NEW acc, NEW indebted, NEW loan, NEW slippage, LoopCarries(acc, indebted, loan, slippage)
    PROVE  /\ \A e : LoopCarries([acc EXCEPT !.out.error = e], indebted, loan, slippage)
           /\ \A s, q, sum : Carries(s, indebted, loan, slippage) =>
                LoopCarries([out |-> [acc.out EXCEPT !.logics = s, !.afterPortfolio = q], sum |-> sum],
                            indebted, loan, slippage)
<1>1. acc = [out |-> acc.out, sum |-> acc.sum] /\ Carries(acc.out.logics, indebted, loan, slippage)
  BY DEF LoopCarries
<1>2. acc.out = Output(acc.out.destAmount, acc.out.afterPortfolio, acc.out.error, acc.out.logics)
  BY DEF LoopCarries, IsOutput
<1>3. ASSUME NEW e PROVE LoopCarries([acc EXCEPT !.out.error = e], indebted, loan, slippage)
  <2> DEFINE o == Output(acc.out.destAmount, acc.out.afterPortfolio, e, acc.out.logics)
  <2>1. [acc EXCEPT !.out.error = e] = [out |-> o, sum |-> acc.sum]
    BY <1>1, <1>2 DEF Output
  <2>2. IsOutput(o) /\ o.logics = acc.out.logics
    BY DEF IsOutput, Output
  <2> HIDE DEF o
  <2> QED
    BY <1>1, <2>1, <2>2 DEF LoopCarries
<1>4. ASSUME NEW s, NEW q, NEW sum, Carries(s, indebted, loan, slippage)
      PROVE  LoopCarries([out |-> [acc.out EXCEPT !.logics = s, !.afterPortfolio = q], sum |-> sum],
                         indebted, loan, slippage)
  <2> DEFINE o == Output(acc.out.destAmount, q, acc.out.error, s)
  <2>1. [acc.out EXCEPT !.logics = s, !.afterPortfolio = q] = o
    <3> DEFINE r == [acc.out EXCEPT !.logics = s, !.afterPortfolio = q]
    <3>1. DOMAIN acc.out = {"destAmount", "afterPortfolio", "error", "logics"}
      BY <1>2 DEF Output
    <3>2. r = [f \in {"destAmount", "afterPortfolio", "error", "logics"} |->
                 IF f = "afterPortfolio" THEN q ELSE IF f = "logics" THEN s ELSE acc.out[f]]
      BY <3>1
    <3> HIDE DEF r
    <3>3. r = o
      BY <3>2 DEF Output
    <3> QED
      BY <3>3 DEF r
  <2>2. IsOutput(o) /\ o.logics = s
    BY DEF IsOutput, Output
  <2> HIDE DEF o
  <2> QED
    BY <1>4, <2>1, <2>2 DEF LoopCarries
<1> QED
  BY <1>3, <1>4

LEMMA RepayEachCarries ==
    ASSUME NEW p, NEW w, NEW slippage, NEW net, NEW acc, NEW b, NEW indebted, NEW loan,
           LoopCarries(acc, indebted, loan, slippage)
    PROVE  LoopCarries(RepayEach(p, w, slippage, net, acc, b), indebted, loan, slippage)
<1> DEFINE zap == ZapRepay(acc.out.afterPortfolio, b, p.borrows[b], w, slippage, TRUE, net)
           longer == [out |-> [acc.out EXCEPT !.logics = @ \o zap.logics,
                                              !.afterPortfolio = zap.afterPortfolio],
                      sum |-> acc.sum + zap.destAmount]
<1>1. Loanless(zap, slippage)
  BY ZapRepaySound
<1>2. \/ RepayEach(p, w, slippage, net, acc, b) = acc
      \/ RepayEach(p, w, slippage, net, acc, b) = [acc EXCEPT !.out.error = zap.error]
      \/ zap.error = "none" /\ RepayEach(p, w, slippage, net, acc, b) = longer
  BY DEF RepayEach
<1> HIDE DEF zap
<1>3. ASSUME zap.error = "none" PROVE LoopCarries(longer, indebted, loan, slippage)
  <2>1. Carries(acc.out.logics \o zap.logics, indebted, loan, slippage)
    BY <1>1, <1>3, CarriesOn DEF LoopCarries, Loanless, Sound, Swaps
  <2> QED
    BY <2>1, LoopTurn
<1>4. LoopCarries([acc EXCEPT !.out.error = zap.error], indebted, loan, slippage)
  BY LoopTurn
<1> HIDE DEF longer
<1> QED
  BY <1>2, <1>3, <1>4

LEMMA WithdrawEachCarries ==
    ASSUME NEW p, NEW w, NEW slippage, NEW net, NEW acc, NEW s, NEW indebted, NEW loan,
           LoopCarries(acc, indebted, loan, slippage)
    PROVE  LoopCarries(WithdrawEach(p, w, slippage, net, acc, s), indebted, loan, slippage)
<1> DEFINE zap == ZapWithdraw(acc.out.afterPortfolio, s, p.supplies[s], w, slippage, net)
           pull == PullToken(zap.logics[1].input)
           addFunds == IF s \in AssetTokenized THEN <<pull>> ELSE <<>>
           longer == [out |-> [acc.out EXCEPT !.logics = @ \o addFunds \o zap.logics,
                                              !.afterPortfolio = zap.afterPortfolio],
                      sum |-> acc.sum + zap.destAmount]
<1>1. Loanless(zap, slippage)
  BY ZapWithdrawSound
<1>2. \/ WithdrawEach(p, w, slippage, net, acc, s) = acc
      \/ WithdrawEach(p, w, slippage, net, acc, s) = [acc EXCEPT !.out.error = zap.error]
      \/ zap.error = "none" /\ WithdrawEach(p, w, slippage, net, acc, s) = longer
  BY DEF WithdrawEach
<1>3. pull.kind = "pull"
  BY LogicKind
<1> HIDE DEF zap, pull
<1>4. OnlyKinds(addFunds, Inner) /\ Honest(addFunds, slippage)
  <2>1. OnlyKinds(addFunds, {"send", "pull"}) /\ {"send", "pull"} \subseteq Inner
    BY <1>3, MovedOrNone DEF Inner, Aside
  <2> QED
    BY <2>1, KindsWiden, NoSwaps
<1> HIDE DEF addFunds
<1>5. ASSUME zap.error = "none" PROVE LoopCarries(longer, indebted, loan, slippage)
  <2>1. Carries(acc.out.logics \o addFunds, indebted, loan, slippage)
    BY <1>4, CarriesOn DEF LoopCarries
  <2>2. Carries(acc.out.logics \o addFunds \o zap.logics, indebted, loan, slippage)
    BY <1>1, <1>5, <2>1, CarriesOn DEF Loanless, Sound, Swaps
  <2> QED
    BY <2>2, LoopTurn
<1>6. LoopCarries([acc EXCEPT !.out.error = zap.error], indebted, loan, slippage)
  BY LoopTurn
<1> HIDE DEF longer
<1> QED
  BY <1>2, <1>5, <1>6

\* Each loop goes over its whole list, whatever its turns do.
LEMMA BorrowsGoThrough ==
    ASSUME NEW p, NEW w, NEW slippage, NEW net
    PROVE  LET base == [out |-> NoOperation(p), sum |-> 0]
               n == Len(BorrowOrder)
           IN  /\ n \in Nat
               /\ \E after : /\ CloseBorrows(p, w, slippage, net) = after[n] /\ after[0] = base
                             /\ \A i \in 1..n : after[i] =
                                  RepayEach(p, w, slippage, net, after[i - 1], BorrowOrder[i])
<1> DEFINE base == [out |-> NoOperation(p), sum |-> 0]
           n == Len(BorrowOrder)
           Turn(a, i) == RepayEach(p, w, slippage, net, a, BorrowOrder[i])
           Solves(g, m) == g = [i \in 0..m |-> IF i = 0 THEN base ELSE Turn(g[i - 1], i)]
           P == {m \in 0..n : \E g : Solves(g, m)}
           after == CHOOSE g : Solves(g, n)
<1>1. n \in Nat
  BY ListAssumption
<1>2. CloseBorrows(p, w, slippage, net) = after[n]
  BY DEF CloseBorrows
<1> HIDE DEF base, n, Turn
<1>3. 0 \in P
  <2> DEFINE g == [i \in 0..0 |-> base]
  <2>1. Solves(g, 0)
    <3>1. \A i \in 0..0 : i = 0
      OBVIOUS
    <3> QED
      BY <3>1
  <2> HIDE DEF Solves, g
  <2> QED
    BY <1>1, <2>1
<1>4. ASSUME NEW m \in 1..n, m - 1 \in P PROVE m \in P
  <2>1. PICK h : Solves(h, m - 1)
    BY <1>4
  <2> DEFINE g == [i \in 0..m |-> IF i = 0 THEN base ELSE Turn(h[i - 1], i)]
  <2>2. \A i \in 0..(m - 1) : g[i] = h[i]
    BY <2>1
  <2>3. \A i \in 0..m : i # 0 => g[i - 1] = h[i - 1]
    <3>1. \A i \in 0..m : i # 0 => i - 1 \in 0..(m - 1)
      BY <1>1
    <3> HIDE DEF g
    <3> QED
      BY <2>2, <3>1
  <2>4. Solves(g, m)
    <3>1. \A i \in 0..m : (IF i = 0 THEN base ELSE Turn(h[i - 1], i))
                           = (IF i = 0 THEN base ELSE Turn(g[i - 1], i))
      BY <2>3
    <3> QED
      BY <3>1
  <2> HIDE DEF Solves, g
  <2> QED
    BY <1>1, <2>4
<1>5. n \in P
  <2> HIDE DEF P
  <2> QED
    BY <1>1, <1>3, <1>4, UpTo
<1>6. Solves(after, n)
  BY <1>5
<1> HIDE DEF after
<1>7. after[0] = base /\ \A i \in 1..n : after[i] = Turn(after[i - 1], i)
  BY <1>1, <1>6
<1> QED
  BY <1>1, <1>2, <1>7 DEF base, n, Turn

LEMMA SuppliesGoThrough ==
    ASSUME NEW out, NEW w, NEW slippage, NEW net
    PROVE  LET base == [out |-> out, sum |-> 0]
               n == Len(SupplyOrder)
           IN  /\ n \in Nat
               /\ \E after : /\ CloseSupplies(out, w, slippage, net) = after[n] /\ after[0] = base
                             /\ \A i \in 1..n : after[i] =
                                  WithdrawEach(out.afterPortfolio, w, slippage, net, after[i - 1], SupplyOrder[i])
<1> DEFINE base == [out |-> out, sum |-> 0]
           n == Len(SupplyOrder)
           Turn(a, i) == WithdrawEach(out.afterPortfolio, w, slippage, net, a, SupplyOrder[i])
           Solves(g, m) == g = [i \in 0..m |-> IF i = 0 THEN base ELSE Turn(g[i - 1], i)]
           P == {m \in 0..n : \E g : Solves(g, m)}
           after == CHOOSE g : Solves(g, n)
<1>1. n \in Nat
  BY ListAssumption
<1>2. CloseSupplies(out, w, slippage, net) = after[n]
  BY DEF CloseSupplies
<1> HIDE DEF base, n, Turn
<1>3. 0 \in P
  <2> DEFINE g == [i \in 0..0 |-> base]
  <2>1. Solves(g, 0)
    <3>1. \A i \in 0..0 : i = 0
      OBVIOUS
    <3> QED
      BY <3>1
  <2> HIDE DEF Solves, g
  <2> QED
    BY <1>1, <2>1
<1>4. ASSUME NEW m \in 1..n, m - 1 \in P PROVE m \in P
  <2>1. PICK h : Solves(h, m - 1)
    BY <1>4
  <2> DEFINE g == [i \in 0..m |-> IF i = 0 THEN base ELSE Turn(h[i - 1], i)]
  <2>2. \A i \in 0..(m - 1) : g[i] = h[i]
    BY <2>1
  <2>3. \A i \in 0..m : i # 0 => g[i - 1] = h[i - 1]
    <3>1. \A i \in 0..m : i # 0 => i - 1 \in 0..(m - 1)
      BY <1>1
    <3> HIDE DEF g
    <3> QED
      BY <2>2, <3>1
  <2>4. Solves(g, m)
    <3>1. \A i \in 0..m : (IF i = 0 THEN base ELSE Turn(h[i - 1], i))
                           = (IF i = 0 THEN base ELSE Turn(g[i - 1], i))
      BY <2>3
    <3> QED
      BY <3>1
  <2> HIDE DEF Solves, g
  <2> QED
    BY <1>1, <2>4
<1>5. n \in P
  <2> HIDE DEF P
  <2> QED
    BY <1>1, <1>3, <1>4, UpTo
<1>6. Solves(after, n)
  BY <1>5
<1> HIDE DEF after
<1>7. after[0] = base /\ \A i \in 1..n : after[i] = Turn(after[i - 1], i)
  BY <1>1, <1>6
<1> QED
  BY <1>1, <1>2, <1>7 DEF base, n, Turn

LEMMA CloseBorrowsCarries ==
    ASSUME NEW p, NEW w, NEW slippage, NEW net, NEW loan
    PROVE  LoopCarries(CloseBorrows(p, w, slippage, net), FALSE, loan, slippage)
<1> DEFINE base == [out |-> NoOperation(p), sum |-> 0]
           n == Len(BorrowOrder)
           Carried(a) == LoopCarries(a, FALSE, loan, slippage)
<1>1. n \in Nat
  BY BorrowsGoThrough
<1>2. PICK after : /\ CloseBorrows(p, w, slippage, net) = after[n] /\ after[0] = base
                   /\ \A i \in 1..n : after[i] =
                        RepayEach(p, w, slippage, net, after[i - 1], BorrowOrder[i])
  BY BorrowsGoThrough
<1>3. Carried(base)
  <2>1. NoOperation(p) = Output(0, p, "none", <<>>)
    BY DEF NoOperation
  <2>2. IsOutput(base.out) /\ base.out.logics = <<>> /\ base = [out |-> base.out, sum |-> base.sum]
    BY <2>1 DEF IsOutput, Output
  <2> HIDE DEF base
  <2>3. Carries(base.out.logics, FALSE, loan, slippage)
    BY <2>2, FewLogics DEF Carries
  <2> QED
    BY <2>2, <2>3 DEF LoopCarries
<1> HIDE DEF base, n
<1> DEFINE P == {i \in 0..n : Carried(after[i])}
<1>4. 0 \in P
  <2>1. Carried(after[0])
    BY <1>2, <1>3
  <2> HIDE DEF Carried
  <2> QED
    BY <1>1, <2>1
<1>5. ASSUME NEW i \in 1..n, i - 1 \in P PROVE i \in P
  <2>1. Carried(after[i])
    BY <1>2, <1>5, RepayEachCarries
  <2> HIDE DEF Carried
  <2> QED
    BY <1>1, <2>1
<1>6. n \in P
  <2> HIDE DEF P
  <2> QED
    BY <1>1, <1>4, <1>5, UpTo
<1> QED
  BY <1>2, <1>6

LEMMA CloseSuppliesCarries ==
    ASSUME NEW out, NEW w, NEW slippage, NEW net, NEW indebted, NEW loan,
           IsOutput(out), Carries(out.logics, indebted, loan, slippage)
    PROVE  LoopCarries(CloseSupplies(out, w, slippage, net), indebted, loan, slippage)
<1> DEFINE base == [out |-> out, sum |-> 0]
           n == Len(SupplyOrder)
           Carried(a) == LoopCarries(a, indebted, loan, slippage)
<1>1. n \in Nat
  BY SuppliesGoThrough
<1>2. PICK after : /\ CloseSupplies(out, w, slippage, net) = after[n] /\ after[0] = base
                   /\ \A i \in 1..n : after[i] =
                        WithdrawEach(out.afterPortfolio, w, slippage, net, after[i - 1], SupplyOrder[i])
  BY SuppliesGoThrough
<1>3. Carried(base)
  BY DEF LoopCarries
<1> HIDE DEF base, n
<1> DEFINE P == {i \in 0..n : Carried(after[i])}
<1>4. 0 \in P
  <2>1. Carried(after[0])
    BY <1>2, <1>3
  <2> HIDE DEF Carried
  <2> QED
    BY <1>1, <2>1
<1>5. ASSUME NEW i \in 1..n, i - 1 \in P PROVE i \in P
  <2>1. Carried(after[i])
    BY <1>2, <1>5, WithdrawEachCarries
  <2> HIDE DEF Carried
  <2> QED
    BY <1>1, <2>1
<1>6. n \in P
  <2> HIDE DEF P
  <2> QED
    BY <1>1, <1>4, <1>5, UpTo
<1> QED
  BY <1>2, <1>6

\* An account in debt has something supplied: else close returns the loan and the
\* repayments of the debts, without an error and without paying the loan back.
Covered(p) == p.totals["borrowUSD"] > 0 => p.totals["supplyUSD"] # 0

LEMMA CloseSound ==
    ASSUME NEW p, NEW withdrawal, NEW slippage, NEW net
    PROVE  LET o == Close(p, withdrawal, slippage, net)
           IN  o.error = "none" => Honest(o.logics, slippage) /\ (Covered(p) => Paired(o.logics))
<1> DEFINE w == Wrapped[withdrawal]
           indebted == p.totals["borrowUSD"] > 0
           borrows == CloseBorrows(p, w, slippage, net)
           repaid == IF indebted THEN borrows ELSE [out |-> NoOperation(p), sum |-> 0]
           loan == TokenAmount(w, repaid.sum)
           loaned == IF indebted THEN [repaid.out EXCEPT !.logics = <<Loan(loan)>> \o @]
                     ELSE repaid.out
           withdrawn == CloseSupplies(loaned, w, slippage, net)
           left == withdrawn.sum - IF indebted THEN Repays(loan).amount ELSE 0
           repayLoan == IF indebted THEN <<LoanRepay(loan)>> ELSE <<>>
           wrapped == WrapNative(TokenAmount(w, left), TokenAmount(withdrawal, left))
           wrap == IF withdrawal # w /\ left > 0 THEN <<wrapped>> ELSE <<>>
           last == [withdrawn.out EXCEPT !.destAmount = left, !.logics = @ \o repayLoan \o wrap]
           o == Close(p, withdrawal, slippage, net)
<1>1. LoopCarries(repaid, FALSE, loan, slippage)
  <2>1. LoopCarries(borrows, FALSE, loan, slippage)
    BY CloseBorrowsCarries
  <2>2. LoopCarries([out |-> NoOperation(p), sum |-> 0], FALSE, loan, slippage)
    <3> DEFINE base == [out |-> NoOperation(p), sum |-> 0]
    <3>1. NoOperation(p) = Output(0, p, "none", <<>>)
      BY DEF NoOperation
    <3>2. IsOutput(base.out) /\ base.out.logics = <<>> /\ base = [out |-> base.out, sum |-> base.sum]
      BY <3>1 DEF IsOutput, Output
    <3> HIDE DEF base, loan
    <3>3. Carries(base.out.logics, FALSE, loan, slippage)
      BY <3>2, FewLogics DEF Carries
    <3>4. LoopCarries(base, FALSE, loan, slippage)
      BY <3>2, <3>3 DEF LoopCarries
    <3> QED
      BY <3>4 DEF base
  <2> HIDE DEF borrows, loan
  <2> QED
    BY <2>1, <2>2
<1>2. \/ o = repaid.out /\ o.error # "none"
      \/ o = [repaid.out EXCEPT !.error = "UNEXPECTED_ERROR"]
      \/ p.totals["supplyUSD"] = 0 /\ o = loaned
      \/ o = withdrawn.out /\ o.error # "none"
      \/ withdrawn.out.error = "none" /\ o = last
  BY DEF Close
<1>3. wrapped.kind = "wrap"
  BY LogicKind
<1> HIDE DEF o, borrows, repaid, wrapped
<1>4. IsOutput(loaned) /\ Carries(loaned.logics, indebted, loan, slippage)
  <2>1. IsOutput(repaid.out) /\ Carries(repaid.out.logics, FALSE, loan, slippage)
    BY <1>1 DEF LoopCarries
  <2>2. CASE ~indebted
    <3>1. loaned = repaid.out
      BY <2>2
    <3> HIDE DEF loaned
    <3> QED
      BY <2>1, <2>2, <3>1 DEF Carries
  <2>3. CASE indebted
    <3> DEFINE s == <<Loan(loan)>> \o repaid.out.logics
               u == Output(repaid.out.destAmount, repaid.out.afterPortfolio, repaid.out.error, s)
    <3>1. TakesLoan(s, loan) /\ Honest(s, slippage)
      BY <2>1, LoanFirst, LoanGoesOn, HonestJoined DEF Carries
    <3>2. loaned = [repaid.out EXCEPT !.logics = s]
      BY <2>3
    <3> HIDE DEF s, loaned
    <3>3. loaned = u /\ IsOutput(u) /\ u.logics = s
      BY <2>1, <3>2 DEF IsOutput, Output
    <3> QED
      BY <2>3, <3>1, <3>3 DEF Carries
  <2> HIDE DEF loaned, indebted
  <2> QED
    BY <2>2, <2>3
<1> HIDE DEF loan, loaned
<1>5. IsOutput(withdrawn.out) /\ Carries(withdrawn.out.logics, indebted, loan, slippage)
  BY <1>4, CloseSuppliesCarries DEF LoopCarries
<1> HIDE DEF withdrawn, left
<1>6. OnlyKinds(wrap, {"wrap"}) /\ OnlyKinds(wrap, Aside) /\ Honest(wrap, slippage)
  <2>1. OnlyKinds(wrap, {"wrap"}) /\ {"wrap"} \subseteq Aside
    BY <1>3, FewLogics DEF Aside
  <2> QED
    BY <2>1, KindsWiden, NoSwaps
<1> HIDE DEF wrap
<1> DEFINE before == withdrawn.out.logics \o repayLoan
<1>7. Paired(before) /\ Honest(before, slippage)
  <2>1. CASE indebted
    <3> DEFINE r == LoanRepay(loan)
    <3>1. r.kind = "loanRepay" /\ r.input = loan
      BY LogicKind
    <3>2. repayLoan = <<r>>
      BY <2>1
    <3> HIDE DEF r, repayLoan
    <3>3. RepaysLoan(repayLoan, loan)
      <4>1. List(<<r>>) /\ Len(<<r>>) = 1 /\ <<r>>[1] = r
        BY DEF List
      <4> QED
        BY <3>1, <3>2, <4>1 DEF RepaysLoan
    <3>4. Honest(repayLoan, slippage)
      BY <3>1, <3>2, FewLogics DEF AsAsked
    <3> QED
      BY <1>5, <2>1, <3>3, <3>4, LoanRepaid, HonestJoined DEF Carries
  <2>2. CASE ~indebted
    <3>1. repayLoan = <<>>
      BY <2>2
    <3> HIDE DEF repayLoan
    <3>2. OnlyKinds(repayLoan, Inner) /\ Honest(repayLoan, slippage)
      BY <3>1, FewLogics
    <3> QED
      BY <1>5, <2>2, <3>2, KindsJoined, HonestJoined, NothingPaired DEF Carries
  <2> QED
    BY <2>1, <2>2
<1>8. last.logics = before \o wrap
  <2>1. "logics" \in DOMAIN withdrawn.out
    BY <1>5 DEF IsOutput, Output
  <2> QED
    BY <2>1
<1> HIDE DEF before
<1>9. Paired(last.logics) /\ Honest(last.logics, slippage)
  BY <1>6, <1>7, <1>8, PairedAfter, HonestJoined
<1> HIDE DEF last
<1>10. o = loaned => Honest(o.logics, slippage) /\ (~indebted => Paired(o.logics))
  BY <1>4, NothingPaired DEF Carries
<1>11. [repaid.out EXCEPT !.error = "UNEXPECTED_ERROR"].error = "UNEXPECTED_ERROR"
  <2>1. "error" \in DOMAIN repaid.out
    BY <1>1 DEF LoopCarries, IsOutput, Output
  <2> QED
    BY <2>1
<1> QED
  BY <1>2, <1>9, <1>10, <1>11 DEF Covered, o

-----------------------------------------------------------------------------
(* Whatever is planned, an operation has returned it for the request and the *)
(* position at hand.                                                         *)

Fits(o, r, p) ==
    /\ r.op # "close" => Careful(o)
    /\ r.op \notin Opens => Swaps(o, r.slippage)
    /\ Covered(p) /\ o.error = "none" => Paired(o.logics)

PlanFits ==
    /\ pc \in {"idle", "planned"} => position \in Positions
    /\ pc = "planned" => Fits(plan, request, position)

LEMMA AskKeeps ==
    ASSUME PlanFits, NEW r, NEW o, Ask(r, o), Fits(o, r, position)
    PROVE  PlanFits'
  BY DEF PlanFits, Ask, Fits, Careful, Swaps, Covered

\* A sound output fits any request with its slippage.
LEMMA SoundFits ==
    ASSUME NEW o, NEW slippage, NEW op, NEW pair, NEW n, Sound(o, slippage)
    PROVE  Fits(o, Asked(op, pair, n, slippage), position)
<1>1. Asked(op, pair, n, slippage).slippage = slippage
  BY DEF Asked, NoRequest
<1> QED
  BY <1>1 DEF Fits, Sound, Careful

LEMMA OpenFits ==
    ASSUME NEW o, NEW slippage, NEW op \in Opens, NEW pair, NEW n, NEW zap, Careful(o)
    PROVE  Fits(o, [Asked(op, pair, n, slippage) EXCEPT !.zap = zap], position)
<1>1. [Asked(op, pair, n, slippage) EXCEPT !.zap = zap].op = op
  BY DEF Asked, NoRequest
<1> QED
  BY <1>1 DEF Fits, Careful

LEMMA AskStep == PlanFits /\ AskOperation => PlanFits'
<1> SUFFICES ASSUME PlanFits, NEW slippage \in Slippages, NEW net \in Nets,
                    \/ \E withdrawal \in Withdrawals : AskClose(withdrawal, slippage, net)
                    \/ \E pair \in Pairs, n \in Amounts :
                         \/ AskCollateralSwap(pair, n, slippage, net)
                         \/ AskDebtSwap(pair, n, slippage, net)
                         \/ AskLeverageByCollateral(pair, n, slippage, net)
                         \/ AskLeverageByDebt(pair, n, slippage, net)
                         \/ AskDeleverage(pair, n, slippage, net)
                         \/ AskZapSupply(pair, n, slippage, net)
                         \/ AskZapWithdraw(pair, n, slippage, net)
                         \/ AskZapBorrow(pair, n, slippage, net)
                         \/ AskZapRepay(pair, n, slippage, net)
                         \/ \E zap \in Zaps : \/ AskOpenByCollateral(pair, n, zap, slippage, net)
                                              \/ AskOpenByDebt(pair, n, zap, slippage, net)
             PROVE  PlanFits'
  BY DEF AskOperation
<1>1. ASSUME NEW withdrawal \in Withdrawals, AskClose(withdrawal, slippage, net) PROVE PlanFits'
  <2> DEFINE o == Close(position, withdrawal, slippage, net)
             r == [NoRequest EXCEPT !.op = "close", !.dest = withdrawal, !.slippage = slippage]
  <2>1. o.error = "none" => Honest(o.logics, slippage) /\ (Covered(position) => Paired(o.logics))
    BY CloseSound
  <2>2. r.op = "close" /\ r.slippage = slippage
    BY DEF NoRequest
  <2>3. Ask(r, o)
    BY <1>1 DEF AskClose
  <2> HIDE DEF o, r
  <2>4. Fits(o, r, position)
    BY <2>1, <2>2 DEF Fits, Swaps
  <2> QED
    BY <2>3, <2>4, AskKeeps
<1>2. ASSUME NEW op, NEW o, NEW pair, NEW n, Sound(o, slippage),
             Ask(Asked(op, pair, n, slippage), o)
      PROVE  PlanFits'
  BY <1>2, SoundFits, AskKeeps
<1>3. ASSUME NEW op \in Opens, NEW o, NEW pair, NEW n, NEW zap, Careful(o),
             Ask([Asked(op, pair, n, slippage) EXCEPT !.zap = zap], o)
      PROVE  PlanFits'
  BY <1>3, OpenFits, AskKeeps
<1>4. ASSUME NEW pair \in Pairs, NEW n \in Amounts, AskCollateralSwap(pair, n, slippage, net)
      PROVE  PlanFits'
  BY <1>2, <1>4, CollateralSwapSound DEF AskCollateralSwap
<1>5. ASSUME NEW pair \in Pairs, NEW n \in Amounts, AskDebtSwap(pair, n, slippage, net)
      PROVE  PlanFits'
  BY <1>2, <1>5, DebtSwapSound DEF AskDebtSwap
<1>6. ASSUME NEW pair \in Pairs, NEW n \in Amounts, AskLeverageByCollateral(pair, n, slippage, net)
      PROVE  PlanFits'
  BY <1>2, <1>6, LeverageByCollateralSound DEF AskLeverageByCollateral
<1>7. ASSUME NEW pair \in Pairs, NEW n \in Amounts, AskLeverageByDebt(pair, n, slippage, net)
      PROVE  PlanFits'
  BY <1>2, <1>7, LeverageByDebtSound DEF AskLeverageByDebt
<1>8. ASSUME NEW pair \in Pairs, NEW n \in Amounts, AskDeleverage(pair, n, slippage, net)
      PROVE  PlanFits'
  BY <1>2, <1>8, DeleverageSound DEF AskDeleverage
<1>9. ASSUME NEW pair \in Pairs, NEW n \in Amounts, AskZapSupply(pair, n, slippage, net)
      PROVE  PlanFits'
  BY <1>2, <1>9, ZapSupplySound DEF AskZapSupply, Loanless
<1>10. ASSUME NEW pair \in Pairs, NEW n \in Amounts, AskZapWithdraw(pair, n, slippage, net)
       PROVE  PlanFits'
  BY <1>2, <1>10, ZapWithdrawSound DEF AskZapWithdraw, Loanless
<1>11. ASSUME NEW pair \in Pairs, NEW n \in Amounts, AskZapBorrow(pair, n, slippage, net)
       PROVE  PlanFits'
  BY <1>2, <1>11, ZapBorrowSound DEF AskZapBorrow, Loanless
<1>12. ASSUME NEW pair \in Pairs, NEW n \in Amounts, AskZapRepay(pair, n, slippage, net)
       PROVE  PlanFits'
  BY <1>2, <1>12, ZapRepaySound DEF AskZapRepay, Loanless
<1>13. ASSUME NEW pair \in Pairs, NEW n \in Amounts, NEW zap \in Zaps,
              AskOpenByCollateral(pair, n, zap, slippage, net)
       PROVE  PlanFits'
  BY <1>3, <1>13, OpenCareful, RequestAssumption DEF AskOpenByCollateral, OpenByCollateral, Opens
<1>14. ASSUME NEW pair \in Pairs, NEW n \in Amounts, NEW zap \in Zaps,
              AskOpenByDebt(pair, n, zap, slippage, net)
       PROVE  PlanFits'
  BY <1>3, <1>14, OpenCareful, RequestAssumption DEF AskOpenByDebt, OpenByDebt, Opens
<1> QED
  BY <1>1, <1>4, <1>5, <1>6, <1>7, <1>8, <1>9, <1>10, <1>11, <1>12, <1>13, <1>14

LEMMA PlansFit == Spec => []PlanFits
<1>1. Init => PlanFits
  BY DEF Init, PlanFits
<1>2. PlanFits /\ [Next]_vars => PlanFits'
  <2> SUFFICES ASSUME PlanFits, [Next]_vars PROVE PlanFits'
    OBVIOUS
  <2>1. CASE AskOperation
    BY <2>1, AskStep
  <2>2. CASE SendTransaction \/ Revert \/ Commit
    BY <2>2 DEF SendTransaction, Revert, Commit, PlanFits
  <2>3. CASE ExecuteLogic
    BY <2>3 DEF ExecuteLogic, PlanFits
  <2>4. CASE UNCHANGED vars
    BY <2>4 DEF vars, PlanFits, Fits, Careful, Swaps, Covered
  <2> QED
    BY <2>1, <2>2, <2>3, <2>4 DEF Next
<1> QED
  BY <1>1, <1>2, PTL DEF Spec

\* Of every operation but a close: what fails, fails before anything on the market, its
\* output holds neither a step there nor a loan.  A close's list stops where its swap failed.
THEOREM FailuresTouchNothing == Spec => []FailedTouchNothing
<1>1. PlanFits => FailedTouchNothing
  BY DEF PlanFits, Fits, Careful, OnlyKinds, List, FailedTouchNothing
<1> QED
  BY <1>1, PlansFit, PTL

\* No swap promises more than the market quotes for what it is given, and none is made
\* with another slippage than the caller's, however many swaps a close needs.
THEOREM SwapsAreAsAsked == Spec => []SwapsAsAsked
<1>1. PlanFits => SwapsAsAsked
  BY DEF PlanFits, Fits, Swaps, Honest, List, AsAsked, SwapsAsAsked, Tolerates, Promised, Places
<1> QED
  BY <1>1, PlansFit, PTL

\* If no account owes while it has nothing supplied, every loan is paid back in the
\* amount it was taken, with all steps on the market in between, in an opening too,
\* whose supply the zapped amount joins afterwards.
THEOREM LoansArePaired ==
    ASSUME \A p \in Positions : Covered(p)
    PROVE  Spec => []LoansPaired
<1>1. PlanFits => LoansPaired
  <2> SUFFICES ASSUME PlanFits, Promised PROVE LoansPaired
    BY DEF LoansPaired
  <2> DEFINE s == plan.logics
  <2>1. Paired(s)
    BY DEF PlanFits, Fits, Promised
  <2>2. DOMAIN s = 1..Len(s)
    BY <2>1 DEF Paired, List
  <2>3. ASSUME NEW i \in Places("loan")
        PROVE  \E j \in Places("loanRepay") :
                 /\ s[i].output = s[j].input
                 /\ \A k \in Places("supply") \cup Places("withdraw") \cup Places("borrow")
                               \cup Places("repay") : i < k /\ k < j
    <3>1. PICK j \in 1..Len(s) : Encloses(s, i, j)
      BY <2>1, <2>2 DEF Paired, Places
    <3> QED
      BY <2>2, <3>1 DEF Encloses, Market, Places
  <2> QED
    BY <2>3 DEF LoansPaired
<1> QED
  BY <1>1, PlansFit, PTL

-----------------------------------------------------------------------------
(* What a list takes from the user.                                         *)

Havings == [AgentTokens -> Nat]
Count(f, h) == [funds |-> f, have |-> h]
Sum(f, g) == [t \in AgentTokens |-> f[t] + g[t]]
Only(t, n) == [u \in AgentTokens |-> IF u = t THEN n ELSE 0]
Less(h, t, n) == [u \in AgentTokens |-> IF u = t THEN h[u] - n ELSE h[u]]
More(h, t, n) == [u \in AgentTokens |-> IF u = t THEN h[u] + n ELSE h[u]]

\* The estimate, having come to one count, comes to another over the logics of s.
Reaches(from, s, to) ==
    /\ List(s)
    /\ \E a : /\ a[0] = from /\ a[Len(s)] = to
              /\ \A i \in 1..Len(s) : a[i] = CountLogic(a[i - 1], s[i])

\* With h at hand, the list takes drawn from the user and leaves rest.
Takes(h, s, rest, drawn) ==
    /\ List(s) /\ h \in Havings /\ rest \in Havings /\ drawn \in Havings
    /\ \A f \in Havings : Reaches(Count(f, h), s, Count(Sum(f, drawn), rest))

\* With h at hand, the list takes nothing and leaves rest.
Pays(h, s, rest) == Takes(h, s, rest, NoFunds)

\* What the whole list takes.
Asks(s, funds) == \E rest : Takes(NoFunds, s, rest, funds)

LEMMA ReachesOn ==
    ASSUME NEW x, NEW s, NEW y, NEW t, NEW z, Reaches(x, s, y), Reaches(y, t, z)
    PROVE  Reaches(x, s \o t, z)
<1> DEFINE m == Len(s)
           n == Len(t)
<1>1. /\ List(s \o t) /\ Len(s \o t) = m + n /\ m \in Nat /\ n \in Nat
      /\ \A i \in 1..m : (s \o t)[i] = s[i]
      /\ \A i \in (m + 1)..(m + n) : (s \o t)[i] = t[i - m] /\ i - m \in 1..n
  BY Joined DEF Reaches, List
<1>2. PICK a : a[0] = x /\ a[m] = y /\ \A i \in 1..m : a[i] = CountLogic(a[i - 1], s[i])
  BY DEF Reaches
<1>3. PICK b : b[0] = y /\ b[n] = z /\ \A i \in 1..n : b[i] = CountLogic(b[i - 1], t[i])
  BY DEF Reaches
<1> DEFINE c == [i \in 0..(m + n) |-> IF i <= m THEN a[i] ELSE b[i - m]]
<1> HIDE DEF m, n
<1>4. /\ \A i \in 0..m : c[i] = a[i]
      /\ \A i \in m..(m + n) : c[i] = b[i - m]
  BY <1>1, <1>2, <1>3
<1> HIDE DEF c
<1>5. c[0] = x /\ c[m + n] = z
  BY <1>1, <1>2, <1>3, <1>4
<1>6. ASSUME NEW i \in 1..(m + n) PROVE c[i] = CountLogic(c[i - 1], (s \o t)[i])
  <2>1. CASE i <= m
    <3>1. i \in 1..m /\ i \in 0..m /\ i - 1 \in 0..m
      BY <1>1, <2>1
    <3> QED
      BY <1>1, <1>2, <1>4, <3>1
  <2>2. CASE i > m
    <3>1. i \in (m + 1)..(m + n) /\ i \in m..(m + n) /\ i - 1 \in m..(m + n)
          /\ (i - 1) - m = (i - m) - 1
      BY <1>1, <2>2
    <3> QED
      BY <1>1, <1>3, <1>4, <3>1
  <2> QED
    BY <1>1, <2>1, <2>2
<1> QED
  BY <1>1, <1>5, <1>6 DEF Reaches

LEMMA ReachesNothing ==
    ASSUME NEW x
    PROVE  Reaches(x, <<>>, x)
<1> DEFINE a == [i \in 0..0 |-> x]
<1>1. List(<<>>) /\ Len(<<>>) = 0 /\ a[0] = x
  BY DEF List
<1> HIDE DEF a
<1> QED
  BY <1>1 DEF Reaches

LEMMA ReachesOne ==
    ASSUME NEW x, NEW l
    PROVE  Reaches(x, <<l>>, CountLogic(x, l))
<1> DEFINE a == [i \in 0..1 |-> IF i = 0 THEN x ELSE CountLogic(x, l)]
<1>1. List(<<l>>) /\ Len(<<l>>) = 1 /\ <<l>>[1] = l
  BY DEF List
<1>2. a[0] = x /\ a[1] = CountLogic(x, l)
  OBVIOUS
<1> HIDE DEF a
<1> QED
  BY <1>1, <1>2 DEF Reaches

\* The estimate is where its counting ends, for it cannot go two ways.
LEMMA EstimateReached ==
    ASSUME NEW s, NEW to, Reaches(Count(NoFunds, NoFunds), s, to)
    PROVE  Estimate(s) = to.funds
<1> DEFINE n == Len(s)
           base == Count(NoFunds, NoFunds)
           Solves(g) == g = [i \in 0..n |-> IF i = 0 THEN base ELSE CountLogic(g[i - 1], s[i])]
           after == CHOOSE g : Solves(g)
<1>1. n \in Nat
  BY DEF Reaches, List
<1>2. PICK a : a[0] = base /\ a[n] = to /\ \A i \in 1..n : a[i] = CountLogic(a[i - 1], s[i])
  BY DEF Reaches
<1>3. Estimate(s) = after[n].funds
  BY DEF Estimate, Count
<1> HIDE DEF base, n
<1>4. Solves(after)
  <2> DEFINE g == [i \in 0..n |-> a[i]]
  <2>1. \A i \in 0..n : i # 0 => i \in 1..n /\ i - 1 \in 0..n
    BY <1>1
  <2>2. \A i \in 0..n : a[i] = IF i = 0 THEN base ELSE CountLogic(g[i - 1], s[i])
    BY <1>2, <2>1
  <2>3. Solves(g)
    BY <2>2
  <2> HIDE DEF g, Solves
  <2> QED
    BY <2>3
<1> HIDE DEF after
<1>5. after[0] = base /\ \A i \in 1..n : after[i] = CountLogic(after[i - 1], s[i])
  BY <1>1, <1>4
<1> DEFINE P == {i \in 0..n : after[i] = a[i]}
<1>6. 0 \in P
  BY <1>1, <1>2, <1>5
<1>7. ASSUME NEW i \in 1..n, i - 1 \in P PROVE i \in P
  BY <1>1, <1>2, <1>5, <1>7
<1>8. n \in P
  <2> HIDE DEF P
  <2> QED
    BY <1>1, <1>6, <1>7, UpTo
<1> QED
  BY <1>2, <1>3, <1>8

LEMMA HavingsTyped ==
    /\ NoFunds \in Havings
    /\ \A f, g \in Havings : Sum(f, g) \in Havings
    /\ \A f \in Havings : Sum(f, NoFunds) = f /\ Sum(NoFunds, f) = f
    /\ \A t : \A n \in Nat : Only(t, n) \in Havings /\ Only(t, 0) = NoFunds
    /\ \A h \in Havings : \A t : \A n \in Nat : More(h, t, n) \in Havings /\ More(h, t, 0) = h
<1>1. NoFunds \in Havings
  BY DEF NoFunds, Havings
<1>2. ASSUME NEW f \in Havings, NEW g \in Havings PROVE Sum(f, g) \in Havings
  BY DEF Sum, Havings
<1>3. ASSUME NEW f \in Havings PROVE Sum(f, NoFunds) = f /\ Sum(NoFunds, f) = f
  BY DEF Sum, Havings, NoFunds
<1>4. ASSUME NEW t, NEW n \in Nat PROVE Only(t, n) \in Havings /\ Only(t, 0) = NoFunds
  BY DEF Only, Havings, NoFunds
<1>5. ASSUME NEW h \in Havings, NEW t, NEW n \in Nat
      PROVE  More(h, t, n) \in Havings /\ More(h, t, 0) = h
  BY DEF More, Havings
<1> QED
  BY <1>1, <1>2, <1>3, <1>4, <1>5

LEMMA TakesOn ==
    ASSUME NEW h, NEW s, NEW g, NEW t, NEW rest, NEW drawn, NEW more,
           Takes(h, s, g, drawn), Takes(g, t, rest, more)
    PROVE  Takes(h, s \o t, rest, Sum(drawn, more))
<1>1. /\ h \in Havings /\ g \in Havings /\ rest \in Havings /\ drawn \in Havings /\ more \in Havings
      /\ List(s \o t)
  BY Joined DEF Takes
<1>2. ASSUME NEW f \in Havings
      PROVE  Reaches(Count(f, h), s \o t, Count(Sum(f, Sum(drawn, more)), rest))
  <2>1. Sum(f, drawn) \in Havings
    BY <1>1, HavingsTyped
  <2>2. Sum(Sum(f, drawn), more) = Sum(f, Sum(drawn, more))
    BY <1>1 DEF Sum, Havings
  <2>3. /\ Reaches(Count(f, h), s, Count(Sum(f, drawn), g))
        /\ Reaches(Count(Sum(f, drawn), g), t, Count(Sum(Sum(f, drawn), more), rest))
    BY <2>1 DEF Takes
  <2> QED
    BY <2>2, <2>3, ReachesOn
<1> QED
  BY <1>1, <1>2, HavingsTyped DEF Takes

\* A list that takes something next to one that takes nothing.
LEMMA TakesThenPays ==
    ASSUME NEW h, NEW s, NEW g, NEW t, NEW rest, NEW drawn,
           Takes(h, s, g, drawn), Pays(g, t, rest)
    PROVE  Takes(h, s \o t, rest, drawn)
<1>1. Sum(drawn, NoFunds) = drawn
  BY HavingsTyped DEF Takes
<1>2. Takes(h, s \o t, rest, Sum(drawn, NoFunds))
  BY TakesOn DEF Pays
<1> QED
  BY <1>1, <1>2

LEMMA PaysThenTakes ==
    ASSUME NEW h, NEW s, NEW g, NEW t, NEW rest, NEW drawn,
           Pays(h, s, g), Takes(g, t, rest, drawn)
    PROVE  Takes(h, s \o t, rest, drawn)
<1>1. Sum(NoFunds, drawn) = drawn
  BY HavingsTyped DEF Takes
<1>2. Takes(h, s \o t, rest, Sum(NoFunds, drawn))
  BY TakesOn DEF Pays
<1> QED
  BY <1>1, <1>2

LEMMA PaysOn ==
    ASSUME NEW h, NEW s, NEW g, NEW t, NEW rest, Pays(h, s, g), Pays(g, t, rest)
    PROVE  Pays(h, s \o t, rest)
  BY TakesThenPays DEF Pays

LEMMA PaysNothing ==
    ASSUME NEW h \in Havings
    PROVE  Pays(h, <<>>, h)
<1>1. List(<<>>)
  BY DEF List
<1> QED
  BY <1>1, ReachesNothing, HavingsTyped DEF Pays, Takes

\* What one logic does: it needs n of its input, of which the user adds z.
LEMMA Counted ==
    ASSUME NEW h \in Havings, NEW l, NEW n \in Nat, NEW z \in Nat, Provided(l) \in Nat,
           l.input.token \in AgentTokens \/ n = 0,
           \A t \in AgentTokens :
             (IF TakesInput(l) /\ t = l.input.token THEN Needed(l, h[t]) ELSE 0)
               = IF t = l.input.token THEN n ELSE 0,
           n # 0 => z = IF n > h[l.input.token] THEN n - h[l.input.token] ELSE 0,
           n = 0 => z = 0
    PROVE  Takes(h, <<l>>, More(Less(h, l.input.token, n - z), l.output.token, Provided(l)),
                 Only(l.input.token, z))
<1> DEFINE u == l.input.token
           v == l.output.token
           given == Provided(l)
           need == [t \in AgentTokens |-> IF TakesInput(l) /\ t = u THEN Needed(l, h[t]) ELSE 0]
           lack == [t \in AgentTokens |-> IF need[t] > h[t] THEN need[t] - h[t] ELSE 0]
           rest == More(Less(h, u, n - z), v, given)
<1>0. \A t \in AgentTokens : h[t] \in Nat
  BY DEF Havings
<1>1. \A t \in AgentTokens : need[t] = IF t = u THEN n ELSE 0
  OBVIOUS
<1>2. \A t \in AgentTokens : lack[t] = IF t = u THEN z ELSE 0
  <2> HIDE DEF need
  <2> QED
    BY <1>0, <1>1
<1>3. \A t \in AgentTokens : h[t] + lack[t] - need[t] = Less(h, u, n - z)[t]
                              /\ Less(h, u, n - z)[t] \in Nat
  <2> HIDE DEF need, lack
  <2> QED
    BY <1>0, <1>1, <1>2 DEF Less
<1>4. rest = [t \in AgentTokens |-> h[t] + lack[t] - need[t] + IF t = v THEN given ELSE 0]
      /\ rest \in Havings
  <2> HIDE DEF need, lack, given
  <2>1. \A t \in AgentTokens :
          (IF t = v THEN Less(h, u, n - z)[t] + given ELSE Less(h, u, n - z)[t])
            = h[t] + lack[t] - need[t] + IF t = v THEN given ELSE 0
    BY <1>3
  <2>2. \A t \in AgentTokens :
          (IF t = v THEN Less(h, u, n - z)[t] + given ELSE Less(h, u, n - z)[t]) \in Nat
    BY <1>3 DEF given
  <2> QED
    BY <2>1, <2>2 DEF More, Havings
<1>5. ASSUME NEW f \in Havings
      PROVE  CountLogic(Count(f, h), l) = Count(Sum(f, Only(u, z)), rest)
  <2>1. CountLogic(Count(f, h), l) =
          [funds |-> [t \in AgentTokens |-> f[t] + lack[t]],
           have |-> [t \in AgentTokens |-> h[t] + lack[t] - need[t] + IF t = v THEN given ELSE 0]]
    BY DEF CountLogic, Count
  <2>2. [t \in AgentTokens |-> f[t] + lack[t]] = Sum(f, Only(u, z))
    <3> HIDE DEF lack
    <3> QED
      BY <1>2 DEF Sum, Only
  <2> HIDE DEF rest, need, lack
  <2> QED
    BY <1>4, <2>1, <2>2 DEF Count
<1>6. List(<<l>>) /\ Only(u, z) \in Havings
  BY HavingsTyped DEF List
<1> HIDE DEF rest, u
<1> QED
  BY <1>4, <1>5, <1>6, ReachesOne DEF Takes, u, rest

-----------------------------------------------------------------------------
(* What a logic is billed and what it gives.                                 *)

IsAmount(a) == a = TokenAmount(a.token, a.amount) /\ a.token \in AgentTokens /\ a.amount \in Nat

\* With h at hand, a can be paid.
Has(h, a) == a # NoAmount => a.token \in AgentTokens /\ a.amount <= h[a.token]

Bill(l) == IF TakesInput(l) THEN TokenAmount(l.input.token, Owed(l)) ELSE NoAmount
Gift(l) == TokenAmount(l.output.token, Provided(l))
Fair(l) ==
    /\ l.bps \in BOOLEAN /\ Owed(l) \in Nat /\ Provided(l) \in Nat
    /\ TakesInput(l) => IsAmount(Bill(l))
    /\ Gift(l) = NoAmount \/ IsAmount(Gift(l))

\* What a logic takes of its input, the bill at hand, and what it leaves.
Spent(h, l) == IF ~TakesInput(l) THEN 0 ELSE IF l.bps THEN h[l.input.token] ELSE Owed(l)
After(h, l) == More(Less(h, l.input.token, Spent(h, l)), l.output.token, Provided(l))

LEMMA NoneIsNoToken == "none" \notin AgentTokens
  BY ReceiptAssumption DEF AgentTokens, ReceiptTokens

\* A logic that can pay its bill takes nothing from the user.
LEMMA BillPaid ==
    ASSUME NEW h \in Havings, NEW l, Fair(l), Has(h, Bill(l))
    PROVE  Pays(h, <<l>>, After(h, l)) /\ After(h, l) \in Havings
<1> DEFINE u == l.input.token
           n == Spent(h, l)
<1>1. TakesInput(l) => u \in AgentTokens /\ Owed(l) <= h[u] /\ h[u] \in Nat
  <2> SUFFICES ASSUME TakesInput(l) PROVE u \in AgentTokens /\ Owed(l) <= h[u] /\ h[u] \in Nat
    OBVIOUS
  <2>1. Bill(l).token = u /\ Bill(l).amount = Owed(l) /\ Bill(l) = TokenAmount(u, Owed(l))
    BY DEF Bill, TokenAmount
  <2>2. Bill(l) # NoAmount
    <3>1. u # "none"
      BY <2>1, NoneIsNoToken DEF Fair, IsAmount
    <3> QED
      BY <2>1, <3>1 DEF NoAmount, TokenAmount
  <2> QED
    BY <2>1, <2>2 DEF Has, Havings
<1>2. n \in Nat
  BY <1>1 DEF Spent, Fair
<1>3. u \in AgentTokens \/ n = 0
  BY <1>1 DEF Spent
<1>4. \A t \in AgentTokens :
         (IF TakesInput(l) /\ t = u THEN Needed(l, h[t]) ELSE 0) = IF t = u THEN n ELSE 0
  BY <1>1 DEF Spent, Needed, Fair
<1>5. n # 0 => 0 = IF n > h[u] THEN n - h[u] ELSE 0
  BY <1>1 DEF Spent, Fair
<1>6. n - 0 = n
  BY <1>2
<1>7. Takes(h, <<l>>, More(Less(h, u, n - 0), l.output.token, Provided(l)), Only(u, 0))
  <2> HIDE DEF n
  <2> QED
    BY <1>2, <1>3, <1>4, <1>5, Counted DEF Fair
<1>8. Only(u, 0) = NoFunds
  BY HavingsTyped
<1>9. Takes(h, <<l>>, After(h, l), NoFunds)
  BY <1>6, <1>7, <1>8 DEF After
<1> QED
  BY <1>9 DEF Pays, Takes

-----------------------------------------------------------------------------
(* Lists that live on what they are handed.                                  *)

\* Whoever has a can run the list, and has b afterwards.
Turns(s, a, b) == \A h \in Havings : Has(h, a) => \E g : Pays(h, s, g) /\ Has(g, b)

LEMMA TurnsOn ==
    ASSUME NEW s, NEW t, NEW a, NEW b, NEW c, Turns(s, a, b), Turns(t, b, c)
    PROVE  Turns(s \o t, a, c)
<1> SUFFICES ASSUME NEW h \in Havings, Has(h, a)
             PROVE  \E g : Pays(h, s \o t, g) /\ Has(g, c)
  BY DEF Turns
<1>1. PICK g : Pays(h, s, g) /\ Has(g, b)
  BY DEF Turns
<1>2. g \in Havings
  BY <1>1 DEF Pays, Takes
<1>3. PICK k : Pays(g, t, k) /\ Has(k, c)
  BY <1>1, <1>2 DEF Turns
<1>4. Pays(h, s \o t, k)
  BY <1>1, <1>3, PaysOn
<1> QED
  BY <1>3, <1>4

LEMMA TurnsNothing ==
    ASSUME NEW a
    PROVE  Turns(<<>>, a, a)
  BY PaysNothing DEF Turns

\* Whoever has as much as b has b, and nothing is always there.
Covers(a, b) == b = NoAmount \/ (a # NoAmount /\ b.token = a.token /\ b.amount <= a.amount
                                 /\ a.amount \in Nat /\ b.amount \in Nat)

LEMMA TurnsLess ==
    ASSUME NEW s, NEW a, NEW b, NEW c, NEW d, Turns(s, b, c), Covers(a, b), Covers(c, d)
    PROVE  Turns(s, a, d)
<1>1. ASSUME NEW x, NEW y, NEW h \in Havings, Has(h, x), Covers(x, y) PROVE Has(h, y)
  BY <1>1 DEF Has, Covers, Havings
<1> SUFFICES ASSUME NEW h \in Havings, Has(h, a)
             PROVE  \E g : Pays(h, s, g) /\ Has(g, d)
  BY DEF Turns
<1>2. PICK g : Pays(h, s, g) /\ Has(g, c)
  BY <1>1 DEF Turns
<1>3. g \in Havings
  BY <1>2 DEF Pays, Takes
<1> QED
  BY <1>1, <1>2, <1>3

\* A logic that can pay its bill leaves what it gives.
LEMMA GiftLeft ==
    ASSUME NEW h \in Havings, NEW l, Fair(l), Has(h, Bill(l))
    PROVE  Has(After(h, l), Gift(l))
<1> SUFFICES ASSUME Gift(l) # NoAmount
             PROVE  Gift(l).token \in AgentTokens /\ Gift(l).amount <= After(h, l)[Gift(l).token]
  BY DEF Has
<1>1. IsAmount(Gift(l)) /\ Gift(l).token = l.output.token /\ Gift(l).amount = Provided(l)
  BY DEF Fair, Gift, TokenAmount
<1> DEFINE v == l.output.token
<1>2. v \in AgentTokens /\ Provided(l) \in Nat
  BY <1>1 DEF IsAmount
<1>3. Spent(h, l) \in Nat /\ (v = l.input.token => Spent(h, l) <= h[v]) /\ h[v] \in Nat
  <2>1. h[v] \in Nat
    BY <1>2 DEF Havings
  <2>2. TakesInput(l) => Bill(l).token = l.input.token /\ Bill(l).amount = Owed(l)
                         /\ l.input.token \in AgentTokens /\ Owed(l) \in Nat
    BY DEF Bill, TokenAmount, Fair, IsAmount
  <2>3. TakesInput(l) => Bill(l) # NoAmount
    BY <2>2, NoneIsNoToken DEF NoAmount, TokenAmount
  <2>4. TakesInput(l) => Owed(l) <= h[l.input.token] /\ h[l.input.token] \in Nat
    BY <2>2, <2>3 DEF Has, Havings
  <2> QED
    BY <2>1, <2>2, <2>4 DEF Spent
<1>4. After(h, l)[v] >= Provided(l)
  BY <1>2, <1>3 DEF After, More, Less
<1> QED
  BY <1>1, <1>2, <1>4

\* One logic turns its bill into its gift.
LEMMA OneTurns ==
    ASSUME NEW l, Fair(l)
    PROVE  Turns(<<l>>, Bill(l), Gift(l))
<1> SUFFICES ASSUME NEW h \in Havings, Has(h, Bill(l))
             PROVE  \E g : Pays(h, <<l>>, g) /\ Has(g, Gift(l))
  BY DEF Turns
<1> QED
  BY BillPaid, GiftLeft

-----------------------------------------------------------------------------
(* The Adapter's logics, one by one.                                         *)

\* An amount of a token of the market.
Underlies(a) == a = TokenAmount(a.token, a.amount) /\ a.token \in Tokens /\ a.amount \in Nat

\* What a withdrawal is billed: the receipt, if there is one.
Claim(a) == IF a.token \in AssetTokenized THEN Receipt(a) ELSE NoAmount

\* What is left of an amount, of a claim and of what a withdrawal gives when the wei go
\* missing that the operations set aside.
Short(a) == TokenAmount(a.token, a.amount - SetAside)
Claimed(out) == IF out.token \in AssetTokenized THEN Short(Receipt(out)) ELSE NoAmount
Arriving(out) == IF out.token \in AssetTokenized THEN Short(out) ELSE out

LEMMA AmountsAre ==
    ASSUME NEW a, Underlies(a)
    PROVE  /\ IsAmount(a) /\ a # NoAmount /\ a.token # "none"
           /\ IsAmount(Receipt(a)) /\ Receipt(a) # NoAmount
           /\ Receipt(a).token = ProtocolToken[a.token] /\ Receipt(a).amount = a.amount
           /\ Receipt(a).token \notin Tokens
<1>1. a.token \in AgentTokens /\ ProtocolToken[a.token] \in AgentTokens
      /\ "none" \notin {a.token, ProtocolToken[a.token]} /\ ProtocolToken[a.token] \notin Tokens
  BY ReceiptAssumption DEF Underlies, AgentTokens, ReceiptTokens
<1>2. IsAmount(a)
  BY <1>1 DEF Underlies, IsAmount
<1>3. /\ Receipt(a).token = ProtocolToken[a.token] /\ Receipt(a).amount = a.amount
      /\ Receipt(a) = TokenAmount(Receipt(a).token, Receipt(a).amount)
  BY DEF Receipt, TokenAmount
<1>4. NoAmount.token = "none"
  BY DEF NoAmount, TokenAmount
<1> QED
  BY <1>1, <1>2, <1>3, <1>4 DEF IsAmount, Underlies

LEMMA LogicParts ==
    ASSUME NEW kind, NEW input, NEW output, NEW bps, NEW slippage
    PROVE  LET l == Logic(kind, input, output, bps, slippage)
           IN  l.kind = kind /\ l.input = input /\ l.output = output /\ l.bps = bps
  BY DEF Logic

\* A logic that is neither a swap nor a repayment of the loan.
LEMMA PlainTurns ==
    ASSUME NEW kind, NEW input, NEW output, NEW bps \in BOOLEAN,
           kind \notin {"swap", "loanRepay"},
           input = NoAmount \/ IsAmount(input), output = NoAmount \/ IsAmount(output)
    PROVE  /\ Turns(<<Logic(kind, input, output, bps, 0)>>,
                    IF kind = "withdraw" /\ output.token \notin AssetTokenized THEN NoAmount ELSE input,
                    output)
           /\ Fair(Logic(kind, input, output, bps, 0))
<1> DEFINE l == Logic(kind, input, output, bps, 0)
<1>1. l.kind = kind /\ l.input = input /\ l.output = output /\ l.bps = bps
  BY LogicParts
<1> HIDE DEF l
<1>2. \A a \in {input, output} : a = TokenAmount(a.token, a.amount) /\ a.amount \in Nat
  BY DEF IsAmount, NoAmount, TokenAmount
<1>3. Owed(l) = input.amount /\ Provided(l) = output.amount
  BY <1>1 DEF Owed, Provided
<1>4. Gift(l) = output
  BY <1>1, <1>2, <1>3 DEF Gift
<1>5. TakesInput(l) => Bill(l) = input /\ IsAmount(Bill(l))
  BY <1>1, <1>2, <1>3 DEF Bill, TakesInput
<1>6. Fair(l)
  BY <1>1, <1>2, <1>3, <1>4, <1>5 DEF Fair
<1>7. Bill(l) = IF kind = "withdraw" /\ output.token \notin AssetTokenized THEN NoAmount ELSE input
  BY <1>1, <1>5 DEF Bill, TakesInput
<1>8. /\ Turns(<<l>>, IF kind = "withdraw" /\ output.token \notin AssetTokenized THEN NoAmount ELSE input,
               output)
      /\ Fair(l)
  BY <1>4, <1>6, <1>7, OneTurns
<1> QED
  BY <1>8 DEF l

LEMMA NothingIsNone == NoAmount.token = "none" /\ NoAmount.amount = 0
  BY DEF NoAmount, TokenAmount

LEMMA MarketTurns ==
    ASSUME NEW a, Underlies(a), NEW bps \in BOOLEAN
    PROVE  /\ Turns(<<Loan(a)>>, NoAmount, a)
           /\ Turns(<<SupplyLogic(a, bps)>>, a, Receipt(a))
           /\ Turns(<<WithdrawLogic(a, bps)>>, Claim(a), a)
           /\ Turns(<<BorrowLogic(a)>>, NoAmount, a)
           /\ Turns(<<RepayLogic(a, bps)>>, a, NoAmount)
           /\ Turns(<<SendToken(Receipt(a))>>, Receipt(a), NoAmount)
           /\ Turns(<<PullToken(Receipt(a))>>, NoAmount, Receipt(a))
<1>0. IsAmount(a) /\ IsAmount(Receipt(a)) /\ a # NoAmount /\ Receipt(a) # NoAmount
  BY AmountsAre
<1>1. Turns(<<Loan(a)>>, NoAmount, a)
  BY <1>0, PlainTurns DEF Loan
<1>2. Turns(<<SupplyLogic(a, bps)>>, a, Receipt(a))
  BY <1>0, PlainTurns DEF SupplyLogic
<1>3. Turns(<<WithdrawLogic(a, bps)>>, Claim(a), a)
  <2>1. Turns(<<Logic("withdraw", Receipt(a), a, bps, 0)>>,
              IF "withdraw" = "withdraw" /\ a.token \notin AssetTokenized THEN NoAmount
              ELSE Receipt(a), a)
    BY <1>0, PlainTurns
  <2> QED
    BY <2>1 DEF WithdrawLogic, Claim
<1>4. Turns(<<BorrowLogic(a)>>, NoAmount, a)
  BY <1>0, PlainTurns DEF BorrowLogic
<1>5. Turns(<<RepayLogic(a, bps)>>, a, NoAmount)
  BY <1>0, PlainTurns DEF RepayLogic
<1>6. Turns(<<SendToken(Receipt(a))>>, Receipt(a), NoAmount)
  <2>1. IsAmount(Receipt(a)) /\ TRUE \in BOOLEAN
    BY <1>0
  <2>2. Turns(<<Logic("send", Receipt(a), NoAmount, TRUE, 0)>>,
              IF "send" = "withdraw" /\ NoAmount.token \notin AssetTokenized THEN NoAmount
              ELSE Receipt(a), NoAmount)
    BY <2>1, PlainTurns
  <2> QED
    BY <2>2 DEF SendToken
<1>7. Turns(<<PullToken(Receipt(a))>>, NoAmount, Receipt(a))
  <2>1. IsAmount(Receipt(a)) /\ FALSE \in BOOLEAN
    BY <1>0
  <2>2. Turns(<<Logic("pull", NoAmount, Receipt(a), FALSE, 0)>>,
              IF "pull" = "withdraw" /\ Receipt(a).token \notin AssetTokenized THEN NoAmount
              ELSE NoAmount, Receipt(a))
    BY <2>1, PlainTurns
  <2> QED
    BY <2>2 DEF PullToken
<1> QED
  BY <1>1, <1>2, <1>3, <1>4, <1>5, <1>6, <1>7

LEMMA SwapsDeliver ==
    ASSUME NEW t \in Tokens, NEW u \in Tokens, NEW n \in Nat
    PROVE  SwapOutput(t, u, n) \in Nat /\ SwapInput(t, u, n) \in Nat
<1>1. ASSUME NEW v \in Tokens, NEW w \in Tokens PROVE SwapOutput(v, w, n) \in Nat
  <2>1. Price[v] \in Nat /\ Price[w] \in Nat /\ Price[w] > 0
    BY FigureAssumption, QuoteAssumption
  <2>2. BPS_BASE - SwapFeeBps \in Nat /\ BPS_BASE \in Nat \ {0}
    BY FeeAssumption DEF BPS_BASE
  <2>3. n * Price[v] * (BPS_BASE - SwapFeeBps) \in Nat
    <3>1. n * Price[v] \in Nat
      BY <2>1
    <3> QED
      BY <2>2, <3>1
  <2>4. Price[w] * BPS_BASE \in Nat \ {0}
    BY <2>1 DEF BPS_BASE
  <2> QED
    BY <2>3, <2>4, DivBounds DEF SwapOutput
<1>2. CASE ReverseQuotes
  BY <1>1, <1>2 DEF SwapInput
<1>3. CASE ~ReverseQuotes
  <2> DEFINE wanted == n * Price[u] * BPS_BASE
             unit == Price[t] * (BPS_BASE - SwapFeeBps)
  <2>1. Price[t] \in Nat /\ Price[u] \in Nat /\ Price[t] > 0
    BY FigureAssumption, QuoteAssumption
  <2>2. BPS_BASE - SwapFeeBps \in Nat \ {0} /\ BPS_BASE \in Nat
    BY FeeAssumption DEF BPS_BASE
  <2>3. wanted \in Nat
    <3>1. n * Price[u] \in Nat
      BY <2>1
    <3> QED
      BY <2>2, <3>1
  <2>4. unit \in Nat \ {0}
    BY <2>1, <2>2
  <2>5. SwapInput(t, u, n) = (wanted + unit - 1) \div unit
    BY <1>3 DEF SwapInput
  <2> HIDE DEF wanted, unit
  <2>6. wanted + unit - 1 \in Nat
    BY <2>3, <2>4
  <2>7. SwapInput(t, u, n) \in Nat
    BY <2>4, <2>5, <2>6, DivBounds
  <2> QED
    BY <1>1, <2>7
<1> QED
  BY <1>2, <1>3

\* A swap turns its input into what the market quotes, whatever output it states.
LEMMA SwapTurns ==
    ASSUME NEW input, Underlies(input), NEW output, output.token \in Tokens, NEW slippage
    PROVE  LET l == Logic("swap", input, output, FALSE, slippage)
               quoted == TokenAmount(output.token, SwapOutput(input.token, output.token, input.amount))
           IN  Fair(l) /\ TakesInput(l) /\ Bill(l) = input /\ Gift(l) = quoted
               /\ Turns(<<l>>, input, quoted)
<1> DEFINE l == Logic("swap", input, output, FALSE, slippage)
           n == SwapOutput(input.token, output.token, input.amount)
           quoted == TokenAmount(output.token, n)
<1>1. l.kind = "swap" /\ l.input = input /\ l.output = output /\ l.bps = FALSE
  BY DEF Logic
<1>2. n \in Nat
  BY SwapsDeliver DEF Underlies
<1>3. Underlies(quoted)
  BY <1>2 DEF Underlies, TokenAmount
<1>4. Owed(l) = input.amount /\ Provided(l) = n
  BY <1>1 DEF Owed, Provided
<1> HIDE DEF l, n
<1>5. TakesInput(l) /\ Bill(l) = input
  BY <1>1, <1>4, AmountsAre DEF Bill, TakesInput, Underlies
<1>6. Gift(l) = quoted
  BY <1>1, <1>4 DEF Gift
<1>7. Fair(l)
  BY <1>1, <1>2, <1>3, <1>4, <1>5, <1>6, AmountsAre DEF Fair, Underlies
<1>8. Turns(<<l>>, input, quoted)
  BY <1>5, <1>6, <1>7, OneTurns
<1> QED
  BY <1>5, <1>6, <1>7, <1>8 DEF l, n

\* What a quotation says, exact in or exact out.
IsQuote(q, from, to) ==
    /\ Underlies(q.input) /\ Underlies(q.output)
    /\ q.input.token = from /\ q.output.token = to
    /\ q.output.amount = SwapOutput(from, to, q.input.amount) /\ q.slippage \in 0..BPS_BASE
    /\ Turns(<<SwapToken(q)>>, q.input, q.output)

LEMMA QuoteInIs ==
    ASSUME NEW input, Underlies(input), NEW to \in Tokens, NEW slippage \in 0..BPS_BASE
    PROVE  IsQuote(QuoteIn(input, to, slippage), input.token, to)
           /\ QuoteIn(input, to, slippage).input = input
<1> DEFINE n == SwapOutput(input.token, to, input.amount)
           q == QuoteIn(input, to, slippage)
<1>1. q.input = input /\ q.output = TokenAmount(to, n) /\ q.slippage = slippage
  BY DEF QuoteIn
<1>2. n \in Nat
  BY SwapsDeliver DEF Underlies
<1>3. Underlies(q.output) /\ q.output.token = to /\ q.output.amount = n
  BY <1>1, <1>2 DEF Underlies, TokenAmount
<1>4. SwapToken(q) = Logic("swap", input, q.output, FALSE, slippage)
  BY <1>1 DEF SwapToken
<1>5. Turns(<<SwapToken(q)>>, input, TokenAmount(to, n))
  BY <1>3, <1>4, SwapTurns
<1> QED
  BY <1>1, <1>3, <1>5 DEF IsQuote

LEMMA QuoteOutIs ==
    ASSUME NEW from \in Tokens, NEW output, Underlies(output), NEW slippage \in 0..BPS_BASE
    PROVE  IsQuote(QuoteOut(from, output, slippage), from, output.token)
<1> DEFINE input == TokenAmount(from, SwapInput(from, output.token, output.amount))
<1>1. Underlies(input) /\ input.token = from
  BY SwapsDeliver DEF Underlies, TokenAmount
<1>2. QuoteOut(from, output, slippage) = QuoteIn(input, output.token, slippage)
  BY DEF QuoteOut
<1> HIDE DEF input
<1> QED
  BY <1>1, <1>2, QuoteInIs DEF Underlies

\* The fee of a flash loan as the Adapter and the lending pool reckon it.
LEMMA FeesAgree ==
    ASSUME NEW loan, Underlies(loan)
    PROVE  Repays(loan) = Due(loan) /\ Underlies(Due(loan)) /\ Due(loan).token = loan.token
           /\ loan.amount <= Due(loan).amount
<1> DEFINE n == loan.amount * FlashLoanFeeBps
           fee == n \div BPS_BASE
<1>1. n \in Nat
  BY FeeAssumption DEF Underlies
<1>2. fee \in Nat
  <2> HIDE DEF n
  <2> QED
    BY <1>1, DivBounds DEF BPS_BASE
<1>3. CalcFee(loan.amount, FlashLoanFeeBps, "floor") = fee
  <2>1. n + 0 = n
    BY <1>1
  <2> QED
    BY <2>1 DEF CalcFee
<1>4. Due(loan) = TokenAmount(loan.token, loan.amount + fee)
  BY DEF Due
<1>5. Repays(loan) = TokenAmount(loan.token, loan.amount + fee)
  BY <1>3 DEF Repays
<1> HIDE DEF fee
<1> QED
  BY <1>2, <1>4, <1>5 DEF Underlies, TokenAmount

LEMMA LoanRepayFair ==
    ASSUME NEW loan, Underlies(loan)
    PROVE  LET l == LoanRepay(loan)
           IN  /\ Fair(l) /\ TakesInput(l) /\ Bill(l) = Due(loan) /\ Gift(l) = NoAmount
               /\ l.input = loan /\ l.output = NoAmount /\ l.bps = FALSE
               /\ Owed(l) = Due(loan).amount
<1> DEFINE l == LoanRepay(loan)
<1>1. l.kind = "loanRepay" /\ l.input = loan /\ l.output = NoAmount /\ l.bps = FALSE
  BY DEF LoanRepay, Logic
<1>2. Owed(l) = Due(loan).amount /\ Provided(l) = 0
  BY <1>1 DEF Owed, Provided, NoAmount, TokenAmount
<1> HIDE DEF l
<1>3. TakesInput(l)
  BY <1>1, AmountsAre DEF TakesInput
<1>4. Bill(l) = Due(loan)
  BY <1>1, <1>2, <1>3, FeesAgree DEF Bill, Underlies
<1>5. Gift(l) = NoAmount
  BY <1>1, <1>2 DEF Gift, NoAmount, TokenAmount
<1>6. IsAmount(Due(loan)) /\ Due(loan).amount \in Nat
  BY FeesAgree, AmountsAre DEF Underlies
<1>7. l.bps \in BOOLEAN /\ Owed(l) \in Nat /\ Provided(l) \in Nat
  <2>1. Owed(l) \in Nat /\ Provided(l) \in Nat
    BY <1>2, <1>6
  <2>2. l.bps \in BOOLEAN
    BY DEF LoanRepay, Logic, l
  <2> QED
    BY <2>1, <2>2
<1>8. Fair(l)
  BY <1>4, <1>5, <1>6, <1>7 DEF Fair
<1> QED
  BY <1>1, <1>2, <1>3, <1>4, <1>5, <1>8 DEF l

LEMMA LoanRepayTurns ==
    ASSUME NEW loan, Underlies(loan)
    PROVE  Turns(<<LoanRepay(loan)>>, Due(loan), NoAmount)
  BY LoanRepayFair, OneTurns

\* A loan whose repayment was reversed can be repaid from it.
LEMMA ReversedIsDue ==
    ASSUME NEW repay, Underlies(repay)
    PROVE  Underlies(Loans(repay)) /\ Loans(repay).token = repay.token
           /\ Covers(repay, Due(Loans(repay)))
<1> DEFINE n == ReverseAmountWithFee(repay.amount, FlashLoanFeeBps)
           loan == Loans(repay)
<1>1. FlashLoanFeeBps \in Nat /\ repay.amount \in Nat
  BY FeeAssumption DEF Underlies
<1>2. n \in Nat
  <2>1. repay.amount * BPS_BASE \in Nat /\ BPS_BASE + FlashLoanFeeBps \in Nat \ {0}
    BY <1>1 DEF BPS_BASE
  <2> QED
    BY <2>1, DivBounds DEF ReverseAmountWithFee
<1>3. loan = TokenAmount(repay.token, n)
  BY DEF Loans
<1>4. n + CalcFee(n, FlashLoanFeeBps, "floor") <= repay.amount
  BY <1>1, ReversedLoanIsRepayable DEF FeeRoundingModes
<1> HIDE DEF n, loan
<1>5. loan.token = repay.token /\ loan.amount = n /\ Underlies(loan)
  BY <1>2, <1>3 DEF Underlies, TokenAmount
<1>6. Due(loan).amount = n + CalcFee(n, FlashLoanFeeBps, "floor") /\ Due(loan).token = repay.token
  <2>1. Due(loan) = Repays(loan)
    BY <1>5, FeesAgree
  <2> QED
    BY <1>5, <2>1 DEF Repays, TokenAmount
<1>7. Covers(repay, Due(loan))
  BY <1>4, <1>5, <1>6, FeesAgree, AmountsAre DEF Covers, Underlies
<1> QED
  BY <1>5, <1>7 DEF loan

-----------------------------------------------------------------------------
(* The five operations with a flash loan, each a chain of turns.             *)

LEMMA TwoTurns ==
    ASSUME NEW k, NEW l, NEW a, NEW b, NEW c, Turns(<<k>>, a, b), Turns(<<l>>, b, c)
    PROVE  Turns(<<k, l>>, a, c)
<1>1. Turns(<<k>> \o <<l>>, a, c)
  BY TurnsOn
<1>2. <<k>> \o <<l>> = <<k, l>>
  BY InOne
<1> QED
  BY <1>1, <1>2

LEMMA ThreeTurn ==
    ASSUME NEW k, NEW l, NEW m, NEW a, NEW b, NEW c, NEW d,
           Turns(<<k>>, a, b), Turns(<<l>>, b, c), Turns(<<m>>, c, d)
    PROVE  Turns(<<k, l, m>>, a, d)
<1>1. Turns(<<k, l>> \o <<m>>, a, d)
  BY TwoTurns, TurnsOn
<1>2. <<k, l>> \o <<m>> = <<k, l, m>>
  BY InOne
<1> QED
  BY <1>1, <1>2

\* The loan repaid from a withdrawal, and from a borrowing.
LEMMA WithdrawnRepays ==
    ASSUME NEW out, Underlies(out), NEW loan, Underlies(loan), Covers(out, Due(loan)),
           NEW bps \in BOOLEAN
    PROVE  Turns(<<WithdrawLogic(out, bps), LoanRepay(loan)>>, Claim(out), NoAmount)
<1>1. Turns(<<WithdrawLogic(out, bps)>>, Claim(out), out)
  BY MarketTurns
<1>2. Turns(<<LoanRepay(loan)>>, Due(loan), NoAmount)
  BY LoanRepayTurns
<1>3. Covers(NoAmount, NoAmount)
  BY DEF Covers
<1>4. Turns(<<LoanRepay(loan)>>, out, NoAmount)
  BY <1>2, <1>3, TurnsLess
<1> HIDE DEF Turns
<1> QED
  BY <1>1, <1>4, TwoTurns

LEMMA BorrowedRepays ==
    ASSUME NEW loan, Underlies(loan)
    PROVE  Turns(<<BorrowLogic(Repays(loan)), LoanRepay(loan)>>, NoAmount, NoAmount)
<1>1. Repays(loan) = Due(loan) /\ Underlies(Due(loan))
  BY FeesAgree
<1>2. Turns(<<BorrowLogic(Due(loan))>>, NoAmount, Due(loan))
  BY <1>1, MarketTurns
<1>3. Turns(<<LoanRepay(loan)>>, Due(loan), NoAmount)
  BY LoanRepayTurns
<1> QED
  BY <1>1, <1>2, <1>3, TwoTurns

\* A list that turns nothing into nothing asks the user for nothing.
LEMMA AsksNothing ==
    ASSUME NEW s, NEW b, Turns(s, NoAmount, b)
    PROVE  Asks(s, NoFunds)
<1>1. NoFunds \in Havings /\ Has(NoFunds, NoAmount)
  BY HavingsTyped DEF Has
<1> QED
  BY <1>1 DEF Turns, Asks, Pays

\* What a list asks for is what the estimate says.
LEMMA AskedIsEstimated ==
    ASSUME NEW s, NEW funds, Asks(s, funds)
    PROVE  Estimate(s) = funds
<1>1. PICK rest : Takes(NoFunds, s, rest, funds)
  BY DEF Asks
<1>2. NoFunds \in Havings /\ funds \in Havings
  BY <1>1 DEF Takes
<1>3. Reaches(Count(NoFunds, NoFunds), s, Count(Sum(NoFunds, funds), rest))
  BY <1>1, <1>2 DEF Takes
<1>4. Estimate(s) = Count(Sum(NoFunds, funds), rest).funds
  BY <1>3, EstimateReached
<1> QED
  BY <1>2, <1>4, HavingsTyped DEF Count

\* What an operation asks the user for, when it returns a list without an error.
Tells(o, funds) == o.error = "none" /\ o.logics # <<>> => Asks(o.logics, funds)

LEMMA WithoutAsking ==
    ASSUME NEW funds
    PROVE  /\ \A n, p, e : Tells(Output(n, p, e, <<>>), funds)
           /\ \A p, e : Tells(Failed(p, e), funds)
           /\ \A p : Tells(NoOperation(p), funds)
  BY DEF Tells, NoOperation, Failed, Output

LEMMA WithError ==
    ASSUME NEW funds, NEW e, e # "none"
    PROVE  \A n, p, s : Tells(Output(n, p, e, s), funds)
  BY DEF Tells, Output

LEMMA WithAsking ==
    ASSUME NEW s, NEW funds, Asks(s, funds)
    PROVE  \A n, p : Tells(Output(n, p, "none", s), funds)
  BY DEF Tells, Output

\* Where a receipt token is at hand, the operations count on a few wei less than they
\* are asked for, and so on less than nothing when asked for one or two.
MoreThanDust(t, n) == n \in {1, 2} => t \notin AssetTokenized
NoDust(supplies) == \A s \in SupplyTokens : MoreThanDust(s, supplies[s])

\* The list of a swap of one collateral for another: the receipts of the new supply go
\* back to the user, those of the old one are withdrawn.
Exchange(given, out) ==
    IF out.token \in AssetTokenized
    THEN <<SendToken(Receipt(given)), PullToken(Receipt(out))>> ELSE <<>>
SwapsCollateral(logics) ==
    \E out, loan, swap :
        /\ Underlies(out) /\ Underlies(Arriving(out)) /\ loan = Loans(Arriving(out))
        /\ IsQuote(swap, loan.token, swap.output.token) /\ swap.input = loan
        /\ logics = <<Loan(loan), SwapToken(swap), SupplyLogic(swap.output, TRUE)>>
                    \o Exchange(swap.output, out)
                    \o <<WithdrawLogic(out, out.token \in AssetTokenized), LoanRepay(loan)>>
IsCollateralSwap(o) == o.error = "none" /\ o.logics # <<>> => SwapsCollateral(o.logics)

LEMMA CollateralSwapIs ==
    ASSUME NEW p, NEW src \in Tokens, NEW dest \in Tokens,
           NEW amount \in Nat, MoreThanDust(src, amount), NEW slippage \in 0..BPS_BASE, NEW net
    PROVE  IsCollateralSwap(CollateralSwap(p, src, amount, dest, slippage, net))
<1> DEFINE tokenized == src \in AssetTokenized
           repay == TokenAmount(Wrapped[src], amount - (IF tokenized THEN 2 ELSE 0))
           loan == Loans(repay)
           swap == QuoteIn(loan, Wrapped[dest], slippage)
           output == TokenAmount(Wrapped[src], amount)
           moved == IF tokenized
                    THEN <<SendToken(Receipt(swap.output)), PullToken(Receipt(output))>>
                    ELSE <<>>
           logics == <<Loan(loan), SwapToken(swap), SupplyLogic(swap.output, TRUE)>>
                     \o moved \o <<WithdrawLogic(output, tokenized), LoanRepay(loan)>>
<1>0. /\ \A n, q, e : IsCollateralSwap(Output(n, q, e, <<>>))
      /\ \A q, e : IsCollateralSwap(Failed(q, e))
      /\ \A q : IsCollateralSwap(NoOperation(q))
  BY DEF IsCollateralSwap, NoOperation, Failed, Output
<1>1. CASE amount = 0
  BY <1>0, <1>1 DEF CollateralSwap
<1>2. CASE amount # 0
  <2>1. Wrapped[src] \in Tokens /\ Wrapped[dest] \in Tokens
        /\ (tokenized <=> Wrapped[src] \in AssetTokenized)
    BY WrapAssumption, ReceiptAssumption
  <2>2. /\ repay.token = Wrapped[src] /\ output.token = Wrapped[src] /\ output.amount = amount
        /\ repay.amount = amount - (IF tokenized THEN 2 ELSE 0)
    BY DEF TokenAmount
  <2>3. Underlies(repay) /\ Underlies(output)
    <3>1. repay.amount \in Nat
      BY <1>2, <2>2 DEF MoreThanDust
    <3> QED
      BY <2>1, <2>2, <3>1 DEF Underlies
  <2>4. repay = Arriving(output)
    BY <2>1, <2>2 DEF Arriving, Short, SetAside
  <2>5. Underlies(loan)
    <3> HIDE DEF repay
    <3> QED
      BY <2>3, ReversedIsDue
  <2>6. IsQuote(swap, loan.token, Wrapped[dest]) /\ swap.input = loan
    <3> HIDE DEF loan
    <3> QED
      BY <2>1, <2>5, QuoteInIs
  <2>7. IsQuote(swap, loan.token, swap.output.token)
    BY <2>6 DEF IsQuote
  <2>8. /\ moved = Exchange(swap.output, output)
        /\ WithdrawLogic(output, tokenized) = WithdrawLogic(output, output.token \in AssetTokenized)
    BY <2>1, <2>2 DEF Exchange
  <2> DEFINE last == WithdrawLogic(output, tokenized)
  <2>9. SwapsCollateral(logics)
    <3>1. loan = Loans(Arriving(output))
      BY <2>4
    <3>2. logics = <<Loan(loan), SwapToken(swap), SupplyLogic(swap.output, TRUE)>>
                   \o Exchange(swap.output, output)
                   \o <<WithdrawLogic(output, output.token \in AssetTokenized), LoanRepay(loan)>>
      BY <2>8
    <3>3. Underlies(Arriving(output))
      BY <2>3, <2>4
    <3> HIDE DEF logics, loan, swap, output, repay
    <3> QED
      BY <2>3, <2>6, <2>7, <3>1, <3>2, <3>3 DEF SwapsCollateral
  <2>10. \A n, after : IsCollateralSwap(Output(n, after, "none", logics))
    <3> HIDE DEF logics
    <3> QED
      BY <2>9 DEF IsCollateralSwap, Output
  <2> HIDE DEF IsCollateralSwap
  <2> QED
    BY <1>2, <1>0, <2>10 DEF CollateralSwap
<1> QED
  BY <1>1, <1>2

LEMMA CollateralSwapTells ==
    ASSUME NEW o, IsCollateralSwap(o)
    PROVE  Tells(o, NoFunds)
<1> SUFFICES ASSUME o.error = "none", o.logics # <<>> PROVE Asks(o.logics, NoFunds)
  BY DEF Tells
<1>1. PICK out, loan, swap :
        /\ Underlies(out) /\ Underlies(Arriving(out)) /\ loan = Loans(Arriving(out))
        /\ IsQuote(swap, loan.token, swap.output.token) /\ swap.input = loan
        /\ o.logics = <<Loan(loan), SwapToken(swap), SupplyLogic(swap.output, TRUE)>>
                      \o Exchange(swap.output, out)
                      \o <<WithdrawLogic(out, out.token \in AssetTokenized), LoanRepay(loan)>>
  BY DEF IsCollateralSwap, SwapsCollateral
<1> DEFINE given == swap.output
           first == <<Loan(loan), SwapToken(swap), SupplyLogic(given, TRUE)>>
           last == <<WithdrawLogic(out, out.token \in AssetTokenized), LoanRepay(loan)>>
<1>2. Underlies(loan) /\ Covers(Arriving(out), Due(loan)) /\ Covers(out, Arriving(out))
  <2>1. Underlies(loan) /\ Covers(Arriving(out), Due(loan))
    BY <1>1, ReversedIsDue
  <2>2. Arriving(out).token = out.token /\ Arriving(out).amount <= out.amount
    BY <1>1 DEF Arriving, Short, TokenAmount, SetAside, Underlies
  <2> QED
    BY <1>1, <2>1, <2>2, AmountsAre DEF Covers, Underlies
<1>3. Underlies(given) /\ Turns(<<SwapToken(swap)>>, loan, given)
  BY <1>1 DEF IsQuote
<1>4. Covers(out, Due(loan))
  BY <1>1, <1>2, FeesAgree, AmountsAre DEF Covers
<1> HIDE DEF given
<1>5. Turns(first, NoAmount, Receipt(given))
  <2>1. Turns(<<Loan(loan)>>, NoAmount, loan) /\ Turns(<<SupplyLogic(given, TRUE)>>, given, Receipt(given))
    BY <1>2, <1>3, MarketTurns
  <2> QED
    BY <1>3, <2>1, ThreeTurn
<1>6. Turns(Exchange(given, out), Receipt(given), Claim(out))
  <2>1. CASE out.token \in AssetTokenized
    <3>1. Turns(<<SendToken(Receipt(given))>>, Receipt(given), NoAmount)
          /\ Turns(<<PullToken(Receipt(out))>>, NoAmount, Receipt(out))
      BY <1>1, <1>3, MarketTurns
    <3> QED
      BY <2>1, <3>1, TwoTurns DEF Exchange, Claim
  <2>2. CASE out.token \notin AssetTokenized
    <3>1. Turns(<<>>, Receipt(given), Receipt(given)) /\ Covers(Receipt(given), Receipt(given))
          /\ Covers(Receipt(given), NoAmount)
      BY <1>3, TurnsNothing, AmountsAre DEF Covers, IsAmount
    <3>2. Turns(<<>>, Receipt(given), NoAmount)
      BY <3>1, TurnsLess
    <3> QED
      BY <2>2, <3>2 DEF Exchange, Claim
  <2> QED
    BY <2>1, <2>2
<1>7. Turns(last, Claim(out), NoAmount)
  <2>1. (out.token \in AssetTokenized) \in BOOLEAN
    OBVIOUS
  <2> QED
    BY <1>1, <1>2, <1>4, <2>1, WithdrawnRepays
<1>8. o.logics = first \o Exchange(given, out) \o last
  BY <1>1 DEF given
<1> HIDE DEF first, last
<1>9. Turns(first \o Exchange(given, out) \o last, NoAmount, NoAmount)
  BY <1>5, <1>6, <1>7, TurnsOn
<1> QED
  BY <1>8, <1>9, AsksNothing

LEMMA RepayAmountIs ==
    ASSUME NEW p, NEW src, NEW amount \in Nat, NEW scale \in Nat, NEW isRepayAll
    PROVE  RepayAmount(p, src, amount, scale, isRepayAll) \in Nat
<1>1. amount * (BPS_BASE - (-scale)) \in Nat
  BY DEF BPS_BASE
<1>2. ScaleRepayAmount(amount, scale) \in Nat
  BY <1>1, DivBounds DEF ScaleRepayAmount, CalcSlippage, BPS_BASE
<1> QED
  BY <1>2 DEF RepayAmount

\* A token that some borrow of the market is owed in.
IsDebt(t) == \E b \in BorrowTokens : Same(b, t)

LEMMA DebtsAre ==
    ASSUME NEW src \in Tokens, HasBorrow(src), NEW t \in Tokens, Same(t, src)
    PROVE  IsDebt(t)
<1>1. FindBorrow(src) \in BorrowTokens /\ FindBorrow(src) \in {Unwrapped[src], src}
  BY DEF FindBorrow, HasBorrow
<1>2. Wrapped[FindBorrow(src)] = Wrapped[src]
  BY <1>1, WrapAssumption
<1> QED
  BY <1>1, <1>2 DEF IsDebt, Same

\* The list of a swap of one debt for another.
SwapsDebt(logics) ==
    \E swap :
        /\ IsQuote(swap, swap.input.token, swap.output.token) /\ IsDebt(swap.output.token)
        /\ logics = <<Loan(swap.input), SwapToken(swap), RepayLogic(swap.output, TRUE),
                      BorrowLogic(Repays(swap.input)), LoanRepay(swap.input)>>
IsDebtSwap(o) == o.error = "none" /\ o.logics # <<>> => SwapsDebt(o.logics)

LEMMA DebtSwapIs ==
    ASSUME NEW p, NEW src \in Tokens, NEW dest \in Tokens, NEW amount \in Nat,
           NEW slippage \in 0..BPS_BASE, NEW isRepayAll, NEW net
    PROVE  IsDebtSwap(DebtSwap(p, src, amount, dest, slippage, isRepayAll, net))
<1> DEFINE needed == RepayAmount(p, src, amount, slippage, isRepayAll)
           debt == TokenAmount(Wrapped[src], needed)
           swap == QuoteOut(Wrapped[dest], debt, slippage)
           list == <<Loan(swap.input), SwapToken(swap), RepayLogic(swap.output, TRUE),
                     BorrowLogic(Repays(swap.input)), LoanRepay(swap.input)>>
<1>1. HasBorrow(src) => SwapsDebt(list)
  <2>1. Wrapped[src] \in Tokens /\ Wrapped[dest] \in Tokens /\ Wrapped[Wrapped[src]] = Wrapped[src]
    BY WrapAssumption
  <2>2. needed \in Nat
    BY RepayAmountIs
  <2>3. Underlies(debt) /\ debt.token = Wrapped[src]
    BY <2>1, <2>2 DEF Underlies, TokenAmount
  <2> HIDE DEF debt
  <2>4. IsQuote(swap, Wrapped[dest], Wrapped[src])
    BY <2>1, <2>3, QuoteOutIs
  <2> HIDE DEF swap
  <2>5. IsQuote(swap, swap.input.token, swap.output.token) /\ swap.output.token = Wrapped[src]
    BY <2>4 DEF IsQuote
  <2>6. HasBorrow(src) => IsDebt(swap.output.token)
    BY <2>1, <2>5, DebtsAre DEF Same
  <2> QED
    BY <2>5, <2>6 DEF SwapsDebt
<1>2. HasBorrow(src) => \A n, after : IsDebtSwap(Output(n, after, "none", list))
  <2> HIDE DEF list
  <2> QED
    BY <1>1 DEF IsDebtSwap, Output
<1>3. /\ \A n, q, e : IsDebtSwap(Output(n, q, e, <<>>))
      /\ \A q, e : IsDebtSwap(Failed(q, e))
      /\ \A q : IsDebtSwap(NoOperation(q))
  BY DEF IsDebtSwap, NoOperation, Failed, Output
<1> HIDE DEF IsDebtSwap
<1> QED
  BY <1>2, <1>3 DEF DebtSwap

LEMMA DebtSwapTells ==
    ASSUME NEW o, IsDebtSwap(o)
    PROVE  Tells(o, NoFunds)
<1> SUFFICES ASSUME o.error = "none", o.logics # <<>> PROVE Asks(o.logics, NoFunds)
  BY DEF Tells
<1>1. PICK swap :
        /\ IsQuote(swap, swap.input.token, swap.output.token)
        /\ o.logics = <<Loan(swap.input), SwapToken(swap), RepayLogic(swap.output, TRUE),
                        BorrowLogic(Repays(swap.input)), LoanRepay(swap.input)>>
  BY DEF IsDebtSwap, SwapsDebt
<1> DEFINE loan == swap.input
           given == swap.output
           l == Loan(loan)
           s == SwapToken(swap)
           r == RepayLogic(given, TRUE)
           b == BorrowLogic(Repays(loan))
           e == LoanRepay(loan)
<1>2. Underlies(loan) /\ Underlies(given) /\ Turns(<<s>>, loan, given)
  BY <1>1 DEF IsQuote
<1>3. Turns(<<l>>, NoAmount, loan) /\ Turns(<<r>>, given, NoAmount)
  <2> HIDE DEF loan, given
  <2> QED
    BY <1>2, MarketTurns
<1>4. Turns(<<b, e>>, NoAmount, NoAmount)
  <2> HIDE DEF loan
  <2> QED
    BY <1>2, BorrowedRepays
<1>5. o.logics = <<l, s, r, b, e>>
  BY <1>1
<1> HIDE DEF loan, given, l, s, r, b, e
<1>6. Turns(<<l, s, r>>, NoAmount, NoAmount)
  BY <1>2, <1>3, ThreeTurn
<1>7. o.logics = <<l, s, r>> \o <<b, e>>
  BY <1>5, FiveInTwo
<1>8. Turns(o.logics, NoAmount, NoAmount)
  BY <1>4, <1>6, <1>7, TurnsOn
<1> QED
  BY <1>8, AsksNothing

\* What a loan becomes before it is supplied or repaid with: swapped, or as it is.
IsSwapped(swaps, a, b) ==
    /\ Underlies(a) /\ Underlies(b)
    /\ \/ swaps = <<>> /\ a = b
       \/ \E q : /\ swaps = <<SwapToken(q)>> /\ q.input = a /\ q.output = b
                 /\ IsQuote(q, a.token, b.token)

LEMMA SwappedTurns ==
    ASSUME NEW swaps, NEW a, NEW b, IsSwapped(swaps, a, b)
    PROVE  Turns(swaps, a, b)
<1>1. CASE swaps = <<>> /\ a = b
  BY <1>1, TurnsNothing
<1>2. CASE swaps # <<>>
  BY <1>2 DEF IsSwapped, IsQuote
<1> QED
  BY <1>1, <1>2 DEF IsSwapped, IsQuote

\* The receipts of a supply, returned to the user where the market has them.
ReturnFunds(a) == IF a.token \in AssetTokenized THEN <<SendToken(Receipt(a))>> ELSE <<>>

LEMMA ReturnFundsTurns ==
    ASSUME NEW a, Underlies(a)
    PROVE  Turns(ReturnFunds(a), Receipt(a), NoAmount)
<1>1. CASE a.token \in AssetTokenized
  BY <1>1, MarketTurns DEF ReturnFunds
<1>2. CASE a.token \notin AssetTokenized
  <2>1. Covers(Receipt(a), Receipt(a)) /\ Covers(Receipt(a), NoAmount)
    BY AmountsAre DEF Covers, IsAmount
  <2>2. Turns(<<>>, Receipt(a), NoAmount)
    BY <2>1, TurnsNothing, TurnsLess
  <2> QED
    BY <1>2, <2>2 DEF ReturnFunds
<1> QED
  BY <1>1, <1>2

LEMMA LeverageParts ==
    ASSUME NEW loan, NEW swaps, NEW a, NEW borrowOutput
    PROVE  LeverageLogics(loan, swaps, a, borrowOutput) =
             <<Loan(loan)>> \o swaps \o <<SupplyLogic(a, swaps # <<>>)>> \o ReturnFunds(a)
             \o <<BorrowLogic(borrowOutput), LoanRepay(loan)>>
<1>1. SupplyLogic(a, swaps # <<>>).output = Receipt(a)
  BY DEF SupplyLogic, Logic
<1> QED
  BY <1>1 DEF LeverageLogics, ReturnFunds

LEMMA LeverageAsksNothing ==
    ASSUME NEW loan, NEW swaps, NEW a, IsSwapped(swaps, loan, a)
    PROVE  Asks(LeverageLogics(loan, swaps, a, Repays(loan)), NoFunds)
<1> DEFINE first == <<Loan(loan)>>
           supply == <<SupplyLogic(a, swaps # <<>>)>>
           last == <<BorrowLogic(Repays(loan)), LoanRepay(loan)>>
<1>1. Underlies(loan) /\ Underlies(a)
  BY DEF IsSwapped
<1>2. Turns(first, NoAmount, loan) /\ Turns(swaps, loan, a)
  BY <1>1, MarketTurns, SwappedTurns
<1>3. Turns(supply, a, Receipt(a))
  <2>1. (swaps # <<>>) \in BOOLEAN
    OBVIOUS
  <2> QED
    BY <1>1, <2>1, MarketTurns
<1>4. Turns(ReturnFunds(a), Receipt(a), NoAmount) /\ Turns(last, NoAmount, NoAmount)
  BY <1>1, ReturnFundsTurns, BorrowedRepays
<1>5. LeverageLogics(loan, swaps, a, Repays(loan)) = first \o swaps \o supply \o ReturnFunds(a) \o last
  BY LeverageParts
<1> HIDE DEF first, supply, last
<1>6. Turns(first \o swaps, NoAmount, a)
  BY <1>2, TurnsOn
<1>7. Turns(first \o swaps \o supply, NoAmount, Receipt(a))
  BY <1>3, <1>6, TurnsOn
<1>8. Turns(first \o swaps \o supply \o ReturnFunds(a), NoAmount, NoAmount)
  BY <1>4, <1>7, TurnsOn
<1>9. Turns(first \o swaps \o supply \o ReturnFunds(a) \o last, NoAmount, NoAmount)
  BY <1>4, <1>8, TurnsOn
<1> QED
  BY <1>5, <1>9, AsksNothing

\* A leverage's list when it returns one without an error.
LeverageList(logics, from, to) ==
    \E loan, swaps, a :
        /\ IsSwapped(swaps, loan, a) /\ loan.token = from /\ a.token = to
        /\ swaps # <<>> => from # to
        /\ logics = LeverageLogics(loan, swaps, a, Repays(loan))
IsLeverage(o, amount, from, to) ==
    o.error = "none" => (amount = 0 /\ o.logics = <<>>) \/ LeverageList(o.logics, from, to)

LEMMA NoLeverage ==
    ASSUME NEW amount, NEW from, NEW to
    PROVE  /\ \A n, p, e : e # "none" => IsLeverage(Output(n, p, e, <<>>), amount, from, to)
           /\ \A p, e : e # "none" => IsLeverage(Failed(p, e), amount, from, to)
           /\ \A p : amount = 0 => IsLeverage(NoOperation(p), amount, from, to)
  BY DEF IsLeverage, NoOperation, Failed, Output

LEMMA LeverageByCollateralIs ==
    ASSUME NEW p, NEW src \in Tokens, NEW dest \in Tokens, NEW amount \in Nat, NEW slippage \in 0..BPS_BASE, NEW net
    PROVE  IsLeverage(LeverageByCollateral(p, src, amount, dest, slippage, net), amount,
                      Wrapped[dest], Wrapped[src])
<1> DEFINE wanted == TokenAmount(Wrapped[src], amount)
           swap == QuoteOut(Wrapped[dest], wanted, slippage)
           loan == IF Same(src, dest) THEN wanted ELSE swap.input
           supplyInput == IF Same(src, dest) THEN wanted ELSE swap.output
           swaps == IF Same(src, dest) THEN <<>> ELSE <<SwapToken(swap)>>
           list == LeverageLogics(loan, swaps, supplyInput, Repays(loan))
<1>1. IsSwapped(swaps, loan, supplyInput) /\ loan.token = Wrapped[dest]
      /\ supplyInput.token = Wrapped[src] /\ (swaps # <<>> => Wrapped[dest] # Wrapped[src])
  <2>1. Wrapped[src] \in Tokens /\ Wrapped[dest] \in Tokens
    BY WrapAssumption
  <2>2. Underlies(wanted) /\ wanted.token = Wrapped[src]
    BY <2>1 DEF Underlies, TokenAmount
  <2> HIDE DEF wanted
  <2>3. IsQuote(swap, Wrapped[dest], Wrapped[src])
    BY <2>1, <2>2, QuoteOutIs
  <2> HIDE DEF swap
  <2> QED
    BY <2>2, <2>3 DEF IsSwapped, IsQuote, Same
<1>2. \A n, after : IsLeverage(Output(n, after, "none", list), amount, Wrapped[dest], Wrapped[src])
  <2> HIDE DEF loan, supplyInput, swaps
  <2>1. LeverageList(list, Wrapped[dest], Wrapped[src])
    BY <1>1 DEF LeverageList
  <2>2. \A n, after : Output(n, after, "none", list).logics = list
    BY DEF Output
  <2> QED
    BY <2>1, <2>2 DEF IsLeverage
<1> HIDE DEF IsLeverage
<1> QED
  BY <1>2, NoLeverage DEF LeverageByCollateral

LEMMA LeverageByDebtIs ==
    ASSUME NEW p, NEW src \in Tokens, NEW dest \in Tokens, NEW amount \in Nat, NEW slippage \in 0..BPS_BASE, NEW net
    PROVE  IsLeverage(LeverageByDebt(p, src, amount, dest, slippage, net), amount,
                      Wrapped[src], Wrapped[dest])
<1> DEFINE loan == TokenAmount(Wrapped[src], amount)
           swap == QuoteIn(loan, Wrapped[dest], slippage)
           supplyInput == IF Same(src, dest) THEN TokenAmount(Wrapped[dest], amount) ELSE swap.output
           swaps == IF Same(src, dest) THEN <<>> ELSE <<SwapToken(swap)>>
           list == LeverageLogics(loan, swaps, supplyInput, Repays(loan))
<1>1. IsSwapped(swaps, loan, supplyInput) /\ loan.token = Wrapped[src]
      /\ supplyInput.token = Wrapped[dest] /\ (swaps # <<>> => Wrapped[src] # Wrapped[dest])
  <2>1. Wrapped[src] \in Tokens /\ Wrapped[dest] \in Tokens
    BY WrapAssumption
  <2>2. Underlies(loan) /\ loan.token = Wrapped[src]
    BY <2>1 DEF Underlies, TokenAmount
  <2>3. Same(src, dest) => TokenAmount(Wrapped[dest], amount) = loan
    BY DEF Same
  <2> HIDE DEF loan
  <2>4. IsQuote(swap, Wrapped[src], Wrapped[dest]) /\ swap.input = loan
    BY <2>1, <2>2, QuoteInIs
  <2> HIDE DEF swap
  <2> QED
    BY <2>2, <2>3, <2>4 DEF IsSwapped, IsQuote, Same
<1>2. \A n, after : IsLeverage(Output(n, after, "none", list), amount, Wrapped[src], Wrapped[dest])
  <2> HIDE DEF loan, supplyInput, swaps
  <2>1. LeverageList(list, Wrapped[src], Wrapped[dest])
    BY <1>1 DEF LeverageList
  <2>2. \A n, after : Output(n, after, "none", list).logics = list
    BY DEF Output
  <2> QED
    BY <2>1, <2>2 DEF IsLeverage
<1> HIDE DEF IsLeverage
<1> QED
  BY <1>2, NoLeverage DEF LeverageByDebt

LEMMA LeverageTells ==
    ASSUME NEW o, NEW amount, NEW from, NEW to, IsLeverage(o, amount, from, to)
    PROVE  Tells(o, NoFunds)
  BY LeverageAsksNothing DEF IsLeverage, LeverageList, Tells

\* The receipts a withdrawal is made with, pulled in where the market has them.
AddFunds(out) == IF out.token \in AssetTokenized THEN <<PullToken(Receipt(out))>> ELSE <<>>

\* The list of a deleverage: what is withdrawn repays the loan, even a few wei short.
Deleverages(logics) ==
    \E loan, swaps, a, out :
        /\ IsSwapped(swaps, loan, a) /\ IsDebt(a.token)
        /\ Underlies(out) /\ Arriving(out) = Due(loan)
        /\ logics = <<Loan(loan)>> \o swaps \o <<RepayLogic(a, swaps # <<>>)>> \o AddFunds(out)
                    \o <<WithdrawLogic(out, out.token \in AssetTokenized), LoanRepay(loan)>>
IsDeleverage(o) == o.error = "none" /\ o.logics # <<>> => Deleverages(o.logics)

LEMMA DeleverageIs ==
    ASSUME NEW p, NEW src \in Tokens, NEW dest \in Tokens, NEW amount \in Nat,
           NEW slippage \in 0..BPS_BASE, NEW isRepayAll, NEW net
    PROVE  IsDeleverage(Deleverage(p, src, amount, dest, slippage, isRepayAll, net))
<1> DEFINE needed == RepayAmount(p, src, amount, IF Same(src, dest) THEN 1 ELSE slippage, isRepayAll)
           debt == TokenAmount(Wrapped[src], needed)
           swap == QuoteOut(Wrapped[dest], debt, slippage)
           swaps == IF Same(src, dest) THEN <<>> ELSE <<SwapToken(swap)>>
           loan == IF Same(src, dest) THEN TokenAmount(Wrapped[dest], needed) ELSE swap.input
           repayInput == IF Same(src, dest) THEN debt ELSE swap.output
           tokenized == loan.token \in AssetTokenized
           out == [Repays(loan) EXCEPT !.amount = @ + IF tokenized THEN 2 ELSE 0]
           addFunds == IF tokenized THEN <<PullToken(Receipt(out))>> ELSE <<>>
           list == <<Loan(loan)>> \o swaps \o <<RepayLogic(repayInput, swaps # <<>>)>> \o addFunds
                   \o <<WithdrawLogic(out, tokenized), LoanRepay(loan)>>
<1>1. IsSwapped(swaps, loan, repayInput) /\ repayInput.token = Wrapped[src]
  <2>1. Wrapped[src] \in Tokens /\ Wrapped[dest] \in Tokens
    BY WrapAssumption
  <2>2. needed \in Nat
    <3>1. (IF Same(src, dest) THEN 1 ELSE slippage) \in Nat
      OBVIOUS
    <3> QED
      BY <3>1, RepayAmountIs
  <2>3. Underlies(debt) /\ debt.token = Wrapped[src]
        /\ (Same(src, dest) => TokenAmount(Wrapped[dest], needed) = debt)
    <3> HIDE DEF needed
    <3> QED
      BY <2>1, <2>2 DEF Underlies, TokenAmount, Same
  <2> HIDE DEF debt
  <2>4. IsQuote(swap, Wrapped[dest], Wrapped[src])
    BY <2>1, <2>3, QuoteOutIs
  <2> HIDE DEF swap
  <2> QED
    BY <2>3, <2>4 DEF IsSwapped, IsQuote
<1>2. Underlies(out) /\ Arriving(out) = Due(loan) /\ out.token = loan.token
  <2> HIDE DEF loan, tokenized
  <2>1. Underlies(loan)
    BY <1>1 DEF IsSwapped
  <2>2. Repays(loan) = Due(loan) /\ Underlies(Due(loan)) /\ Due(loan).token = loan.token
    BY <2>1, FeesAgree
  <2>3. out = TokenAmount(loan.token, Due(loan).amount + IF tokenized THEN 2 ELSE 0)
    BY <2>2 DEF Underlies, TokenAmount
  <2>4. out.token = loan.token /\ out.amount = Due(loan).amount + IF tokenized THEN 2 ELSE 0
    BY <2>3 DEF TokenAmount
  <2> HIDE DEF out
  <2>5. Underlies(out)
    BY <2>2, <2>3, <2>4 DEF Underlies
  <2>6. Due(loan) = TokenAmount(loan.token, Due(loan).amount) /\ Due(loan).amount \in Nat
    BY <2>2 DEF Underlies
  <2>7. tokenized <=> out.token \in AssetTokenized
    BY <2>4 DEF tokenized
  <2>8. tokenized => out.amount - SetAside = Due(loan).amount
    BY <2>4, <2>6 DEF SetAside
  <2>9. ~tokenized => out = Due(loan)
    BY <2>3, <2>6
  <2>10. Arriving(out) = Due(loan)
    BY <2>4, <2>6, <2>7, <2>8, <2>9 DEF Arriving, Short
  <2> QED
    BY <2>4, <2>5, <2>10
<1>3. HasBorrow(src) => Deleverages(list)
  <2>1. HasBorrow(src) => IsDebt(repayInput.token)
    BY <1>1, WrapAssumption, DebtsAre DEF Same
  <2>2. /\ addFunds = AddFunds(out)
        /\ WithdrawLogic(out, tokenized) = WithdrawLogic(out, out.token \in AssetTokenized)
    BY <1>2 DEF AddFunds
  <2>3. list = <<Loan(loan)>> \o swaps \o <<RepayLogic(repayInput, swaps # <<>>)>> \o AddFunds(out)
               \o <<WithdrawLogic(out, out.token \in AssetTokenized), LoanRepay(loan)>>
    BY <2>2
  <2> HIDE DEF list, swaps, loan, repayInput, out
  <2> QED
    BY <1>1, <1>2, <2>1, <2>3 DEF Deleverages
<1>4. HasBorrow(src) => \A n, after : IsDeleverage(Output(n, after, "none", list))
  <2> HIDE DEF list
  <2> QED
    BY <1>3 DEF IsDeleverage, Output
<1>5. /\ \A n, q, e : IsDeleverage(Output(n, q, e, <<>>))
      /\ \A q, e : IsDeleverage(Failed(q, e))
      /\ \A q : IsDeleverage(NoOperation(q))
  BY DEF IsDeleverage, NoOperation, Failed, Output
<1> HIDE DEF IsDeleverage
<1> QED
  BY <1>4, <1>5 DEF Deleverage

LEMMA DeleverageTells ==
    ASSUME NEW o, IsDeleverage(o)
    PROVE  Tells(o, NoFunds)
<1> SUFFICES ASSUME o.error = "none", o.logics # <<>> PROVE Asks(o.logics, NoFunds)
  BY DEF Tells
<1>1. PICK loan, swaps, a, out :
        /\ IsSwapped(swaps, loan, a) /\ Underlies(out) /\ Arriving(out) = Due(loan)
        /\ o.logics = <<Loan(loan)>> \o swaps \o <<RepayLogic(a, swaps # <<>>)>> \o AddFunds(out)
                      \o <<WithdrawLogic(out, out.token \in AssetTokenized), LoanRepay(loan)>>
  BY DEF IsDeleverage, Deleverages
<1> DEFINE first == <<Loan(loan)>>
           repay == <<RepayLogic(a, swaps # <<>>)>>
           last == <<WithdrawLogic(out, out.token \in AssetTokenized), LoanRepay(loan)>>
<1>2. Underlies(loan) /\ Underlies(a) /\ Turns(swaps, loan, a)
  BY <1>1, SwappedTurns DEF IsSwapped
<1>3. Covers(out, Due(loan))
  <2>1. Underlies(Due(loan)) /\ Arriving(out).token = out.token /\ Arriving(out).amount <= out.amount
    BY <1>1, <1>2, FeesAgree DEF Arriving, Short, TokenAmount, SetAside, Underlies
  <2> QED
    BY <1>1, <2>1, AmountsAre DEF Covers, Underlies
<1>4. Turns(first, NoAmount, loan)
  BY <1>2, MarketTurns
<1>5. Turns(repay, a, NoAmount)
  <2>1. (swaps # <<>>) \in BOOLEAN
    OBVIOUS
  <2> QED
    BY <1>2, <2>1, MarketTurns
<1>6. Turns(AddFunds(out), NoAmount, Claim(out))
  <2>1. CASE out.token \in AssetTokenized
    BY <1>1, <2>1, MarketTurns DEF AddFunds, Claim
  <2>2. CASE out.token \notin AssetTokenized
    BY <2>2, TurnsNothing DEF AddFunds, Claim
  <2> QED
    BY <2>1, <2>2
<1>7. Turns(last, Claim(out), NoAmount)
  <2>1. (out.token \in AssetTokenized) \in BOOLEAN
    OBVIOUS
  <2> QED
    BY <1>1, <1>2, <1>3, <2>1, WithdrawnRepays
<1> HIDE DEF first, repay, last
<1>8. Turns(first \o swaps, NoAmount, a)
  BY <1>2, <1>4, TurnsOn
<1>9. Turns(first \o swaps \o repay, NoAmount, NoAmount)
  BY <1>5, <1>8, TurnsOn
<1>10. Turns(first \o swaps \o repay \o AddFunds(out), NoAmount, Claim(out))
  BY <1>6, <1>9, TurnsOn
<1>11. Turns(first \o swaps \o repay \o AddFunds(out) \o last, NoAmount, NoAmount)
  BY <1>7, <1>10, TurnsOn
<1>12. o.logics = first \o swaps \o repay \o AddFunds(out) \o last
  BY <1>1 DEF first, repay, last
<1> QED
  BY <1>11, <1>12, AsksNothing

-----------------------------------------------------------------------------
(* The zaps: the first logic is what the user pays for.                      *)

\* With nothing at hand a logic is paid for by the user.
LEMMA FirstIsAsked ==
    ASSUME NEW l, Fair(l), TakesInput(l)
    PROVE  LET g == More(NoFunds, l.output.token, Provided(l))
           IN  /\ Takes(NoFunds, <<l>>, g, Only(Bill(l).token, Bill(l).amount))
               /\ Has(g, Gift(l))
<1> DEFINE u == l.input.token
           n == Owed(l)
           v == l.output.token
           g == More(NoFunds, v, Provided(l))
<1>1. n \in Nat /\ Provided(l) \in Nat /\ l.bps \in BOOLEAN
  BY DEF Fair
<1>2. u \in AgentTokens /\ Bill(l).token = u /\ Bill(l).amount = n
  BY DEF Fair, Bill, IsAmount, TokenAmount
<1>3. NoFunds \in Havings /\ \A t \in AgentTokens : NoFunds[t] = 0
  BY HavingsTyped DEF NoFunds
<1>4. \A t \in AgentTokens :
        (IF TakesInput(l) /\ t = u THEN Needed(l, NoFunds[t]) ELSE 0) = IF t = u THEN n ELSE 0
  BY <1>1, <1>3 DEF Needed
<1>5. n # 0 => n = IF n > NoFunds[u] THEN n - NoFunds[u] ELSE 0
  BY <1>1, <1>2, <1>3
<1> HIDE DEF n
<1>6. Takes(NoFunds, <<l>>, More(Less(NoFunds, u, n - n), v, Provided(l)), Only(u, n))
  BY <1>1, <1>2, <1>3, <1>4, <1>5, Counted
<1>7. Less(NoFunds, u, n - n) = NoFunds
  BY <1>1, <1>3 DEF Less, NoFunds
<1>8. Has(g, Gift(l))
  <2> SUFFICES ASSUME Gift(l) # NoAmount
               PROVE  Gift(l).token \in AgentTokens /\ Gift(l).amount <= g[Gift(l).token]
    BY DEF Has
  <2>1. IsAmount(Gift(l)) /\ Gift(l).token = v /\ Gift(l).amount = Provided(l)
    BY DEF Fair, Gift, TokenAmount
  <2>2. v \in AgentTokens /\ g[v] = Provided(l)
    BY <1>1, <1>3, <2>1 DEF IsAmount, More
  <2> QED
    BY <1>1, <2>1, <2>2
<1>9. Takes(NoFunds, <<l>>, g, Only(Bill(l).token, Bill(l).amount))
  BY <1>2, <1>6, <1>7
<1> QED
  BY <1>8, <1>9

LEMMA AskedFirst ==
    ASSUME NEW l, Fair(l), TakesInput(l), NEW s, NEW b, Turns(s, Gift(l), b)
    PROVE  Asks(<<l>> \o s, Only(Bill(l).token, Bill(l).amount))
<1> DEFINE g == More(NoFunds, l.output.token, Provided(l))
<1>1. Takes(NoFunds, <<l>>, g, Only(Bill(l).token, Bill(l).amount)) /\ Has(g, Gift(l))
  BY FirstIsAsked
<1> HIDE DEF g
<1>2. g \in Havings
  BY <1>1 DEF Takes
<1>3. PICK k : Pays(g, s, k)
  BY <1>1, <1>2 DEF Turns
<1>4. Takes(NoFunds, <<l>> \o s, k, Only(Bill(l).token, Bill(l).amount))
  BY <1>1, <1>3, TakesThenPays
<1> QED
  BY <1>4 DEF Asks

\* The swap of a quotation takes the one amount and gives the other.
LEMMA QuotedSwap ==
    ASSUME NEW q, IsQuote(q, q.input.token, q.output.token)
    PROVE  LET k == SwapToken(q)
           IN  Fair(k) /\ TakesInput(k) /\ Bill(k) = q.input /\ Gift(k) = q.output
<1> DEFINE a == q.input
           b == q.output
           k == SwapToken(q)
           m == Logic("swap", a, b, FALSE, q.slippage)
           n == TokenAmount(b.token, SwapOutput(a.token, b.token, a.amount))
<1>1. k = m
  BY DEF SwapToken
<1>2. Underlies(a) /\ Underlies(b) /\ b.token \in Tokens /\ b = n
  BY DEF IsQuote, Underlies
<1>3. Fair(m) /\ TakesInput(m) /\ Bill(m) = a /\ Gift(m) = n
  BY <1>2, SwapTurns
<1> HIDE DEF k, m, n
<1>4. Fair(k) /\ TakesInput(k) /\ Bill(k) = a /\ Gift(k) = b
  BY <1>1, <1>2, <1>3
<1> QED
  BY <1>4 DEF k

\* A step on the market, behind a swap if there is one, asks for what is swapped.
LEMMA SwapThenStep ==
    ASSUME NEW swaps, NEW a, NEW b, IsSwapped(swaps, a, b), NEW l, Fair(l), TakesInput(l),
           Bill(l) = b
    PROVE  Asks(swaps \o <<l>>, Only(a.token, a.amount))
<1>0. List(<<l>>) /\ Turns(<<l>>, b, Gift(l))
  BY OneTurns DEF List
<1>1. CASE swaps = <<>> /\ a = b
  <2>1. <<>> \o <<l>> = <<l>> /\ <<l>> \o <<>> = <<l>>
    BY <1>0, JoinNothing
  <2>2. Asks(<<l>> \o <<>>, Only(b.token, b.amount))
    BY TurnsNothing, AskedFirst
  <2> QED
    BY <1>1, <2>1, <2>2
<1>2. CASE \E q : swaps = <<SwapToken(q)>> /\ q.input = a /\ q.output = b
                  /\ IsQuote(q, a.token, b.token)
  <2>1. PICK q : swaps = <<SwapToken(q)>> /\ q.input = a /\ q.output = b
                 /\ IsQuote(q, a.token, b.token)
    BY <1>2
  <2> DEFINE k == SwapToken(q)
  <2>4. Fair(k) /\ TakesInput(k) /\ Bill(k) = a /\ Gift(k) = b
    BY <2>1, QuotedSwap
  <2> HIDE DEF k
  <2>5. Asks(<<k>> \o <<l>>, Only(a.token, a.amount))
    BY <1>0, <2>4, AskedFirst
  <2> QED
    BY <2>1, <2>5 DEF k
<1> QED
  BY <1>1, <1>2 DEF IsSwapped

\* A logic that takes an amount to the market.
LEMMA StepFair ==
    ASSUME NEW a, Underlies(a), NEW bps \in BOOLEAN
    PROVE  /\ Fair(SupplyLogic(a, bps)) /\ TakesInput(SupplyLogic(a, bps))
           /\ Bill(SupplyLogic(a, bps)) = a
           /\ Fair(RepayLogic(a, bps)) /\ TakesInput(RepayLogic(a, bps))
           /\ Bill(RepayLogic(a, bps)) = a
<1>1. IsAmount(a) /\ a # NoAmount /\ IsAmount(Receipt(a))
  BY AmountsAre
<1>2. Fair(SupplyLogic(a, bps)) /\ Fair(RepayLogic(a, bps))
  BY <1>1, PlainTurns DEF SupplyLogic, RepayLogic
<1>3. ASSUME NEW l, l.kind \in {"supply", "repay"}, l.input = a PROVE TakesInput(l) /\ Bill(l) = a
  <2>1. TakesInput(l) /\ Owed(l) = a.amount
    BY <1>1, <1>3 DEF TakesInput, Owed
  <2> QED
    BY <1>3, <2>1 DEF Bill, Underlies
<1>4. /\ SupplyLogic(a, bps).kind = "supply" /\ SupplyLogic(a, bps).input = a
      /\ RepayLogic(a, bps).kind = "repay" /\ RepayLogic(a, bps).input = a
  BY DEF SupplyLogic, RepayLogic, Logic
<1> QED
  BY <1>2, <1>3, <1>4

\* The list of a zapped supply.
SuppliesWith(logics, src, amount) ==
    \E swaps, a, b :
        /\ IsSwapped(swaps, a, b) /\ a = TokenAmount(src, amount)
        /\ logics = swaps \o <<SupplyLogic(b, swaps # <<>>)>>
IsZapSupply(o, src, amount) ==
    o.error = "none" /\ o.logics # <<>> => SuppliesWith(o.logics, src, amount)

LEMMA ZapSupplyIs ==
    ASSUME NEW p, NEW src \in Tokens, NEW dest \in Tokens, NEW amount \in Nat,
           NEW slippage \in 0..BPS_BASE, NEW net
    PROVE  IsZapSupply(ZapSupply(p, src, amount, dest, slippage, net), src, amount)
<1> DEFINE input == TokenAmount(src, amount)
           swap == QuoteIn(input, Wrapped[dest], slippage)
           swaps == IF Same(src, dest) THEN <<>> ELSE <<SwapToken(swap)>>
           a == IF Same(src, dest) THEN input ELSE swap.output
           list == swaps \o <<SupplyLogic(a, swaps # <<>>)>>
<1>1. IsSwapped(swaps, input, a)
  <2>1. Underlies(input) /\ input.token = src
    BY DEF Underlies, TokenAmount
  <2>2. Wrapped[dest] \in Tokens
    BY WrapAssumption
  <2> HIDE DEF input
  <2>3. IsQuote(swap, src, Wrapped[dest]) /\ swap.input = input
    BY <2>1, <2>2, QuoteInIs
  <2> HIDE DEF swap
  <2> QED
    BY <2>1, <2>3 DEF IsSwapped, IsQuote
<1>2. SuppliesWith(list, src, amount)
  <2>1. input = TokenAmount(src, amount)
    OBVIOUS
  <2> HIDE DEF input, a, swaps
  <2> QED
    BY <1>1, <2>1 DEF SuppliesWith
<1>3. \A n, after : IsZapSupply(Output(n, after, "none", list), src, amount)
  <2> HIDE DEF list
  <2> QED
    BY <1>2 DEF IsZapSupply, Output
<1>4. /\ \A n, after, s : IsZapSupply(Output(n, after, "SUPPLY_CAP_EXCEEDED", s), src, amount)
      /\ \A q, e : IsZapSupply(Failed(q, e), src, amount)
      /\ \A q : IsZapSupply(NoOperation(q), src, amount)
  BY DEF IsZapSupply, NoOperation, Failed, Output
<1> HIDE DEF IsZapSupply
<1> QED
  BY <1>3, <1>4 DEF ZapSupply

LEMMA ZapSupplyTells ==
    ASSUME NEW o, NEW src, NEW amount, IsZapSupply(o, src, amount)
    PROVE  Tells(o, Only(src, amount))
<1> SUFFICES ASSUME o.error = "none", o.logics # <<>> PROVE Asks(o.logics, Only(src, amount))
  BY DEF Tells
<1>1. PICK swaps, a, b :
        /\ IsSwapped(swaps, a, b) /\ a = TokenAmount(src, amount)
        /\ o.logics = swaps \o <<SupplyLogic(b, swaps # <<>>)>>
  BY DEF IsZapSupply, SuppliesWith
<1>2. Underlies(b) /\ (swaps # <<>>) \in BOOLEAN /\ a.token = src /\ a.amount = amount
  BY <1>1 DEF IsSwapped, TokenAmount
<1> DEFINE l == SupplyLogic(b, swaps # <<>>)
<1>3. Fair(l) /\ TakesInput(l) /\ Bill(l) = b
  BY <1>2, StepFair
<1> HIDE DEF l
<1>4. Asks(swaps \o <<l>>, Only(a.token, a.amount))
  BY <1>1, <1>3, SwapThenStep
<1> QED
  BY <1>1, <1>2, <1>4 DEF l

\* The list of a zapped repayment: what is paid in, and what is repaid with it.
RepaysWith(o, src, dest, told) ==
    \E swaps, a, b :
        /\ IsSwapped(swaps, a, b) /\ a.token = dest /\ IsDebt(b.token)
        /\ o.logics = swaps \o <<RepayLogic(b, swaps # <<>>)>>
        /\ IF Same(src, dest) THEN swaps = <<>> /\ a.amount = told
           ELSE swaps # <<>> /\ b.token = Wrapped[src] /\ a.amount = o.destAmount
IsZapRepay(o, src, amount, dest, told) ==
    o.error = "none" => (amount = 0 /\ o.logics = <<>>) \/ RepaysWith(o, src, dest, told)

LEMMA ZapRepayIs ==
    ASSUME NEW p, NEW src \in Tokens, NEW dest \in Tokens, NEW amount \in Nat,
           NEW slippage \in 0..BPS_BASE, NEW isRepayAll, NEW net
    PROVE  IsZapRepay(ZapRepay(p, src, amount, dest, slippage, isRepayAll, net), src, amount, dest,
                      RepayAmount(p, src, amount, 1, isRepayAll))
<1> DEFINE told == RepayAmount(p, src, amount, 1, isRepayAll)
           needed == RepayAmount(p, src, amount, IF Same(src, dest) THEN 1 ELSE slippage, isRepayAll)
           debt == TokenAmount(Wrapped[src], needed)
           swap == QuoteOut(dest, debt, slippage)
           swaps == IF Same(src, dest) THEN <<>> ELSE <<SwapToken(swap)>>
           repayInput == IF Same(src, dest) THEN TokenAmount(dest, needed) ELSE swap.output
           input == IF Same(src, dest) THEN TokenAmount(dest, needed) ELSE swap.input
           list == swaps \o <<RepayLogic(repayInput, swaps # <<>>)>>
           destAmount == IF Same(src, dest) THEN amount ELSE swap.input.amount
<1>1. Wrapped[src] \in Tokens /\ needed \in Nat
  <2>1. (IF Same(src, dest) THEN 1 ELSE slippage) \in Nat
    OBVIOUS
  <2> QED
    BY <2>1, WrapAssumption, RepayAmountIs
<1>2. Underlies(debt) /\ debt.token = Wrapped[src]
      /\ Underlies(TokenAmount(dest, needed)) /\ TokenAmount(dest, needed).token = dest
      /\ TokenAmount(dest, needed).amount = needed
  <2> HIDE DEF needed
  <2> QED
    BY <1>1 DEF Underlies, TokenAmount
<1>3. IsQuote(swap, dest, Wrapped[src])
  <2> HIDE DEF debt
  <2> QED
    BY <1>2, QuoteOutIs
<1>4. IsSwapped(swaps, input, repayInput) /\ input.token = dest
  <2> HIDE DEF swap, needed
  <2> QED
    BY <1>2, <1>3 DEF IsSwapped, IsQuote
<1>5. IF Same(src, dest) THEN swaps = <<>> /\ input.amount = told
      ELSE swaps # <<>> /\ repayInput.token = Wrapped[src] /\ input.amount = destAmount
  <2>1. CASE Same(src, dest)
    <3>1. needed = told /\ input = TokenAmount(dest, needed)
      BY <2>1
    <3>2. input.amount = told
      BY <3>1 DEF TokenAmount
    <3>3. swaps = <<>>
      BY <2>1
    <3> QED
      BY <2>1, <3>2, <3>3
  <2>2. CASE ~Same(src, dest)
    <3>1. repayInput.token = Wrapped[src]
      BY <1>3, <2>2 DEF IsQuote
    <3> QED
      BY <2>2, <3>1
  <2> QED
    BY <2>1, <2>2
<1>6. HasBorrow(src) => \A after : LET o == Output(destAmount, after, "none", list)
                                  IN  IsZapRepay(o, src, amount, dest, told)
  <2> SUFFICES ASSUME HasBorrow(src)
               PROVE  \A after : LET o == Output(destAmount, after, "none", list)
                                 IN  IsZapRepay(o, src, amount, dest, told)
    OBVIOUS
  <2>0. IsDebt(repayInput.token)
    <3>1. /\ Same(src, dest) => repayInput.token = dest
          /\ ~Same(src, dest) => repayInput.token = Wrapped[src]
      BY <1>3 DEF TokenAmount, IsQuote
    <3> HIDE DEF repayInput
    <3> QED
      BY <3>1, WrapAssumption, DebtsAre DEF Same
  <2> HIDE DEF swaps, input, repayInput, destAmount, told
  <2>1. \A after : Output(destAmount, after, "none", list).logics = list
                   /\ Output(destAmount, after, "none", list).destAmount = destAmount
    BY DEF Output
  <2>2. \A after : RepaysWith(Output(destAmount, after, "none", list), src, dest, told)
    BY <1>4, <1>5, <2>0, <2>1 DEF RepaysWith
  <2> QED
    BY <2>2 DEF IsZapRepay
<1>7. /\ \A q, e : e # "none" => IsZapRepay(Failed(q, e), src, amount, dest, told)
      /\ \A q : amount = 0 => IsZapRepay(NoOperation(q), src, amount, dest, told)
  BY DEF IsZapRepay, Failed, NoOperation, Output
<1> HIDE DEF IsZapRepay, told
<1>8. IsZapRepay(ZapRepay(p, src, amount, dest, slippage, isRepayAll, net), src, amount, dest, told)
  BY <1>6, <1>7 DEF ZapRepay
<1> QED
  BY <1>8 DEF told

ZapRepayFunds(src, dest, told, destAmount) ==
    Only(dest, IF Same(src, dest) THEN told ELSE destAmount)

LEMMA ZapRepayTells ==
    ASSUME NEW o, NEW src, NEW amount, NEW dest, NEW told, IsZapRepay(o, src, amount, dest, told)
    PROVE  Tells(o, ZapRepayFunds(src, dest, told, o.destAmount))
<1> SUFFICES ASSUME o.error = "none", o.logics # <<>>
             PROVE  Asks(o.logics, ZapRepayFunds(src, dest, told, o.destAmount))
  BY DEF Tells
<1>1. PICK swaps, a, b :
        /\ IsSwapped(swaps, a, b) /\ a.token = dest
        /\ o.logics = swaps \o <<RepayLogic(b, swaps # <<>>)>>
        /\ a.amount = IF Same(src, dest) THEN told ELSE o.destAmount
  BY DEF IsZapRepay, RepaysWith
<1>2. Underlies(b) /\ (swaps # <<>>) \in BOOLEAN
  BY <1>1 DEF IsSwapped
<1> DEFINE l == RepayLogic(b, swaps # <<>>)
<1>3. Fair(l) /\ TakesInput(l) /\ Bill(l) = b
  BY <1>2, StepFair
<1> HIDE DEF l
<1>4. Asks(swaps \o <<l>>, Only(a.token, a.amount))
  BY <1>1, <1>3, SwapThenStep
<1> QED
  BY <1>1, <1>4 DEF l, ZapRepayFunds

\* A market logic first, and a swap of what it is sure to give if need be.
StepThenSwap(o, l, out, sure, dest) ==
    \E swaps, a, b :
        /\ IsSwapped(swaps, a, b) /\ Underlies(out) /\ Covers(out, a)
        /\ Underlies(sure) /\ (swaps # <<>> => Covers(sure, a))
        /\ o.logics = <<l>> \o swaps /\ b.token = dest /\ b.amount = o.destAmount
        /\ swaps = <<>> => a = out
        /\ swaps # <<>> => out.token # dest

\* The list of a zapped withdrawal.
WithdrawsWith(o, src, amount, dest) ==
    \E out : /\ StepThenSwap(o, WithdrawLogic(out, out.token \in AssetTokenized), out,
                             Arriving(out), dest)
             /\ out.amount = amount /\ Wrapped[out.token] = Wrapped[src]
IsZapWithdraw(o, src, amount, dest) ==
    o.error = "none" => (amount = 0 /\ o.logics = <<>>) \/ WithdrawsWith(o, src, amount, dest)

LEMMA ZapWithdrawIs ==
    ASSUME NEW p, NEW src \in Tokens, NEW dest \in Tokens, NEW amount \in Nat,
           MoreThanDust(src, amount), NEW slippage \in 0..BPS_BASE, NEW net
    PROVE  IsZapWithdraw(ZapWithdraw(p, src, amount, dest, slippage, net), src, amount, dest)
<1> DEFINE output == TokenAmount(IF Same(src, dest) THEN dest ELSE Wrapped[src], amount)
           tokenized == output.token \in AssetTokenized
           less == [output EXCEPT !.amount = @ - IF tokenized THEN 3 ELSE 0]
           swap == QuoteIn(less, dest, slippage)
           swaps == IF Same(src, dest) THEN <<>> ELSE <<SwapToken(swap)>>
           a == IF Same(src, dest) THEN output ELSE less
           b == IF Same(src, dest) THEN output ELSE swap.output
           destAmount == IF Same(src, dest) THEN amount ELSE swap.output.amount
           list == <<WithdrawLogic(output, tokenized)>> \o swaps
<1>1. CASE amount = 0
  <2>1. \A q : IsZapWithdraw(NoOperation(q), src, amount, dest)
    BY <1>1 DEF IsZapWithdraw, NoOperation, Output
  <2> HIDE DEF IsZapWithdraw
  <2> QED
    BY <1>1, <2>1 DEF ZapWithdraw
<1>2. CASE amount # 0
  <2>0. Wrapped[src] \in Tokens /\ Wrapped[Wrapped[src]] = Wrapped[src]
    BY WrapAssumption
  <2>1. Underlies(output) /\ output.amount = amount /\ Wrapped[output.token] = Wrapped[src]
        /\ (Same(src, dest) => output.token = dest) /\ (~Same(src, dest) => output.token # dest)
    <3>1. output.token = (IF Same(src, dest) THEN dest ELSE Wrapped[src]) /\ output.amount = amount
          /\ output = TokenAmount(output.token, output.amount)
      BY DEF TokenAmount
    <3> HIDE DEF output
    <3>2. Underlies(output)
      BY <2>0, <3>1 DEF Underlies
    <3>3. Wrapped[output.token] = Wrapped[src]
      BY <2>0, <3>1 DEF Same
    <3>4. ~Same(src, dest) => output.token # dest
      BY <2>0, <3>1 DEF Same
    <3> QED
      BY <3>1, <3>2, <3>3, <3>4
  <2>2. Underlies(less) /\ Covers(output, less) /\ Underlies(Arriving(output))
        /\ Covers(Arriving(output), less)
    <3> HIDE DEF output, tokenized
    <3>1. less = TokenAmount(output.token, amount - IF tokenized THEN 3 ELSE 0)
      BY <2>1 DEF Underlies, TokenAmount
    <3>2. less.token = output.token /\ less.amount = amount - IF tokenized THEN 3 ELSE 0
      BY <3>1 DEF TokenAmount
    <3>3. tokenized <=> src \in AssetTokenized
      BY <2>1, ReceiptAssumption DEF tokenized, Underlies
    <3>4. /\ less.amount \in Nat /\ less.amount <= amount
          /\ tokenized => amount - SetAside \in Nat /\ less.amount <= amount - SetAside
      BY <1>2, <3>2, <3>3 DEF MoreThanDust, SetAside
    <3> HIDE DEF less
    <3>5. Underlies(less) /\ Covers(output, less)
      BY <2>1, <3>1, <3>2, <3>4, AmountsAre DEF Underlies, Covers
    <3>6. Short(output) = TokenAmount(output.token, amount - SetAside)
          /\ Short(output).token = output.token /\ Short(output).amount = amount - SetAside
      BY <2>1 DEF Short, TokenAmount
    <3>7. tokenized => Underlies(Short(output)) /\ Short(output) # NoAmount
      <4>1. tokenized => Underlies(Short(output))
        BY <2>1, <3>4, <3>6 DEF Underlies
      <4> QED
        BY <4>1, AmountsAre
    <3>8. Underlies(Arriving(output)) /\ Covers(Arriving(output), less)
      <4>1. CASE tokenized
        <5>1. Arriving(output) = Short(output)
          BY <4>1 DEF Arriving, tokenized
        <5>2. Covers(Short(output), less)
          BY <3>2, <3>4, <3>6, <3>7, <4>1 DEF Covers
        <5> QED
          BY <3>7, <4>1, <5>1, <5>2
      <4>2. CASE ~tokenized
        BY <2>1, <3>5, <4>2 DEF Arriving, tokenized
      <4> QED
        BY <4>1, <4>2
    <3> QED
      BY <3>5, <3>8
  <2>3. IsQuote(swap, less.token, dest) /\ swap.input = less
    <3> HIDE DEF less
    <3> QED
      BY <2>2, QuoteInIs
  <2>4. Covers(output, a) /\ IsSwapped(swaps, a, b) /\ b.token = dest /\ b.amount = destAmount
    <3> HIDE DEF output, less, swap
    <3>1. Covers(output, output)
      BY <2>1, AmountsAre DEF Covers, Underlies
    <3>2. CASE Same(src, dest)
      BY <2>1, <3>1, <3>2 DEF IsSwapped
    <3>3. CASE ~Same(src, dest)
      BY <2>2, <2>3, <3>3 DEF IsSwapped, IsQuote
    <3> QED
      BY <3>2, <3>3
  <2>5. /\ swaps = <<>> => a = output
        /\ swaps # <<>> => output.token # dest /\ Covers(Arriving(output), a)
    <3> HIDE DEF output, less, swap
    <3> QED
      BY <2>1, <2>2
  <2>6. \A after : IsZapWithdraw(Output(destAmount, after, "none", list), src, amount, dest)
    <3>0. tokenized <=> output.token \in AssetTokenized
      OBVIOUS
    <3> DEFINE l == WithdrawLogic(output, output.token \in AssetTokenized)
    <3>1. list = <<l>> \o swaps
      OBVIOUS
    <3> HIDE DEF list, l, swaps, a, b, destAmount, output, tokenized
    <3>2. \A after : Output(destAmount, after, "none", list).logics = list
                     /\ Output(destAmount, after, "none", list).destAmount = destAmount
      BY DEF Output
    <3>3. \A after : StepThenSwap(Output(destAmount, after, "none", list), l, output,
                                  Arriving(output), dest)
      BY <2>1, <2>2, <2>4, <2>5, <3>1, <3>2 DEF StepThenSwap
    <3>4. \A after : WithdrawsWith(Output(destAmount, after, "none", list), src, amount, dest)
      BY <2>1, <3>3 DEF WithdrawsWith, l
    <3> QED
      BY <3>4 DEF IsZapWithdraw
  <2>7. \A q, e : e # "none" => IsZapWithdraw(Failed(q, e), src, amount, dest)
    BY DEF IsZapWithdraw, Failed, Output
  <2> HIDE DEF IsZapWithdraw
  <2> QED
    BY <1>2, <2>6, <2>7 DEF ZapWithdraw
<1> QED
  BY <1>1, <1>2

LEMMA StepThenSwapTurns ==
    ASSUME NEW o, NEW l, NEW out, NEW sure, NEW dest, StepThenSwap(o, l, out, sure, dest)
    PROVE  \E swaps, b : o.logics = <<l>> \o swaps /\ Turns(swaps, out, b)
<1>1. PICK swaps, a, b : IsSwapped(swaps, a, b) /\ Covers(out, a) /\ o.logics = <<l>> \o swaps
  BY DEF StepThenSwap
<1>2. Turns(swaps, a, b) /\ Covers(b, b)
  BY <1>1, SwappedTurns, AmountsAre DEF IsSwapped, Covers, Underlies
<1>3. Turns(swaps, out, b)
  BY <1>1, <1>2, TurnsLess
<1> QED
  BY <1>1, <1>3

ZapWithdrawFunds(src, amount) ==
    IF src \in AssetTokenized THEN Only(ProtocolToken[src], amount) ELSE NoFunds

LEMMA ZapWithdrawTells ==
    ASSUME NEW o, NEW src \in Tokens, NEW amount, NEW dest, IsZapWithdraw(o, src, amount, dest)
    PROVE  Tells(o, ZapWithdrawFunds(src, amount))
<1> SUFFICES ASSUME o.error = "none", o.logics # <<>>
             PROVE  Asks(o.logics, ZapWithdrawFunds(src, amount))
  BY DEF Tells
<1>1. PICK out : /\ StepThenSwap(o, WithdrawLogic(out, out.token \in AssetTokenized), out,
                                 Arriving(out), dest)
                 /\ out.amount = amount /\ Wrapped[out.token] = Wrapped[src]
  BY DEF IsZapWithdraw, WithdrawsWith
<1> DEFINE l == WithdrawLogic(out, out.token \in AssetTokenized)
<1>2. Underlies(out)
  BY <1>1 DEF StepThenSwap
<1>3. PICK swaps, b : o.logics = <<l>> \o swaps /\ Turns(swaps, out, b)
  BY <1>1, StepThenSwapTurns
<1>4. /\ out.token \in AssetTokenized <=> src \in AssetTokenized
      /\ ProtocolToken[out.token] = ProtocolToken[src]
  BY <1>1, <1>2, ReceiptAssumption DEF Underlies
<1>5. CASE src \in AssetTokenized
  <2>1. Fair(l) /\ TakesInput(l) /\ Bill(l) = Receipt(out) /\ Gift(l) = out
    <3>1. l.kind = "withdraw" /\ l.input = Receipt(out) /\ l.output = out
      BY DEF WithdrawLogic, Logic
    <3>2. IsAmount(out) /\ IsAmount(Receipt(out)) /\ Receipt(out) # NoAmount
      BY <1>2, AmountsAre
    <3>3. Fair(l)
      <4>1. \A bps \in BOOLEAN : Fair(Logic("withdraw", Receipt(out), out, bps, 0))
        BY <3>2, PlainTurns
      <4>2. (out.token \in AssetTokenized) \in BOOLEAN
        OBVIOUS
      <4> QED
        BY <4>1, <4>2 DEF WithdrawLogic
    <3> HIDE DEF l
    <3>4. TakesInput(l) /\ Owed(l) = Receipt(out).amount /\ Provided(l) = out.amount
      BY <1>4, <1>5, <3>1, <3>2 DEF TakesInput, Owed, Provided
    <3> QED
      BY <3>1, <3>2, <3>3, <3>4 DEF Bill, Gift, IsAmount
  <2> HIDE DEF l
  <2>2. Asks(<<l>> \o swaps, Only(Receipt(out).token, Receipt(out).amount))
    BY <1>3, <2>1, AskedFirst
  <2>3. Receipt(out).token = ProtocolToken[src] /\ Receipt(out).amount = amount
    BY <1>1, <1>2, <1>4, AmountsAre
  <2> QED
    BY <1>3, <1>5, <2>2, <2>3 DEF ZapWithdrawFunds
<1>6. CASE src \notin AssetTokenized
  <2>1. Turns(<<l>>, NoAmount, out)
    <3>1. (out.token \in AssetTokenized) \in BOOLEAN
      OBVIOUS
    <3>2. Claim(out) = NoAmount
      BY <1>4, <1>6 DEF Claim
    <3> QED
      BY <1>2, <3>1, <3>2, MarketTurns
  <2> HIDE DEF l
  <2>2. Turns(<<l>> \o swaps, NoAmount, b)
    BY <1>3, <2>1, TurnsOn
  <2> QED
    BY <1>3, <1>6, <2>2, AsksNothing DEF ZapWithdrawFunds
<1> QED
  BY <1>5, <1>6

\* The list of a zapped borrowing.
BorrowsWith(o, dest) == \E out : StepThenSwap(o, BorrowLogic(out), out, out, dest)
IsZapBorrow(o, dest) == o.error = "none" /\ o.logics # <<>> => BorrowsWith(o, dest)

LEMMA ZapBorrowIs ==
    ASSUME NEW p, NEW src \in Tokens, NEW dest \in Tokens, NEW amount \in Nat,
           NEW slippage \in 0..BPS_BASE, NEW net
    PROVE  IsZapBorrow(ZapBorrow(p, src, amount, dest, slippage, net), dest)
<1> DEFINE output == TokenAmount(IF Same(src, dest) THEN dest ELSE Wrapped[src], amount)
           swap == QuoteIn(output, dest, slippage)
           swaps == IF Same(src, dest) THEN <<>> ELSE <<SwapToken(swap)>>
           b == IF Same(src, dest) THEN output ELSE swap.output
           destAmount == IF Same(src, dest) THEN amount ELSE swap.output.amount
           list == <<BorrowLogic(output)>> \o swaps
<1>1. Underlies(output) /\ output.amount = amount
      /\ (Same(src, dest) => output.token = dest) /\ (~Same(src, dest) => output.token # dest)
  <2>1. output.token = (IF Same(src, dest) THEN dest ELSE Wrapped[src]) /\ output.amount = amount
        /\ output = TokenAmount(output.token, output.amount)
    BY DEF TokenAmount
  <2> HIDE DEF output
  <2>2. Wrapped[src] \in Tokens /\ Wrapped[Wrapped[src]] = Wrapped[src]
    BY WrapAssumption
  <2>3. Underlies(output)
    BY <2>1, <2>2 DEF Underlies
  <2>4. ~Same(src, dest) => output.token # dest
    BY <2>1, <2>2 DEF Same
  <2> QED
    BY <2>1, <2>3, <2>4
<1>2. Covers(output, output)
  BY <1>1, AmountsAre DEF Covers, Underlies
<1>3. IsSwapped(swaps, output, b) /\ b.token = dest /\ b.amount = destAmount
      /\ (swaps # <<>> => output.token # dest)
  <2> HIDE DEF output
  <2>1. IsQuote(swap, output.token, dest) /\ swap.input = output
    BY <1>1, QuoteInIs
  <2> HIDE DEF swap
  <2> QED
    BY <1>1, <2>1 DEF IsSwapped, IsQuote
<1>4. \A after : IsZapBorrow(Output(destAmount, after, "none", list), dest)
  <2> HIDE DEF output, swaps, b, destAmount
  <2>1. \A after : Output(destAmount, after, "none", list).logics = list
                   /\ Output(destAmount, after, "none", list).destAmount = destAmount
    BY DEF Output
  <2>2. \A after : StepThenSwap(Output(destAmount, after, "none", list), BorrowLogic(output), output,
                                output, dest)
    BY <1>1, <1>2, <1>3, <2>1 DEF StepThenSwap
  <2> QED
    BY <2>2 DEF IsZapBorrow, BorrowsWith
<1>5. /\ \A q, e : IsZapBorrow(Failed(q, e), dest)
      /\ \A q : IsZapBorrow(NoOperation(q), dest)
  BY DEF IsZapBorrow, NoOperation, Failed, Output
<1> HIDE DEF IsZapBorrow
<1> QED
  BY <1>4, <1>5 DEF ZapBorrow

LEMMA ZapBorrowTells ==
    ASSUME NEW o, NEW dest, IsZapBorrow(o, dest)
    PROVE  Tells(o, NoFunds)
<1> SUFFICES ASSUME o.error = "none", o.logics # <<>> PROVE Asks(o.logics, NoFunds)
  BY DEF Tells
<1>1. PICK out : StepThenSwap(o, BorrowLogic(out), out, out, dest)
  BY DEF IsZapBorrow, BorrowsWith
<1>2. PICK swaps, b : o.logics = <<BorrowLogic(out)>> \o swaps /\ Turns(swaps, out, b)
  BY <1>1, StepThenSwapTurns
<1>3. Turns(<<BorrowLogic(out)>>, NoAmount, out)
  BY <1>1, MarketTurns DEF StepThenSwap
<1>4. Turns(o.logics, NoAmount, b)
  BY <1>2, <1>3, TurnsOn
<1> QED
  BY <1>4, AsksNothing

-----------------------------------------------------------------------------
(* Lists that take from one balance and add to it.                           *)

\* Whoever has a, and n of w, can run the list; it leaves b, n less of w and m more.
Moves(s, a, b, w, n, m) ==
    \A h \in Havings : Has(h, a) /\ n <= h[w] =>
        \E g : Pays(h, s, g) /\ Has(g, b) /\ g[w] = h[w] - n + m

LEMMA MovesOn ==
    ASSUME NEW w \in AgentTokens, NEW s, NEW t, NEW a, NEW b, NEW c,
           NEW n \in Nat, NEW m \in Nat, NEW i \in Nat, NEW j \in Nat,
           Moves(s, a, b, w, n, m), Moves(t, b, c, w, i, j)
    PROVE  Moves(s \o t, a, c, w, n + i, m + j)
<1> SUFFICES ASSUME NEW h \in Havings, Has(h, a), n + i <= h[w]
             PROVE  \E g : Pays(h, s \o t, g) /\ Has(g, c) /\ g[w] = h[w] - (n + i) + (m + j)
  BY DEF Moves
<1>0. h[w] \in Nat
  BY DEF Havings
<1>1. PICK g : Pays(h, s, g) /\ Has(g, b) /\ g[w] = h[w] - n + m
  <2>1. n <= h[w]
    BY <1>0
  <2> QED
    BY <2>1 DEF Moves
<1>2. g \in Havings
  BY <1>1 DEF Pays, Takes
<1>3. PICK k : Pays(g, t, k) /\ Has(k, c) /\ k[w] = g[w] - i + j
  <2>1. i <= g[w]
    BY <1>0, <1>1
  <2> QED
    BY <1>1, <1>2, <2>1 DEF Moves
<1>4. Pays(h, s \o t, k)
  BY <1>1, <1>3, PaysOn
<1>5. k[w] = h[w] - (n + i) + (m + j)
  BY <1>0, <1>1, <1>3
<1> QED
  BY <1>3, <1>4, <1>5

LEMMA MovesNothing ==
    ASSUME NEW w \in AgentTokens, NEW a
    PROVE  Moves(<<>>, a, a, w, 0, 0)
<1> SUFFICES ASSUME NEW h \in Havings, Has(h, a)
             PROVE  \E g : Pays(h, <<>>, g) /\ Has(g, a) /\ g[w] = h[w] - 0 + 0
  BY DEF Moves
<1>1. Pays(h, <<>>, h) /\ h[w] \in Nat
  BY PaysNothing DEF Havings
<1> QED
  BY <1>1

\* One logic, seen from a balance: it takes n of it, or what it is billed is not of it.
LEMMA OneMoves ==
    ASSUME NEW w \in AgentTokens, NEW l, Fair(l), NEW a, NEW n \in Nat,
           IF TakesInput(l) /\ l.input.token = w THEN l.bps = FALSE /\ n = Owed(l)
           ELSE n = 0 /\ a = Bill(l)
    PROVE  Moves(<<l>>, a, Gift(l), w, n, IF l.output.token = w THEN Provided(l) ELSE 0)
<1> SUFFICES ASSUME NEW h \in Havings, Has(h, a), n <= h[w]
             PROVE  \E g : /\ Pays(h, <<l>>, g) /\ Has(g, Gift(l))
                           /\ g[w] = h[w] - n + IF l.output.token = w THEN Provided(l) ELSE 0
  BY DEF Moves
<1>1. Has(h, Bill(l))
  <2>1. CASE TakesInput(l) /\ l.input.token = w
    <3>1. Bill(l).token = w /\ Bill(l).amount = n
      BY <2>1 DEF Bill, TokenAmount
    <3> QED
      BY <3>1 DEF Has
  <2>2. CASE ~(TakesInput(l) /\ l.input.token = w)
    BY <2>2
  <2> QED
    BY <2>1, <2>2
<1>2. Pays(h, <<l>>, After(h, l)) /\ After(h, l) \in Havings
  BY <1>1, BillPaid
<1>3. Has(After(h, l), Gift(l))
  BY <1>1, GiftLeft
<1>4. After(h, l)[w] = h[w] - n + IF l.output.token = w THEN Provided(l) ELSE 0
  <2>1. h[w] \in Nat /\ Provided(l) \in Nat
    BY DEF Havings, Fair
  <2>2. Less(h, l.input.token, Spent(h, l))[w] = h[w] - n
    <3>1. CASE TakesInput(l) /\ l.input.token = w
      <4>1. Spent(h, l) = n
        BY <3>1 DEF Spent
      <4> QED
        BY <3>1, <4>1 DEF Less
    <3>2. CASE ~(TakesInput(l) /\ l.input.token = w)
      BY <2>1, <3>2 DEF Less, Spent
    <3> QED
      BY <3>1, <3>2
  <2> QED
    BY <2>1, <2>2 DEF After, More
<1> QED
  BY <1>2, <1>3, <1>4

-----------------------------------------------------------------------------
(* Opening: the zapped amount in the supply of a leverage.                   *)

LEMMA AddZapAt ==
    ASSUME NEW s, List(s), NEW k, NEW z
    PROVE  AddZap(s, k, z) = Zapped(s, k, z)
  BY DEF List, AddZap, Zapped, ZappedInto

LEMMA AddZapOn ==
    ASSUME NEW s, NEW k, Within(s, k), NEW t, List(t), NEW z
    PROVE  Within(s \o t, k) /\ AddZap(s \o t, k, z) = AddZap(s, k, z) \o t
<1>1. Within(s \o t, k) /\ Zapped(s \o t, k, z) = Zapped(s, k, z) \o t
  BY ZappedOn
<1>2. List(s) /\ List(s \o t)
  BY <1>1 DEF Within
<1>3. AddZap(s, k, z) = Zapped(s, k, z) /\ AddZap(s \o t, k, z) = Zapped(s \o t, k, z)
  BY <1>2, AddZapAt
<1> QED
  BY <1>1, <1>3

WithOutput(l, x) == [l EXCEPT !.output = x]
WithInput(l, x, y) == [l EXCEPT !.input = x, !.bps = y]

LEMMA OutputReplaced ==
    ASSUME NEW kind, NEW input, NEW output, NEW bps, NEW slippage, NEW x
    PROVE  WithOutput(Logic(kind, input, output, bps, slippage), x)
             = Logic(kind, input, x, bps, slippage)
  BY DEF Logic, WithOutput

LEMMA InputReplaced ==
    ASSUME NEW kind, NEW input, NEW output, NEW bps, NEW slippage, NEW x, NEW y
    PROVE  WithInput(Logic(kind, input, output, bps, slippage), x, y)
             = Logic(kind, x, output, y, slippage)
<1> DEFINE l == Logic(kind, input, output, bps, slippage)
           m == [l EXCEPT !.input = x]
<1>1. m = Logic(kind, x, output, bps, slippage)
  BY DEF Logic
<1>2. WithInput(l, x, y) = [m EXCEPT !.bps = y]
  BY DEF WithInput
<1> HIDE DEF m
<1>3. [m EXCEPT !.bps = y] = Logic(kind, x, output, y, slippage)
  BY <1>1 DEF Logic
<1> QED
  BY <1>2, <1>3

\* The logics of a leverage once the zap has joined its supply.
ZappedSupply(a, zapped) ==
    Logic("supply", TokenAmount(a.token, a.amount + zapped), Receipt(a), TRUE, 0)

\* What the loan is swapped into: the swap states the zapped amount as well.
StatedMore(swaps, loan, a) ==
    \/ swaps = <<>> /\ a = loan
    \/ \E output, slippage :
         /\ swaps = <<Logic("swap", loan, output, FALSE, slippage)>>
         /\ Underlies(output) /\ output.token = a.token /\ slippage \in 0..BPS_BASE
         /\ a.amount = SwapOutput(loan.token, a.token, loan.amount)

\* The zap joins the one supply of s.
Joins(s, loan, swaps, a, zapped) ==
    /\ Within(s, Place(swaps))
    /\ \E more : /\ StatedMore(more, loan, a) /\ (swaps = <<>> => more = <<>>)
                 /\ AddZap(s, Place(swaps), zapped) = <<Loan(loan)>> \o more \o <<ZappedSupply(a, zapped)>>

LEMMA AddZapFirst ==
    ASSUME NEW loan, NEW swaps, NEW a, IsSwapped(swaps, loan, a), NEW zapped \in Nat
    PROVE  Joins(<<Loan(loan)>> \o swaps \o <<SupplyLogic(a, swaps # <<>>)>>, loan, swaps, a, zapped)
<1> DEFINE bps == swaps # <<>>
           l == Loan(loan)
           m == SupplyLogic(a, bps)
           n == ZappedSupply(a, zapped)
<1>1. /\ l.kind = "loan" /\ m.kind = "supply" /\ List(<<l>>)
  BY DEF Loan, SupplyLogic, Logic, List
<1>2. [m EXCEPT !.input.amount = @ + zapped, !.bps = TRUE] = n
  <2>1. a = TokenAmount(a.token, a.amount)
    BY DEF IsSwapped, Underlies
  <2>2. m = Logic("supply", a, Receipt(a), bps, 0)
    BY DEF SupplyLogic
  <2>3. [a EXCEPT !.amount = @ + zapped] = TokenAmount(a.token, a.amount + zapped)
    BY <2>1 DEF TokenAmount
  <2>4. [m EXCEPT !.input.amount = @ + zapped, !.bps = TRUE]
          = Logic("supply", [a EXCEPT !.amount = @ + zapped], Receipt(a), TRUE, 0)
    <3> DEFINE more == [a EXCEPT !.amount = @ + zapped]
    <3>1. m.input = a
      BY <2>2 DEF Logic
    <3>2. [m EXCEPT !.input.amount = @ + zapped, !.bps = TRUE] = [m EXCEPT !.input = more, !.bps = TRUE]
      BY <3>1
    <3> HIDE DEF m, bps, more
    <3>3. WithInput(m, more, TRUE) = Logic("supply", more, Receipt(a), TRUE, 0)
      <4> DEFINE yes == TRUE
      <4> HIDE DEF yes
      <4>1. WithInput(m, more, yes) = Logic("supply", more, Receipt(a), yes, 0)
        BY <2>2, InputReplaced
      <4> QED
        BY <4>1 DEF yes
    <3>4. [m EXCEPT !.input = more, !.bps = TRUE] = WithInput(m, more, TRUE)
      BY DEF WithInput
    <3> QED
      BY <3>2, <3>3, <3>4 DEF more
  <2> QED
    BY <2>3, <2>4 DEF ZappedSupply
<1> HIDE DEF l, m, n
<1>3. CASE swaps = <<>> /\ a = loan
  <2> DEFINE s == <<l, m>>
  <2>1. <<l>> \o swaps \o <<m>> = s
    <3>1. <<l>> \o <<>> = <<l>> /\ <<l>> \o <<m>> = <<l, m>>
      BY <1>1, JoinNothing, InOne
    <3> QED
      BY <1>3, <3>1
  <2>2. List(s) /\ Len(s) = 2 /\ s[1] = l /\ s[2] = m
    BY DEF List
  <2> HIDE DEF s
  <2>3. Within(s, 2)
    BY <2>2 DEF Within
  <2>4. AddZap(s, 2, zapped) = <<l, n>>
    <3>1. AddZap(s, 2, zapped) = [i \in 1..2 |-> ZappedInto(s, 2, zapped, i)]
      BY <2>2, AddZapAt DEF Zapped
    <3>2. ZappedInto(s, 2, zapped, 1) = l /\ ZappedInto(s, 2, zapped, 2) = n
      BY <1>1, <1>2, <2>2 DEF ZappedInto
    <3>3. [i \in 1..2 |-> ZappedInto(s, 2, zapped, i)]
            = <<ZappedInto(s, 2, zapped, 1), ZappedInto(s, 2, zapped, 2)>>
      OBVIOUS
    <3> QED
      BY <3>1, <3>2, <3>3
  <2>5. <<l, n>> = <<l>> \o <<>> \o <<n>>
    <3>1. <<l>> \o <<>> = <<l>> /\ <<l>> \o <<n>> = <<l, n>>
      BY <1>1, JoinNothing, InOne
    <3> QED
      BY <3>1
  <2>6. StatedMore(<<>>, loan, a)
    BY <1>3 DEF StatedMore
  <2> QED
    BY <1>3, <2>1, <2>3, <2>4, <2>5, <2>6 DEF l, m, n, Joins, Place
<1>4. CASE \E q : /\ swaps = <<SwapToken(q)>> /\ q.input = loan /\ q.output = a
                  /\ IsQuote(q, loan.token, a.token)
  <2>1. PICK q : /\ swaps = <<SwapToken(q)>> /\ q.input = loan /\ q.output = a
                 /\ IsQuote(q, loan.token, a.token)
    BY <1>4
  <2> DEFINE k == SwapToken(q)
             output == [a EXCEPT !.amount = @ + zapped]
             j == Logic("swap", loan, output, FALSE, q.slippage)
             s == <<l, k, m>>
  <2>2. k.kind = "swap" /\ [k EXCEPT !.output.amount = @ + zapped] = j
    <3>1. k = Logic("swap", loan, a, FALSE, q.slippage)
      BY <2>1 DEF SwapToken
    <3> HIDE DEF k
    <3>2. k.output = a /\ k.kind = "swap"
      BY <3>1 DEF Logic
    <3>3. [k EXCEPT !.output.amount = @ + zapped] = [k EXCEPT !.output = output]
      BY <3>2
    <3> HIDE DEF output
    <3>4. WithOutput(k, output) = Logic("swap", loan, output, FALSE, q.slippage)
      <4> DEFINE no == FALSE
      <4>1. k = Logic("swap", loan, a, no, q.slippage)
        BY <3>1
      <4> HIDE DEF no
      <4>2. WithOutput(k, output) = Logic("swap", loan, output, no, q.slippage)
        BY <4>1, OutputReplaced
      <4> QED
        BY <4>2 DEF no
    <3>5. [k EXCEPT !.output = output] = WithOutput(k, output)
      BY DEF WithOutput
    <3> QED
      BY <3>2, <3>3, <3>4, <3>5
  <2>3. Underlies(output) /\ output.token = a.token
    BY DEF IsSwapped, Underlies, TokenAmount
  <2>4. a.amount = SwapOutput(loan.token, a.token, loan.amount) /\ q.slippage \in 0..BPS_BASE
    BY <2>1 DEF IsQuote
  <2> HIDE DEF k, output, j
  <2>5. <<l>> \o swaps \o <<m>> = s
    <3>1. <<l>> \o <<k>> = <<l, k>> /\ <<l, k>> \o <<m>> = <<l, k, m>>
      BY InOne
    <3> QED
      BY <2>1, <3>1 DEF k
  <2>6. List(s) /\ Len(s) = 3 /\ s[1] = l /\ s[2] = k /\ s[3] = m
    BY DEF List
  <2> HIDE DEF s
  <2>8. Within(s, 3)
    BY <2>6 DEF Within
  <2>9. AddZap(s, 3, zapped) = <<l, j, n>>
    <3>1. AddZap(s, 3, zapped) = [i \in 1..3 |-> ZappedInto(s, 3, zapped, i)]
      BY <2>6, AddZapAt DEF Zapped
    <3>2. ZappedInto(s, 3, zapped, 1) = l
      BY <1>1, <2>6 DEF ZappedInto
    <3>3. ZappedInto(s, 3, zapped, 2) = j
      BY <2>2, <2>6 DEF ZappedInto
    <3>4. ZappedInto(s, 3, zapped, 3) = n
      BY <1>2, <2>6 DEF ZappedInto
    <3>5. [i \in 1..3 |-> ZappedInto(s, 3, zapped, i)]
            = <<ZappedInto(s, 3, zapped, 1), ZappedInto(s, 3, zapped, 2), ZappedInto(s, 3, zapped, 3)>>
      OBVIOUS
    <3> QED
      BY <3>1, <3>2, <3>3, <3>4, <3>5
  <2>10. <<l, j, n>> = <<l>> \o <<j>> \o <<n>>
    <3>1. <<l>> \o <<j>> = <<l, j>> /\ <<l, j>> \o <<n>> = <<l, j, n>>
      BY InOne
    <3> QED
      BY <3>1
  <2>11. StatedMore(<<j>>, loan, a)
    BY <2>3, <2>4 DEF StatedMore, j
  <2>12. swaps # <<>>
    BY <2>1
  <2> QED
    BY <2>5, <2>8, <2>9, <2>10, <2>11, <2>12 DEF l, m, n, Joins, Place
<1> QED
  BY <1>3, <1>4 DEF IsSwapped

LEMMA LoanParts ==
    ASSUME NEW loan, Underlies(loan)
    PROVE  LET l == Loan(loan)
           IN  /\ Fair(l) /\ ~TakesInput(l) /\ Bill(l) = NoAmount /\ Gift(l) = loan
               /\ l.output = loan /\ Provided(l) = loan.amount
<1> DEFINE l == Loan(loan)
<1>1. l.kind = "loan" /\ l.input = NoAmount /\ l.output = loan
  BY DEF Loan, Logic
<1>2. Fair(l)
  BY AmountsAre, PlainTurns DEF Loan
<1> HIDE DEF l
<1>3. ~TakesInput(l) /\ Provided(l) = loan.amount
  BY <1>1 DEF TakesInput, Provided
<1>4. Bill(l) = NoAmount /\ Gift(l) = loan
  BY <1>1, <1>3 DEF Bill, Gift, Underlies
<1> QED
  BY <1>1, <1>2, <1>3, <1>4 DEF l

\* The loan, swapped if need be, adds to the balance what the leverage supplies.
LEMMA LoanAdds ==
    ASSUME NEW loan, Underlies(loan), NEW a, Underlies(a), NEW more, StatedMore(more, loan, a),
           more # <<>> => loan.token # a.token
    PROVE  Moves(<<Loan(loan)>> \o more, NoAmount, a, a.token, 0, a.amount)
<1> DEFINE w == a.token
           l == Loan(loan)
<1>1. /\ Fair(l) /\ ~TakesInput(l) /\ Bill(l) = NoAmount /\ Gift(l) = loan
      /\ l.output = loan /\ Provided(l) = loan.amount
  BY LoanParts
<1>2. w \in AgentTokens /\ w \in Tokens /\ a.amount \in Nat
  BY AmountsAre DEF Underlies, IsAmount
<1> HIDE DEF l, w
<1>3. Moves(<<l>>, NoAmount, loan, w, 0, IF loan.token = w THEN loan.amount ELSE 0)
  BY <1>1, <1>2, OneMoves
<1>4. CASE more = <<>> /\ a = loan
  <2>1. Moves(<<l>>, NoAmount, a, w, 0, a.amount)
    BY <1>3, <1>4 DEF w
  <2>2. <<l>> \o <<>> = <<l>>
    BY JoinNothing DEF List
  <2> QED
    BY <1>4, <2>1, <2>2 DEF l, w
<1>5. CASE ~(more = <<>> /\ a = loan)
  <2>1. PICK output, slippage :
          /\ more = <<Logic("swap", loan, output, FALSE, slippage)>>
          /\ output.token = a.token
          /\ a.amount = SwapOutput(loan.token, a.token, loan.amount)
    BY <1>5 DEF StatedMore
  <2> DEFINE k == Logic("swap", loan, output, FALSE, slippage)
             q == TokenAmount(output.token, SwapOutput(loan.token, output.token, loan.amount))
  <2>2. Fair(k) /\ TakesInput(k) /\ Bill(k) = loan /\ Gift(k) = q
    BY <1>2, <2>1, SwapTurns DEF w
  <2>3. k.kind = "swap" /\ k.input = loan /\ k.output = output
    BY DEF Logic
  <2>4. q = a
    BY <2>1 DEF Underlies
  <2>5. more = <<k>> /\ loan.token # w
    BY <2>1 DEF w
  <2> HIDE DEF k, q
  <2>6. Provided(k) = a.amount /\ k.output.token = w /\ k.input.token # w
    BY <2>1, <2>3, <2>5 DEF Provided, w
  <2>7. Moves(<<k>>, loan, a, w, 0, a.amount)
    <3>1. Moves(<<k>>, loan, Gift(k), w, 0, IF k.output.token = w THEN Provided(k) ELSE 0)
      BY <1>2, <2>2, <2>6, OneMoves
    <3> QED
      BY <2>2, <2>4, <2>6, <3>1
  <2>8. Moves(<<l>>, NoAmount, loan, w, 0, 0)
    BY <1>3, <2>5
  <2>9. Moves(<<l>> \o <<k>>, NoAmount, a, w, 0 + 0, 0 + a.amount)
    BY <1>2, <2>7, <2>8, MovesOn
  <2>10. 0 + 0 = 0 /\ 0 + a.amount = a.amount
    BY <1>2
  <2> QED
    BY <2>5, <2>9, <2>10 DEF l, w
<1> QED
  BY <1>4, <1>5

\* The supply takes what is there of its token, and the rest of the zap from the user.
LEMMA ZappedSupplyTakes ==
    ASSUME NEW a, Underlies(a), NEW zapped \in Nat, NEW h \in Havings, NEW e \in Nat, e <= zapped,
           h[a.token] = e + a.amount
    PROVE  \E g : /\ Takes(h, <<ZappedSupply(a, zapped)>>, g, Only(a.token, zapped - e))
                  /\ Has(g, Receipt(a))
<1> DEFINE l == ZappedSupply(a, zapped)
           u == a.token
           n == a.amount + zapped
           z == zapped - e
           v == ProtocolToken[u]
           g == More(Less(h, u, n - z), v, a.amount)
<1>1. /\ l.kind = "supply" /\ l.input = TokenAmount(u, n) /\ l.output = Receipt(a) /\ l.bps = TRUE
  BY DEF ZappedSupply, Logic
<1>2. l.input.token = u /\ l.input.amount = n /\ l.input # NoAmount
  BY <1>1, AmountsAre, NothingIsNone DEF TokenAmount
<1>3. /\ u \in AgentTokens /\ v \in AgentTokens /\ v # u /\ a.amount \in Nat
      /\ Receipt(a).token = v /\ Receipt(a).amount = a.amount
  BY AmountsAre DEF Underlies, IsAmount
<1> HIDE DEF l
<1>4. TakesInput(l) /\ Owed(l) = n /\ Provided(l) = a.amount
  BY <1>1, <1>2, <1>3 DEF TakesInput, Owed, Provided
<1>5. n \in Nat /\ z \in Nat /\ n - z = e + a.amount
  BY <1>3
<1> HIDE DEF u, v
<1>6. \A t \in AgentTokens :
        (IF TakesInput(l) /\ t = u THEN Needed(l, h[t]) ELSE 0) = IF t = u THEN n ELSE 0
  <2>1. h[u] <= n
    BY <1>3 DEF u
  <2> HIDE DEF n
  <2>2. h[u] \in Nat
    BY <1>3 DEF Havings
  <2>3. Needed(l, h[u]) = n
    BY <1>4, <1>5, <2>1, <2>2 DEF Needed
  <2> QED
    BY <1>4, <2>3
<1>7. n # 0 => z = IF n > h[u] THEN n - h[u] ELSE 0
  BY <1>3 DEF u
<1>8. n = 0 => z = 0
  BY <1>3
<1> HIDE DEF n, z
<1>9. Takes(h, <<l>>, g, Only(u, z))
  <2>1. Takes(h, <<l>>, More(Less(h, l.input.token, n - z), l.output.token, Provided(l)),
              Only(l.input.token, z))
    BY <1>2, <1>3, <1>4, <1>5, <1>6, <1>7, <1>8, Counted
  <2> QED
    BY <1>1, <1>2, <1>3, <1>4, <2>1
<1>10. Has(g, Receipt(a))
  <2>1. Less(h, u, n - z)[v] = h[v] /\ h[v] \in Nat
    BY <1>3 DEF Less, Havings
  <2>2. g[v] = h[v] + a.amount
    BY <1>3, <2>1 DEF More
  <2> QED
    BY <1>3, <2>1, <2>2 DEF Has
<1> QED
  BY <1>9, <1>10 DEF l, u, z

\* The list of a leverage with a zap joined to its supply.
IsZapped(logics, loan, swaps, a, zapped) ==
    \E more : /\ StatedMore(more, loan, a) /\ (swaps = <<>> => more = <<>>)
              /\ logics = <<Loan(loan)>> \o more \o <<ZappedSupply(a, zapped)>> \o ReturnFunds(a)
                          \o <<BorrowLogic(Repays(loan)), LoanRepay(loan)>>

LEMMA ZappedParts ==
    ASSUME NEW loan, NEW swaps, NEW a, IsSwapped(swaps, loan, a), NEW zapped \in Nat
    PROVE  IsZapped(AddZap(LeverageLogics(loan, swaps, a, Repays(loan)), Place(swaps), zapped), loan, swaps, a, zapped)
<1> DEFINE first == <<Loan(loan)>> \o swaps \o <<SupplyLogic(a, swaps # <<>>)>>
           back == ReturnFunds(a)
           last == <<BorrowLogic(Repays(loan)), LoanRepay(loan)>>
           k == Place(swaps)
<1>1. Joins(first, loan, swaps, a, zapped)
  BY AddZapFirst
<1>2. Within(first, k)
  BY <1>1 DEF Joins
<1>3. PICK more : /\ StatedMore(more, loan, a) /\ (swaps = <<>> => more = <<>>)
                  /\ AddZap(first, k, zapped) = <<Loan(loan)>> \o more \o <<ZappedSupply(a, zapped)>>
  BY <1>1 DEF Joins
<1>4. List(back)
  BY DEF ReturnFunds, List
<1>5. List(last)
  BY DEF List
<1>6. LeverageLogics(loan, swaps, a, Repays(loan)) = first \o back \o last
  BY LeverageParts
<1> HIDE DEF first, back, last, k
<1>7. Within(first \o back, k) /\ AddZap(first \o back, k, zapped) = AddZap(first, k, zapped) \o back
  BY <1>2, <1>4, AddZapOn
<1>8. AddZap((first \o back) \o last, k, zapped) = AddZap(first \o back, k, zapped) \o last
  <2> DEFINE w == first \o back
  <2>1. Within(w, k)
    BY <1>7
  <2> HIDE DEF w
  <2>2. AddZap(w \o last, k, zapped) = AddZap(w, k, zapped) \o last
    BY <1>5, <2>1, AddZapOn
  <2> QED
    BY <2>2 DEF w
<1>9. AddZap(LeverageLogics(loan, swaps, a, Repays(loan)), k, zapped)
        = <<Loan(loan)>> \o more \o <<ZappedSupply(a, zapped)>> \o back \o last
  BY <1>3, <1>6, <1>7, <1>8
<1> QED
  BY <1>3, <1>9 DEF IsZapped, back, last, k

\* A leverage with a zap joined to its supply, run with a part of the zap at hand.
LEMMA ZappedLeverage ==
    ASSUME NEW loan, NEW swaps, NEW a, IsSwapped(swaps, loan, a),
           swaps # <<>> => loan.token # a.token,
           NEW zapped \in Nat, NEW h \in Havings, NEW e \in Nat, h[a.token] = e, e <= zapped
    PROVE  \E rest : Takes(h, AddZap(LeverageLogics(loan, swaps, a, Repays(loan)), Place(swaps), zapped), rest,
                           Only(a.token, zapped - e))
<1> DEFINE list == AddZap(LeverageLogics(loan, swaps, a, Repays(loan)), Place(swaps), zapped)
           back == ReturnFunds(a)
           last == <<BorrowLogic(Repays(loan)), LoanRepay(loan)>>
           drawn == Only(a.token, zapped - e)
<1>1. Underlies(loan) /\ Underlies(a)
  BY DEF IsSwapped
<1>2. IsZapped(list, loan, swaps, a, zapped)
  BY ZappedParts
<1>3. PICK more : /\ StatedMore(more, loan, a) /\ (swaps = <<>> => more = <<>>)
                  /\ list = <<Loan(loan)>> \o more \o <<ZappedSupply(a, zapped)>> \o back \o last
  BY <1>2 DEF IsZapped
<1>4. Turns(back, Receipt(a), NoAmount) /\ Turns(last, NoAmount, NoAmount)
  BY <1>1, ReturnFundsTurns, BorrowedRepays
<1>5. AddZap(LeverageLogics(loan, swaps, a, Repays(loan)), Place(swaps), zapped)
         = <<Loan(loan)>> \o more \o <<ZappedSupply(a, zapped)>> \o back \o last
  BY <1>3
<1> HIDE DEF list, back, last
<1>6. PICK g : Pays(h, <<Loan(loan)>> \o more, g) /\ g[a.token] = e + a.amount
  <2>1. Moves(<<Loan(loan)>> \o more, NoAmount, a, a.token, 0, a.amount)
    BY <1>1, <1>3, LoanAdds
  <2>2. Has(h, NoAmount) /\ 0 <= h[a.token]
    BY DEF Has
  <2>3. PICK g : Pays(h, <<Loan(loan)>> \o more, g) /\ g[a.token] = h[a.token] - 0 + a.amount
    BY <2>1, <2>2 DEF Moves
  <2>4. h[a.token] - 0 + a.amount = e + a.amount
    OBVIOUS
  <2> QED
    BY <2>3, <2>4
<1>7. g \in Havings
  BY <1>6 DEF Pays, Takes
<1>8. PICK x : Takes(g, <<ZappedSupply(a, zapped)>>, x, drawn) /\ Has(x, Receipt(a))
  BY <1>1, <1>6, <1>7, ZappedSupplyTakes
<1> HIDE DEF drawn
<1>9. x \in Havings
  BY <1>8 DEF Takes
<1>10. PICK y : Pays(x, back, y) /\ Has(y, NoAmount)
  BY <1>4, <1>8, <1>9 DEF Turns
<1>11. y \in Havings
  BY <1>10 DEF Pays, Takes
<1>12. PICK z : Pays(y, last, z)
  BY <1>4, <1>10, <1>11 DEF Turns
<1>13. Takes(h, <<Loan(loan)>> \o more \o <<ZappedSupply(a, zapped)>>, x, drawn)
  BY <1>6, <1>8, PaysThenTakes
<1>14. Takes(h, <<Loan(loan)>> \o more \o <<ZappedSupply(a, zapped)>> \o back, y, drawn)
  BY <1>10, <1>13, TakesThenPays
<1>15. Takes(h, <<Loan(loan)>> \o more \o <<ZappedSupply(a, zapped)>> \o back \o last, z, drawn)
  BY <1>12, <1>14, TakesThenPays
<1> QED
  BY <1>5, <1>15 DEF drawn

LEMMA PlaceByTokens ==
    ASSUME NEW loan, NEW swaps, NEW a, IsSwapped(swaps, loan, a),
           swaps # <<>> => loan.token # a.token
    PROVE  PlaceOf(loan.token, a.token) = Place(swaps)
  BY DEF IsSwapped, Place, PlaceOf

\* A zapped amount, swapped if need be, and the leverage it joins: the user pays the zap.
LEMMA ZappedAsks ==
    ASSUME NEW swaps, NEW a, NEW b, IsSwapped(swaps, a, b),
           NEW logics, NEW from, LeverageList(logics, from, b.token)
    PROVE  Asks(swaps \o AddZap(logics, PlaceOf(from, b.token), b.amount), Only(a.token, a.amount))
<1> DEFINE list == AddZap(logics, PlaceOf(from, b.token), b.amount)
<1>1. b.token \in AgentTokens /\ b.amount \in Nat /\ Underlies(a)
  BY AmountsAre DEF IsSwapped, Underlies, IsAmount
<1>2. ASSUME NEW h \in Havings, NEW e \in Nat, h[b.token] = e, e <= b.amount
      PROVE  \E rest : Takes(h, list, rest, Only(b.token, b.amount - e))
  <2>1. PICK loan, more, c : /\ IsSwapped(more, loan, c) /\ loan.token = from
                             /\ c.token = b.token /\ (more # <<>> => from # b.token)
                             /\ logics = LeverageLogics(loan, more, c, Repays(loan))
    BY DEF LeverageList
  <2>2. more # <<>> => loan.token # c.token
    BY <2>1
  <2>3. h[c.token] = e
    BY <1>2, <2>1
  <2>4. \E rest : Takes(h, AddZap(LeverageLogics(loan, more, c, Repays(loan)), Place(more), b.amount), rest,
                        Only(c.token, b.amount - e))
    BY <1>1, <1>2, <2>1, <2>2, <2>3, ZappedLeverage
  <2>5. PlaceOf(from, b.token) = Place(more)
    BY <2>1, <2>2, PlaceByTokens
  <2> QED
    BY <2>1, <2>4, <2>5
<1> HIDE DEF list
<1>3. CASE swaps = <<>> /\ a = b
  <2>1. NoFunds \in Havings /\ NoFunds[b.token] = 0 /\ 0 <= b.amount /\ b.amount - 0 = b.amount
    BY <1>1, HavingsTyped DEF NoFunds
  <2>2. PICK rest : Takes(NoFunds, list, rest, Only(b.token, b.amount))
    <3>1. \E rest : Takes(NoFunds, list, rest, Only(b.token, b.amount - 0))
      BY <1>2, <2>1
    <3> QED
      BY <2>1, <3>1
  <2>3. <<>> \o list = list
    BY <2>2, JoinNothing DEF Takes
  <2> QED
    BY <1>3, <2>2, <2>3 DEF Asks, list
<1>4. CASE \E q : swaps = <<SwapToken(q)>> /\ q.input = a /\ q.output = b
                  /\ IsQuote(q, a.token, b.token)
  <2>1. PICK q : swaps = <<SwapToken(q)>> /\ q.input = a /\ q.output = b
                 /\ IsQuote(q, a.token, b.token)
    BY <1>4
  <2> DEFINE k == SwapToken(q)
  <2>2. Fair(k) /\ TakesInput(k) /\ Bill(k) = a /\ Gift(k) = b
    BY <2>1, QuotedSwap
  <2>3. swaps = <<k>>
    BY <2>1
  <2> HIDE DEF k
  <2> DEFINE h == More(NoFunds, k.output.token, Provided(k))
  <2>4. Takes(NoFunds, <<k>>, h, Only(a.token, a.amount))
    BY <2>2, FirstIsAsked
  <2>5. h \in Havings /\ h[b.token] = b.amount
    <3>1. k.output.token = b.token /\ Provided(k) = b.amount
      BY <2>2 DEF Gift, TokenAmount
    <3>2. h[b.token] = NoFunds[b.token] + b.amount /\ NoFunds[b.token] = 0
      BY <1>1, <3>1 DEF More, NoFunds
    <3> HIDE DEF h
    <3> QED
      BY <1>1, <2>4, <3>2 DEF Takes
  <2> HIDE DEF h
  <2>6. PICK rest : Takes(h, list, rest, Only(b.token, b.amount - b.amount))
    BY <1>1, <1>2, <2>5
  <2>7. Only(b.token, b.amount - b.amount) = NoFunds
    <3>1. b.amount - b.amount = 0
      BY <1>1
    <3> QED
      BY <3>1, HavingsTyped
  <2>8. Pays(h, list, rest)
    BY <2>6, <2>7 DEF Pays
  <2>9. Takes(NoFunds, <<k>> \o list, rest, Only(a.token, a.amount))
    BY <2>4, <2>8, TakesThenPays
  <2> QED
    BY <2>3, <2>9 DEF Asks, list
<1> QED
  BY <1>3, <1>4 DEF IsSwapped

\* The zap alone, for an opening without a leverage.
LEMMA ZapAlone ==
    ASSUME NEW swaps, NEW a, NEW b, IsSwapped(swaps, a, b), swaps # <<>>
    PROVE  Asks(swaps, Only(a.token, a.amount))
<1>1. PICK q : swaps = <<SwapToken(q)>> /\ q.input = a /\ q.output = b
               /\ IsQuote(q, a.token, b.token)
  BY DEF IsSwapped
<1> DEFINE k == SwapToken(q)
<1>2. Fair(k) /\ TakesInput(k) /\ Bill(k) = a
  BY <1>1, QuotedSwap
<1>3. swaps = <<k>>
  BY <1>1
<1> HIDE DEF k
<1>4. Asks(<<k>> \o <<>>, Only(a.token, a.amount))
  BY <1>2, TurnsNothing, AskedFirst
<1>5. <<k>> \o <<>> = <<k>>
  BY JoinNothing DEF List
<1> QED
  BY <1>3, <1>4, <1>5

\* The list of an opening: the zap alone, or the zap joined to a leverage.
OpensWith(logics, zap, zapAmount) ==
    \E swaps, a, b :
        /\ IsSwapped(swaps, a, b) /\ a = TokenAmount(zap, zapAmount)
        /\ \/ logics = swaps
           \/ \E leverage, from : /\ LeverageList(leverage, from, b.token)
                                  /\ logics = swaps \o AddZap(leverage, PlaceOf(from, b.token), b.amount)
IsOpen(o, zap, zapAmount) ==
    o.error = "none" /\ o.logics # <<>> => OpensWith(o.logics, zap, zapAmount)

LEMMA OpenIs ==
    ASSUME NEW p, NEW zap \in Tokens, NEW zapAmount \in Nat, NEW collateral \in Tokens,
           NEW amount \in Nat, NEW debt \in Tokens, NEW slippage \in 0..BPS_BASE, NEW net, NEW byDebt \in BOOLEAN
    PROVE  IsOpen(Open(p, zap, zapAmount, collateral, amount, debt, slippage, net, byDebt),
                  zap, zapAmount)
<1> DEFINE input == TokenAmount(zap, zapAmount)
           swap == QuoteIn(input, Wrapped[collateral], slippage)
           direct == zap = Wrapped[collateral]
           swaps == IF direct THEN <<>> ELSE <<SwapToken(swap)>>
           zapped == IF direct THEN zapAmount ELSE swap.output.amount
           got == IF direct THEN input ELSE swap.output
           supplied == Supply(p, Wrapped[collateral], zapped)
           leverage == IF byDebt
                       THEN LeverageByDebt(supplied, Wrapped[debt], amount, Wrapped[collateral],
                                           DefaultSlippage, net)
                       ELSE LeverageByCollateral(supplied, Wrapped[collateral], amount,
                                                 Wrapped[debt], DefaultSlippage, net)
           k == LogicIndex(collateral, debt)
<1>1. /\ Wrapped[collateral] \in Tokens /\ Wrapped[debt] \in Tokens
      /\ Wrapped[Wrapped[collateral]] = Wrapped[collateral]
      /\ Wrapped[Wrapped[debt]] = Wrapped[debt] /\ DefaultSlippage \in 0..BPS_BASE
  BY WrapAssumption DEF DefaultSlippage, BPS_BASE
<1>2. Underlies(input) /\ input.token = zap /\ input.amount = zapAmount
  BY DEF Underlies, TokenAmount
<1>3. IsSwapped(swaps, input, got) /\ got.token = Wrapped[collateral] /\ got.amount = zapped
  <2> HIDE DEF input
  <2>1. IsQuote(swap, zap, Wrapped[collateral]) /\ swap.input = input
    BY <1>1, <1>2, QuoteInIs
  <2> HIDE DEF swap
  <2> QED
    BY <1>2, <2>1 DEF IsSwapped, IsQuote
<1>4. IsLeverage(leverage, amount, Wrapped[debt], Wrapped[collateral])
  <2> HIDE DEF supplied
  <2>1. CASE byDebt
    <3>1. IsLeverage(LeverageByDebt(supplied, Wrapped[debt], amount, Wrapped[collateral],
                                    DefaultSlippage, net),
                     amount, Wrapped[Wrapped[debt]], Wrapped[Wrapped[collateral]])
      BY <1>1, LeverageByDebtIs
    <3> QED
      BY <1>1, <2>1, <3>1
  <2>2. CASE ~byDebt
    <3>1. IsLeverage(LeverageByCollateral(supplied, Wrapped[collateral], amount, Wrapped[debt],
                                          DefaultSlippage, net),
                     amount, Wrapped[Wrapped[debt]], Wrapped[Wrapped[collateral]])
      BY <1>1, LeverageByCollateralIs
    <3> QED
      BY <1>1, <2>2, <3>1
  <2> QED
    BY <2>1, <2>2
<1>5. ASSUME amount # 0, leverage.error = "none"
      PROVE  \A n, after : IsOpen(Output(n, after, "none", swaps \o AddZap(leverage.logics, k, zapped)),
                                  zap, zapAmount)
  <2>0. input = TokenAmount(zap, zapAmount)
    OBVIOUS
  <2>3. k = PlaceOf(Wrapped[debt], Wrapped[collateral])
    BY DEF LogicIndex, Same, PlaceOf
  <2> HIDE DEF leverage, swaps, got, zapped, input, k
  <2>1. LeverageList(leverage.logics, Wrapped[debt], got.token)
    BY <1>3, <1>4, <1>5 DEF IsLeverage
  <2>2. OpensWith(swaps \o AddZap(leverage.logics, k, zapped), zap, zapAmount)
    BY <1>3, <2>0, <2>1, <2>3 DEF OpensWith
  <2> QED
    BY <2>2 DEF IsOpen, Output
<1>6. \A n, after : IsOpen(Output(n, after, "none", swaps), zap, zapAmount)
  <2>0. input = TokenAmount(zap, zapAmount)
    OBVIOUS
  <2> HIDE DEF swaps, got, input
  <2>1. OpensWith(swaps, zap, zapAmount)
    BY <1>3, <2>0 DEF OpensWith
  <2> QED
    BY <2>1 DEF IsOpen, Output
<1>7. ASSUME leverage.error # "none"
      PROVE  \A n, after, s : IsOpen(Output(n, after, leverage.error, s), zap, zapAmount)
  <2> HIDE DEF leverage
  <2> QED
    BY <1>7 DEF IsOpen, Output
<1>8. /\ \A q, e : IsOpen(Failed(q, e), zap, zapAmount)
      /\ \A q : IsOpen(NoOperation(q), zap, zapAmount)
  BY DEF IsOpen, NoOperation, Failed, Output
<1> HIDE DEF IsOpen
<1> QED
  BY <1>5, <1>6, <1>7, <1>8 DEF Open

LEMMA OpenTells ==
    ASSUME NEW o, NEW zap, NEW zapAmount, IsOpen(o, zap, zapAmount)
    PROVE  Tells(o, Only(zap, zapAmount))
<1> SUFFICES ASSUME o.error = "none", o.logics # <<>> PROVE Asks(o.logics, Only(zap, zapAmount))
  BY DEF Tells
<1>1. PICK swaps, a, b :
        /\ IsSwapped(swaps, a, b) /\ a = TokenAmount(zap, zapAmount)
        /\ \/ o.logics = swaps
           \/ \E leverage, from : /\ LeverageList(leverage, from, b.token)
                                  /\ o.logics = swaps \o AddZap(leverage, PlaceOf(from, b.token), b.amount)
  BY DEF IsOpen, OpensWith
<1>2. a.token = zap /\ a.amount = zapAmount
  BY <1>1 DEF TokenAmount
<1>3. CASE o.logics = swaps
  BY <1>1, <1>2, <1>3, ZapAlone
<1>4. CASE \E leverage, from : /\ LeverageList(leverage, from, b.token)
                               /\ o.logics = swaps \o AddZap(leverage, PlaceOf(from, b.token), b.amount)
  BY <1>1, <1>2, <1>4, ZappedAsks
<1> QED
  BY <1>1, <1>3, <1>4

-----------------------------------------------------------------------------
(* What a close does to what is owed for its loan.                            *)

\* A logic as the Adapter and the API make it.
Ours(l) ==
    /\ l.kind \in LogicKinds /\ l.bps \in BOOLEAN
    /\ \A a \in {l.input, l.output} : a = NoAmount \/ IsAmount(a)
    /\ l.kind \in {"swap", "loanRepay", "wrap"} => l.bps = FALSE /\ l.input # NoAmount
    /\ l.kind = "swap" => /\ Underlies(l.input) /\ Underlies(l.output)
                          /\ l.slippage \in 0..BPS_BASE
    /\ l.kind = "repay" => l.input # NoAmount /\ IsDebt(l.input.token)
    /\ l.kind = "withdraw" => Underlies(l.output) /\ l.input = Receipt(l.output)
    /\ l.kind = "supply" => /\ Underlies(l.input)
                            /\ l.output.token = ProtocolToken[l.input.token]
    /\ l.kind \in {"loan", "borrow", "pull"} => l.input = NoAmount /\ l.output # NoAmount
    /\ l.kind = "send" => l.input # NoAmount
    /\ l.kind = "pull" => l.output.amount >= SetAside
    /\ l.kind = "loan" => Underlies(l.output)
    /\ l.kind = "loanRepay" => Underlies(l.input)

\* What a logic leaves the agent owing.
OwedAfter(n, l) ==
    CASE l.kind = "loan" -> n + Due(l.output).amount
      [] l.kind = "loanRepay" -> n - Due(l.input).amount
      [] OTHER -> n

\* The logics of a close, and lists of them that take what is owed for the loan from n
\* to m.
ClosingKinds == {"loan", "loanRepay", "swap", "withdraw", "repay", "pull", "wrap"}
Closing(l) ==
    /\ Ours(l) /\ l.kind \in ClosingKinds
    /\ l.kind \in {"loanRepay", "repay"} => l.output = NoAmount
Settles(s, n, m) ==
    /\ List(s)
    /\ \E c : /\ c[0] = n /\ c[Len(s)] = m
              /\ \A i \in 1..Len(s) : Closing(s[i]) /\ c[i] = OwedAfter(c[i - 1], s[i])

LEMMA SettlesOn ==
    ASSUME NEW x, NEW s, NEW y, NEW t, NEW z, Settles(s, x, y), Settles(t, y, z)
    PROVE  Settles(s \o t, x, z)
<1> DEFINE m == Len(s)
           n == Len(t)
<1>1. /\ List(s \o t) /\ Len(s \o t) = m + n /\ m \in Nat /\ n \in Nat
      /\ \A i \in 1..m : (s \o t)[i] = s[i]
      /\ \A i \in (m + 1)..(m + n) : (s \o t)[i] = t[i - m] /\ i - m \in 1..n
  BY Joined DEF Settles, List
<1>2. PICK a : /\ a[0] = x /\ a[m] = y
               /\ \A i \in 1..m : Closing(s[i]) /\ a[i] = OwedAfter(a[i - 1], s[i])
  BY DEF Settles
<1>3. PICK b : /\ b[0] = y /\ b[n] = z
               /\ \A i \in 1..n : Closing(t[i]) /\ b[i] = OwedAfter(b[i - 1], t[i])
  BY DEF Settles
<1> DEFINE c == [i \in 0..(m + n) |-> IF i <= m THEN a[i] ELSE b[i - m]]
<1> HIDE DEF m, n
<1>4. /\ \A i \in 0..m : c[i] = a[i]
      /\ \A i \in m..(m + n) : c[i] = b[i - m]
  BY <1>1, <1>2, <1>3
<1> HIDE DEF c
<1>5. c[0] = x /\ c[m + n] = z
  BY <1>1, <1>2, <1>3, <1>4
<1>6. ASSUME NEW i \in 1..(m + n)
      PROVE  Closing((s \o t)[i]) /\ c[i] = OwedAfter(c[i - 1], (s \o t)[i])
  <2>1. CASE i <= m
    <3>1. i \in 1..m /\ i \in 0..m /\ i - 1 \in 0..m
      BY <1>1, <2>1
    <3> QED
      BY <1>1, <1>2, <1>4, <3>1
  <2>2. CASE i > m
    <3>1. i \in (m + 1)..(m + n) /\ i \in m..(m + n) /\ i - 1 \in m..(m + n)
          /\ (i - 1) - m = (i - m) - 1
      BY <1>1, <2>2
    <3> QED
      BY <1>1, <1>3, <1>4, <3>1
  <2> QED
    BY <1>1, <2>1, <2>2
<1> QED
  BY <1>1, <1>5, <1>6 DEF Settles

LEMMA SettlesNothing ==
    ASSUME NEW n
    PROVE  Settles(<<>>, n, n)
<1> DEFINE c == [i \in 0..0 |-> n]
<1>1. List(<<>>) /\ Len(<<>>) = 0 /\ c[0] = n
  BY DEF List
<1> HIDE DEF c
<1> QED
  BY <1>1 DEF Settles

LEMMA SettlesOne ==
    ASSUME NEW l, Closing(l), NEW n
    PROVE  Settles(<<l>>, n, OwedAfter(n, l))
<1> DEFINE c == [i \in 0..1 |-> IF i = 0 THEN n ELSE OwedAfter(n, l)]
<1>1. List(<<l>>) /\ Len(<<l>>) = 1 /\ <<l>>[1] = l
  BY DEF List
<1>2. c[0] = n /\ c[1] = OwedAfter(n, l)
  OBVIOUS
<1> HIDE DEF c
<1> QED
  BY <1>1, <1>2 DEF Settles

\* The logics a close is made of.
LEMMA ClosingLogics ==
    ASSUME NEW a, Underlies(a), NEW n, NEW bps \in BOOLEAN
    PROVE  /\ Settles(<<WithdrawLogic(a, bps)>>, n, n)
           /\ IsDebt(a.token) => Settles(<<RepayLogic(a, bps)>>, n, n)
           /\ a.amount >= SetAside => Settles(<<PullToken(Receipt(a))>>, n, n)
           /\ \A b : Underlies(b) => Settles(<<WrapNative(a, b)>>, n, n)
           /\ Settles(<<Loan(a)>>, 0, Due(a).amount)
           /\ Settles(<<LoanRepay(a)>>, Due(a).amount, 0)
<1>0. /\ IsAmount(a) /\ IsAmount(Receipt(a)) /\ a # NoAmount /\ Receipt(a) # NoAmount
      /\ Receipt(a).amount = a.amount /\ Due(a).amount \in Nat
  BY AmountsAre, FeesAgree DEF Underlies
<1>1. ASSUME NEW l, Closing(l), l.kind \notin {"loan", "loanRepay"} PROVE Settles(<<l>>, n, n)
  <2>1. OwedAfter(n, l) = n
    BY <1>1 DEF OwedAfter
  <2> QED
    BY <1>1, <2>1, SettlesOne
<1>2. Settles(<<WithdrawLogic(a, bps)>>, n, n)
  <2> DEFINE l == WithdrawLogic(a, bps)
  <2>1. l.kind = "withdraw" /\ l.input = Receipt(a) /\ l.output = a /\ l.bps = bps
    BY DEF WithdrawLogic, Logic
  <2> HIDE DEF l
  <2>2. Closing(l)
    BY <1>0, <2>1 DEF Closing, Ours, LogicKinds, ClosingKinds
  <2> QED
    BY <1>1, <2>1, <2>2 DEF l
<1>3. ASSUME IsDebt(a.token) PROVE Settles(<<RepayLogic(a, bps)>>, n, n)
  <2> DEFINE l == RepayLogic(a, bps)
  <2>1. l.kind = "repay" /\ l.input = a /\ l.output = NoAmount /\ l.bps = bps
    BY DEF RepayLogic, Logic
  <2> HIDE DEF l
  <2>2. Closing(l)
    BY <1>0, <1>3, <2>1 DEF Closing, Ours, LogicKinds, ClosingKinds
  <2> QED
    BY <1>1, <2>1, <2>2 DEF l
<1>4. ASSUME a.amount >= SetAside PROVE Settles(<<PullToken(Receipt(a))>>, n, n)
  <2> DEFINE l == PullToken(Receipt(a))
  <2>1. l.kind = "pull" /\ l.input = NoAmount /\ l.output = Receipt(a) /\ l.bps \in BOOLEAN
    BY DEF PullToken, Logic
  <2> HIDE DEF l
  <2>2. Closing(l)
    BY <1>0, <1>4, <2>1 DEF Closing, Ours, LogicKinds, ClosingKinds
  <2> QED
    BY <1>1, <2>1, <2>2 DEF l
<1>5. ASSUME NEW b, Underlies(b) PROVE Settles(<<WrapNative(a, b)>>, n, n)
  <2> DEFINE l == WrapNative(a, b)
  <2>1. l.kind = "wrap" /\ l.input = a /\ l.output = b /\ l.bps \in BOOLEAN /\ l.bps = FALSE
    BY DEF WrapNative, Logic
  <2>2. IsAmount(b)
    BY <1>5, AmountsAre
  <2> HIDE DEF l
  <2>3. Closing(l)
    BY <1>0, <2>1, <2>2 DEF Closing, Ours, LogicKinds, ClosingKinds
  <2> QED
    BY <1>1, <2>1, <2>3 DEF l
<1>6. Settles(<<Loan(a)>>, 0, Due(a).amount)
  <2> DEFINE l == Loan(a)
  <2>1. l.kind = "loan" /\ l.input = NoAmount /\ l.output = a /\ l.bps \in BOOLEAN
    BY DEF Loan, Logic
  <2> HIDE DEF l
  <2>2. Closing(l) /\ OwedAfter(0, l) = Due(a).amount
    BY <1>0, <2>1 DEF Closing, Ours, LogicKinds, ClosingKinds, OwedAfter
  <2>3. Settles(<<l>>, 0, Due(a).amount)
    BY <2>2, SettlesOne
  <2> QED
    BY <2>3 DEF l
<1>7. Settles(<<LoanRepay(a)>>, Due(a).amount, 0)
  <2> DEFINE l == LoanRepay(a)
             due == Due(a).amount
  <2>1. l.kind = "loanRepay" /\ l.input = a /\ l.output = NoAmount /\ l.bps \in BOOLEAN
        /\ l.bps = FALSE
    BY DEF LoanRepay, Logic
  <2> HIDE DEF l
  <2>2. Closing(l) /\ OwedAfter(due, l) = 0
    BY <1>0, <2>1 DEF Closing, Ours, LogicKinds, ClosingKinds, OwedAfter
  <2> HIDE DEF due
  <2>3. Settles(<<l>>, due, 0)
    BY <2>2, SettlesOne
  <2> QED
    BY <2>3 DEF l, due
<1> QED
  BY <1>2, <1>3, <1>4, <1>5, <1>6, <1>7

LEMMA SwapSettles ==
    ASSUME NEW swaps, NEW a, NEW b, IsSwapped(swaps, a, b), NEW n
    PROVE  Settles(swaps, n, n)
<1>1. CASE swaps = <<>>
  BY <1>1, SettlesNothing
<1>2. CASE swaps # <<>>
  <2>1. PICK q : swaps = <<SwapToken(q)>> /\ q.input = a /\ q.output = b
                 /\ IsQuote(q, a.token, b.token)
    BY <1>2 DEF IsSwapped
  <2>2. Underlies(a) /\ Underlies(b) /\ q.slippage \in 0..BPS_BASE
    BY <2>1 DEF IsSwapped, IsQuote
  <2> DEFINE l == SwapToken(q)
  <2>3. /\ l.kind = "swap" /\ l.input = a /\ l.output = b /\ l.bps \in BOOLEAN
        /\ l.bps = FALSE /\ l.slippage = q.slippage
    BY <2>1 DEF SwapToken, Logic
  <2>4. IsAmount(a) /\ IsAmount(b) /\ a # NoAmount
    BY <2>2, AmountsAre
  <2>5. swaps = <<l>>
    BY <2>1
  <2> HIDE DEF l
  <2>6. Closing(l) /\ OwedAfter(n, l) = n
    BY <2>2, <2>3, <2>4 DEF Closing, Ours, LogicKinds, ClosingKinds, OwedAfter
  <2> QED
    BY <2>5, <2>6, SettlesOne
<1> QED
  BY <1>1, <1>2

\* The repayments and the withdrawals of a close leave the loan alone.
LEMMA RepaymentSettles ==
    ASSUME NEW o, NEW src, NEW dest, NEW told, RepaysWith(o, src, dest, told), NEW n
    PROVE  Settles(o.logics, n, n)
<1>1. PICK swaps, a, b :
        /\ IsSwapped(swaps, a, b) /\ IsDebt(b.token)
        /\ o.logics = swaps \o <<RepayLogic(b, swaps # <<>>)>>
  BY DEF RepaysWith
<1> DEFINE bps == swaps # <<>>
<1>2. bps \in BOOLEAN /\ Underlies(b)
  BY <1>1 DEF IsSwapped
<1>3. Settles(<<RepayLogic(b, bps)>>, n, n)
  <2> HIDE DEF bps
  <2> QED
    BY <1>1, <1>2, ClosingLogics
<1> QED
  BY <1>1, <1>3, SwapSettles, SettlesOn

LEMMA WithdrawalSettles ==
    ASSUME NEW o, NEW src \in Tokens, NEW amount, NEW dest, WithdrawsWith(o, src, amount, dest), NEW n
    PROVE  /\ Settles(o.logics, n, n)
           /\ src \in AssetTokenized => Settles(<<PullToken(o.logics[1].input)>>, n, n)
<1>1. PICK out : /\ StepThenSwap(o, WithdrawLogic(out, out.token \in AssetTokenized), out,
                                 Arriving(out), dest)
                 /\ Wrapped[out.token] = Wrapped[src]
  BY DEF WithdrawsWith
<1> DEFINE bps == out.token \in AssetTokenized
           l == WithdrawLogic(out, bps)
<1>2. PICK swaps, a, b :
        /\ IsSwapped(swaps, a, b) /\ Underlies(out) /\ Underlies(Arriving(out))
        /\ o.logics = <<l>> \o swaps
  BY <1>1 DEF StepThenSwap
<1>3. bps \in BOOLEAN
  OBVIOUS
<1>4. l.input = Receipt(out)
  BY DEF WithdrawLogic, Logic
<1>5. out.token \in AssetTokenized <=> src \in AssetTokenized
  BY <1>1, <1>2, ReceiptAssumption DEF Underlies
<1>6. src \in AssetTokenized => out.amount >= SetAside
  BY <1>2, <1>5 DEF Arriving, Short, Underlies, TokenAmount, SetAside
<1> HIDE DEF bps
<1>7. Settles(<<l>>, n, n)
  BY <1>2, <1>3, ClosingLogics
<1> HIDE DEF l
<1>8. Settles(o.logics, n, n)
  BY <1>2, <1>7, SwapSettles, SettlesOn
<1>9. o.logics[1] = l
  <2>1. List(<<l>>) /\ Len(<<l>>) = 1 /\ <<l>>[1] = l
    BY DEF List
  <2>2. List(swaps)
    BY <1>2, SwapSettles DEF Settles
  <2>3. \A i \in 1..Len(<<l>>) : (<<l>> \o swaps)[i] = <<l>>[i]
    BY <2>1, <2>2, Joined
  <2> QED
    BY <1>2, <2>1, <2>3
<1>10. src \in AssetTokenized => Settles(<<PullToken(o.logics[1].input)>>, n, n)
  BY <1>2, <1>3, <1>4, <1>6, <1>9, ClosingLogics
<1> QED
  BY <1>8, <1>10

-----------------------------------------------------------------------------
(* Closing: the loops, seen from the token everything is swapped from or to. *)

LEMMA MovesLess ==
    ASSUME NEW w, NEW s, NEW a, NEW b, NEW c, NEW d, NEW n, NEW m,
           Moves(s, b, c, w, n, m), Covers(a, b), Covers(c, d)
    PROVE  Moves(s, a, d, w, n, m)
<1>1. ASSUME NEW x, NEW y, NEW h \in Havings, Has(h, x), Covers(x, y) PROVE Has(h, y)
  BY <1>1 DEF Has, Covers, Havings
<1> SUFFICES ASSUME NEW h \in Havings, Has(h, a), n <= h[w]
             PROVE  \E g : Pays(h, s, g) /\ Has(g, d) /\ g[w] = h[w] - n + m
  BY DEF Moves
<1>2. PICK g : Pays(h, s, g) /\ Has(g, c) /\ g[w] = h[w] - n + m
  BY <1>1 DEF Moves
<1>3. g \in Havings
  BY <1>2 DEF Pays, Takes
<1> QED
  BY <1>1, <1>2, <1>3

\* A step that takes none of w.
LEMMA PlainMoves ==
    ASSUME NEW w \in Tokens, NEW kind, NEW input, NEW output, NEW bps \in BOOLEAN,
           kind \notin {"swap", "loanRepay"}, input.token # w,
           input = NoAmount \/ IsAmount(input), output = NoAmount \/ IsAmount(output)
    PROVE  Moves(<<Logic(kind, input, output, bps, 0)>>,
                 IF kind = "withdraw" /\ output.token \notin AssetTokenized THEN NoAmount ELSE input,
                 output, w, 0, IF output.token = w THEN output.amount ELSE 0)
<1> DEFINE l == Logic(kind, input, output, bps, 0)
           a == IF kind = "withdraw" /\ output.token \notin AssetTokenized THEN NoAmount ELSE input
<1>0. l.kind = kind /\ l.input = input /\ l.output = output /\ l.bps = bps
  BY LogicParts
<1>1. l.kind = kind /\ l.input = input /\ l.output = output /\ l.bps = bps /\ Fair(l)
  <2>1. Fair(l)
    BY PlainTurns
  <2> QED
    BY <1>0, <2>1
<1> HIDE DEF l
<1>2. w \in AgentTokens
  BY DEF AgentTokens
<1>3. \A c \in {input, output} : c = TokenAmount(c.token, c.amount)
  BY DEF IsAmount, NoAmount, TokenAmount
<1>4. Owed(l) = input.amount /\ Provided(l) = output.amount
  BY <1>1 DEF Owed, Provided
<1>5. Gift(l) = output /\ Bill(l) = a
  BY <1>1, <1>3, <1>4 DEF Gift, Bill, TakesInput
<1> HIDE DEF a
<1>6. Moves(<<l>>, a, Gift(l), w, 0, IF l.output.token = w THEN Provided(l) ELSE 0)
  BY <1>1, <1>2, <1>5, OneMoves
<1> QED
  BY <1>1, <1>4, <1>5, <1>6 DEF l, a

LEMMA StepMoves ==
    ASSUME NEW w \in Tokens, NEW a, Underlies(a), NEW bps \in BOOLEAN
    PROVE  /\ a.token # w => Moves(<<RepayLogic(a, bps)>>, a, NoAmount, w, 0, 0)
           /\ Moves(<<PullToken(Receipt(a))>>, NoAmount, Receipt(a), w, 0, 0)
           /\ Moves(<<WithdrawLogic(a, bps)>>, Claim(a), a, w, 0,
                    IF a.token = w THEN a.amount ELSE 0)
<1>1. /\ IsAmount(a) /\ IsAmount(Receipt(a)) /\ Receipt(a).token # w
      /\ NoAmount.token # w
  BY AmountsAre, NothingIsNone, ReceiptAssumption
<1>2. ASSUME a.token # w PROVE Moves(<<RepayLogic(a, bps)>>, a, NoAmount, w, 0, 0)
  <2>1. Moves(<<Logic("repay", a, NoAmount, bps, 0)>>, a, NoAmount, w, 0,
              IF NoAmount.token = w THEN NoAmount.amount ELSE 0)
    BY <1>1, <1>2, PlainMoves
  <2> QED
    BY <1>1, <2>1 DEF RepayLogic
<1>3. Moves(<<PullToken(Receipt(a))>>, NoAmount, Receipt(a), w, 0, 0)
  <2> DEFINE no == FALSE
  <2>1. no \in BOOLEAN
    OBVIOUS
  <2> HIDE DEF no
  <2>2. Moves(<<Logic("pull", NoAmount, Receipt(a), no, 0)>>, NoAmount, Receipt(a), w, 0,
              IF Receipt(a).token = w THEN Receipt(a).amount ELSE 0)
    BY <1>1, <2>1, PlainMoves
  <2> QED
    BY <1>1, <2>2 DEF PullToken, no
<1>4. Moves(<<WithdrawLogic(a, bps)>>, Claim(a), a, w, 0, IF a.token = w THEN a.amount ELSE 0)
  <2>1. Moves(<<Logic("withdraw", Receipt(a), a, bps, 0)>>,
              IF a.token \notin AssetTokenized THEN NoAmount ELSE Receipt(a), a, w, 0,
              IF a.token = w THEN a.amount ELSE 0)
    BY <1>1, PlainMoves
  <2> QED
    BY <2>1 DEF WithdrawLogic, Claim
<1> QED
  BY <1>2, <1>3, <1>4

\* A swap from w, and one into it.
LEMMA SwapMoves ==
    ASSUME NEW w \in Tokens, NEW q, IsQuote(q, q.input.token, q.output.token),
           q.input.token # q.output.token
    PROVE  /\ q.input.token = w => Moves(<<SwapToken(q)>>, NoAmount, q.output, w, q.input.amount, 0)
           /\ q.output.token = w => Moves(<<SwapToken(q)>>, q.input, q.output, w, 0, q.output.amount)
<1> DEFINE k == SwapToken(q)
<1>1. Fair(k) /\ TakesInput(k) /\ Bill(k) = q.input /\ Gift(k) = q.output
  BY QuotedSwap
<1>2. k.kind = "swap" /\ k.input = q.input /\ k.output = q.output /\ k.bps = FALSE
  BY DEF SwapToken, Logic
<1> HIDE DEF k
<1>3. Owed(k) = q.input.amount /\ Provided(k) = q.output.amount /\ q.input.amount \in Nat
  BY <1>2 DEF Owed, Provided, IsQuote, Underlies
<1>4. w \in AgentTokens
  BY DEF AgentTokens
<1>5. ASSUME q.input.token = w
      PROVE  Moves(<<k>>, NoAmount, q.output, w, q.input.amount, 0)
  <2>1. Moves(<<k>>, NoAmount, Gift(k), w, q.input.amount,
              IF k.output.token = w THEN Provided(k) ELSE 0)
    BY <1>1, <1>2, <1>3, <1>4, <1>5, OneMoves
  <2> QED
    BY <1>1, <1>2, <1>5, <2>1
<1>6. ASSUME q.output.token = w
      PROVE  Moves(<<k>>, q.input, q.output, w, 0, q.output.amount)
  <2>1. Moves(<<k>>, q.input, Gift(k), w, 0, IF k.output.token = w THEN Provided(k) ELSE 0)
    BY <1>1, <1>2, <1>4, <1>6, OneMoves
  <2> QED
    BY <1>1, <1>2, <1>3, <1>6, <2>1
<1> QED
  BY <1>5, <1>6 DEF k

\* A zapped repayment of another token's debt takes what it tells from w.
LEMMA RepaymentMoves ==
    ASSUME NEW w \in Tokens, NEW o, NEW src, NEW told, RepaysWith(o, src, w, told),
           ~Same(src, w), Wrapped[src] # w
    PROVE  o.destAmount \in Nat /\ Moves(o.logics, NoAmount, NoAmount, w, o.destAmount, 0)
<1>1. PICK swaps, a, b :
        /\ IsSwapped(swaps, a, b) /\ a.token = w
        /\ o.logics = swaps \o <<RepayLogic(b, swaps # <<>>)>>
        /\ swaps # <<>> /\ b.token = Wrapped[src] /\ a.amount = o.destAmount
  BY DEF RepaysWith
<1>2. PICK q : swaps = <<SwapToken(q)>> /\ q.input = a /\ q.output = b
               /\ IsQuote(q, a.token, b.token)
  BY <1>1 DEF IsSwapped
<1>3. Underlies(a) /\ Underlies(b) /\ a.amount \in Nat /\ w \in AgentTokens
  BY <1>1 DEF IsSwapped, Underlies, AgentTokens
<1>4. Moves(swaps, NoAmount, b, w, a.amount, 0)
  BY <1>1, <1>2, SwapMoves
<1>5. Moves(<<RepayLogic(b, swaps # <<>>)>>, b, NoAmount, w, 0, 0)
  <2>1. (swaps # <<>>) \in BOOLEAN
    OBVIOUS
  <2> QED
    BY <1>1, <1>3, <2>1, StepMoves
<1> DEFINE last == <<RepayLogic(b, swaps # <<>>)>>
<1> HIDE DEF last
<1>6. Moves(swaps \o last, NoAmount, NoAmount, w, a.amount + 0, 0 + 0)
  BY <1>3, <1>4, <1>5, MovesOn DEF last
<1>7. a.amount + 0 = a.amount /\ 0 + 0 = 0
  BY <1>3
<1> QED
  BY <1>1, <1>3, <1>6, <1>7 DEF last

\* A zapped withdrawal, with its receipts at hand, adds what it tells to w.
LEMMA WithdrawalMoves ==
    ASSUME NEW w \in Tokens, NEW o, NEW src \in Tokens, NEW amount, WithdrawsWith(o, src, amount, w)
    PROVE  /\ o.destAmount \in Nat
           /\ LET addFunds == IF src \in AssetTokenized THEN <<PullToken(o.logics[1].input)>> ELSE <<>>
              IN  \E claim : /\ Moves(addFunds, NoAmount, claim, w, 0, 0)
                             /\ Moves(o.logics, claim, NoAmount, w, 0, o.destAmount)
<1> DEFINE addFunds == IF src \in AssetTokenized THEN <<PullToken(o.logics[1].input)>> ELSE <<>>
<1>1. PICK out : /\ StepThenSwap(o, WithdrawLogic(out, out.token \in AssetTokenized), out,
                                 Arriving(out), w)
                 /\ Wrapped[out.token] = Wrapped[src]
  BY DEF WithdrawsWith
<1> DEFINE l == WithdrawLogic(out, out.token \in AssetTokenized)
<1>2. PICK swaps, a, b :
        /\ IsSwapped(swaps, a, b) /\ Underlies(out) /\ Covers(out, a)
        /\ o.logics = <<l>> \o swaps /\ b.token = w /\ b.amount = o.destAmount
        /\ swaps = <<>> => a = out
        /\ swaps # <<>> => out.token # w
  BY <1>1 DEF StepThenSwap
<1>3. out.token \in AssetTokenized <=> src \in AssetTokenized
  BY <1>1, <1>2, ReceiptAssumption DEF Underlies
<1>4. Underlies(a) /\ Underlies(b) /\ b.amount \in Nat /\ w \in AgentTokens
  BY <1>2 DEF IsSwapped, Underlies, AgentTokens
<1>5. l.input = Receipt(out)
  BY DEF WithdrawLogic, Logic
<1>6. (out.token \in AssetTokenized) \in BOOLEAN
  OBVIOUS
<1>7. Moves(<<l>>, Claim(out), out, w, 0, IF out.token = w THEN out.amount ELSE 0)
  BY <1>2, <1>6, StepMoves
<1> HIDE DEF l
<1>8. o.logics[1] = l
  <2>1. List(<<l>>) /\ Len(<<l>>) = 1 /\ <<l>>[1] = l
    BY DEF List
  <2>2. List(swaps)
    <3>1. CASE swaps = <<>>
      BY <3>1 DEF List
    <3>2. CASE swaps # <<>>
      <4>1. PICK q : swaps = <<SwapToken(q)>>
        BY <1>2, <3>2 DEF IsSwapped
      <4> QED
        BY <4>1 DEF List
    <3> QED
      BY <3>1, <3>2
  <2>3. \A i \in 1..Len(<<l>>) : (<<l>> \o swaps)[i] = <<l>>[i]
    BY <2>1, <2>2, Joined
  <2> QED
    BY <1>2, <2>1, <2>3
<1>9. Moves(addFunds, NoAmount, Claim(out), w, 0, 0)
  <2>1. CASE src \in AssetTokenized
    <3>1. addFunds = <<PullToken(Receipt(out))>> /\ Claim(out) = Receipt(out)
      BY <1>3, <1>5, <1>8, <2>1 DEF Claim
    <3> HIDE DEF addFunds
    <3> QED
      BY <1>2, <3>1, StepMoves
  <2>2. CASE src \notin AssetTokenized
    <3>1. addFunds = <<>> /\ Claim(out) = NoAmount
      BY <1>3, <2>2 DEF Claim
    <3> HIDE DEF addFunds
    <3> QED
      BY <1>4, <3>1, MovesNothing
  <2> QED
    BY <2>1, <2>2
<1>10. Moves(o.logics, Claim(out), NoAmount, w, 0, o.destAmount)
  <2>1. CASE swaps = <<>>
    <3>1. a = b /\ out = b /\ out.token = w /\ out.amount = o.destAmount
      BY <1>2, <2>1 DEF IsSwapped
    <3>2. o.logics = <<l>>
      <4>1. <<l>> \o <<>> = <<l>>
        BY JoinNothing DEF List
      <4> QED
        BY <1>2, <2>1, <4>1
    <3>3. Moves(<<l>>, Claim(out), out, w, 0, o.destAmount)
      BY <1>7, <3>1
    <3>4. Covers(Claim(out), Claim(out)) /\ Covers(out, NoAmount)
      BY <1>2, AmountsAre DEF Covers, Claim, IsAmount
    <3> QED
      BY <3>2, <3>3, <3>4, MovesLess
  <2>2. CASE swaps # <<>>
    <3>1. PICK q : swaps = <<SwapToken(q)>> /\ q.input = a /\ q.output = b
                   /\ IsQuote(q, a.token, b.token)
      BY <1>2, <2>2 DEF IsSwapped
    <3>2. a.token = out.token /\ out.token # w
      BY <1>2, <1>4, <2>2, AmountsAre DEF Covers
    <3>3. Moves(swaps, a, b, w, 0, b.amount)
      BY <1>2, <3>1, <3>2, SwapMoves
    <3>4. Covers(b, NoAmount)
      BY DEF Covers
    <3>5. Moves(swaps, out, NoAmount, w, 0, b.amount)
      BY <1>2, <3>3, <3>4, MovesLess
    <3>6. Moves(<<l>>, Claim(out), out, w, 0, 0)
      BY <1>7, <3>2
    <3>7. Moves(<<l>> \o swaps, Claim(out), NoAmount, w, 0 + 0, 0 + b.amount)
      BY <1>4, <3>5, <3>6, MovesOn
    <3>8. 0 + 0 = 0 /\ 0 + b.amount = b.amount
      BY <1>4
    <3> QED
      BY <1>2, <3>7, <3>8
  <2> QED
    BY <2>1, <2>2
<1> QED
  BY <1>2, <1>4, <1>9, <1>10

\* A turn of a loop that fails, and one that adds to the list.
IsLoop(acc) == acc = [out |-> acc.out, sum |-> acc.sum] /\ IsOutput(acc.out)
TurnFailed(acc, e) == [acc EXCEPT !.out.error = e]
TurnAdded(acc, s, q, sum) ==
    [out |-> [acc.out EXCEPT !.logics = s, !.afterPortfolio = q], sum |-> sum]

LEMMA TurnIs ==
    ASSUME NEW acc, IsLoop(acc)
    PROVE  /\ \A e : /\ IsLoop(TurnFailed(acc, e)) /\ TurnFailed(acc, e).out.error = e
                     /\ TurnFailed(acc, e).out.afterPortfolio = acc.out.afterPortfolio
           /\ \A s, q, sum :
                /\ IsLoop(TurnAdded(acc, s, q, sum)) /\ TurnAdded(acc, s, q, sum).sum = sum
                /\ TurnAdded(acc, s, q, sum).out.error = acc.out.error
                /\ TurnAdded(acc, s, q, sum).out.logics = s
                /\ TurnAdded(acc, s, q, sum).out.afterPortfolio = q
<1>1. acc = [out |-> acc.out, sum |-> acc.sum]
  BY DEF IsLoop
<1>2. acc.out = Output(acc.out.destAmount, acc.out.afterPortfolio, acc.out.error, acc.out.logics)
  BY DEF IsLoop, IsOutput
<1>3. ASSUME NEW e
      PROVE  /\ IsLoop(TurnFailed(acc, e)) /\ TurnFailed(acc, e).out.error = e
             /\ TurnFailed(acc, e).out.afterPortfolio = acc.out.afterPortfolio
  <2> DEFINE o == Output(acc.out.destAmount, acc.out.afterPortfolio, e, acc.out.logics)
  <2>1. TurnFailed(acc, e) = [out |-> o, sum |-> acc.sum]
    BY <1>1, <1>2 DEF Output, TurnFailed
  <2>2. IsOutput(o) /\ o.error = e /\ o.afterPortfolio = acc.out.afterPortfolio
    BY DEF IsOutput, Output
  <2> HIDE DEF o
  <2> QED
    BY <2>1, <2>2 DEF IsLoop
<1>4. ASSUME NEW s, NEW q, NEW sum
      PROVE  /\ IsLoop(TurnAdded(acc, s, q, sum)) /\ TurnAdded(acc, s, q, sum).sum = sum
             /\ TurnAdded(acc, s, q, sum).out.error = acc.out.error
             /\ TurnAdded(acc, s, q, sum).out.logics = s
             /\ TurnAdded(acc, s, q, sum).out.afterPortfolio = q
  <2> DEFINE o == Output(acc.out.destAmount, q, acc.out.error, s)
             r == [acc.out EXCEPT !.logics = s, !.afterPortfolio = q]
  <2>1. r = o
    <3>1. DOMAIN acc.out = {"destAmount", "afterPortfolio", "error", "logics"}
      BY <1>2 DEF Output
    <3>2. r = [f \in {"destAmount", "afterPortfolio", "error", "logics"} |->
                 IF f = "afterPortfolio" THEN q ELSE IF f = "logics" THEN s ELSE acc.out[f]]
      BY <3>1
    <3> HIDE DEF r
    <3> QED
      BY <3>2 DEF Output
  <2>2. TurnAdded(acc, s, q, sum) = [out |-> r, sum |-> sum]
    BY DEF TurnAdded
  <2>3. IsOutput(o) /\ o.error = acc.out.error /\ o.logics = s /\ o.afterPortfolio = q
    BY DEF IsOutput, Output
  <2> HIDE DEF o, r
  <2> QED
    BY <2>1, <2>2, <2>3 DEF IsLoop
<1> QED
  BY <1>3, <1>4

\* A repayment leaves the supplies alone.
HasSupplies(p, supplies) == "supplies" \in DOMAIN p /\ p.supplies = supplies

LEMMA ZapRepayKeeps ==
    ASSUME NEW p, NEW supplies, HasSupplies(p, supplies),
           NEW src, NEW amount, NEW dest, NEW slippage \in 0..BPS_BASE, NEW isRepayAll, NEW net
    PROVE  HasSupplies(ZapRepay(p, src, amount, dest, slippage, isRepayAll, net).afterPortfolio,
                       supplies)
<1> DEFINE q == Repay(p, FindBorrow(src), amount)
<1>1. HasSupplies(q, supplies)
  BY DEF Repay, HasSupplies
<1> HIDE DEF q
<1>2. /\ \A n, e, s : HasSupplies(Output(n, q, e, s).afterPortfolio, supplies)
      /\ \A e : HasSupplies(Failed(p, e).afterPortfolio, supplies)
      /\ \A e : HasSupplies(Failed(q, e).afterPortfolio, supplies)
      /\ HasSupplies(NoOperation(p).afterPortfolio, supplies)
  BY <1>1 DEF Failed, NoOperation, Output
<1> HIDE DEF HasSupplies
<1> QED
  BY <1>2 DEF ZapRepay, q

\* The loop over the borrows: its list takes its sum from w.
Repaying(acc, w, supplies) ==
    /\ IsLoop(acc) /\ HasSupplies(acc.out.afterPortfolio, supplies)
    /\ acc.out.error = "none" =>
         /\ acc.sum \in Nat /\ Moves(acc.out.logics, NoAmount, NoAmount, w, acc.sum, 0)
         /\ \A n : Settles(acc.out.logics, n, n)

LEMMA RepayEachMoves ==
    ASSUME NEW p, NEW w \in Tokens, Wrapped[w] = w, NEW slippage \in 0..BPS_BASE, NEW net, NEW acc,
           NEW supplies, NEW b \in Tokens, Repaying(acc, w, supplies), p.borrows[b] \in Nat,
           p.borrows[b] > 0 => ~Same(b, w)
    PROVE  Repaying(RepayEach(p, w, slippage, net, acc, b), w, supplies)
<1> DEFINE amount == p.borrows[b]
           zap == ZapRepay(acc.out.afterPortfolio, b, amount, w, slippage, TRUE, net)
           told == RepayAmount(acc.out.afterPortfolio, b, amount, 1, TRUE)
           list == acc.out.logics \o zap.logics
           longer == TurnAdded(acc, list, zap.afterPortfolio, acc.sum + zap.destAmount)
           failed == TurnFailed(acc, zap.error)
           next == RepayEach(p, w, slippage, net, acc, b)
<1>1. \/ next = acc
      \/ zap.error # "none" /\ next = failed
      \/ acc.out.error = "none" /\ amount # 0 /\ zap.error = "none" /\ next = longer
  BY DEF RepayEach, TurnAdded, TurnFailed
<1>2. IsZapRepay(zap, b, amount, w, told)
  <2> DEFINE yes == TRUE
  <2>1. yes = TRUE
    OBVIOUS
  <2> HIDE DEF yes
  <2>2. IsZapRepay(ZapRepay(acc.out.afterPortfolio, b, amount, w, slippage, yes, net), b, amount, w,
                   RepayAmount(acc.out.afterPortfolio, b, amount, 1, yes))
    BY ZapRepayIs
  <2> QED
    BY <2>1, <2>2
<1>3. HasSupplies(zap.afterPortfolio, supplies)
  <2> DEFINE yes == TRUE
  <2>1. yes = TRUE
    OBVIOUS
  <2> HIDE DEF yes
  <2>2. HasSupplies(ZapRepay(acc.out.afterPortfolio, b, amount, w, slippage, yes, net).afterPortfolio,
                    supplies)
    BY ZapRepayKeeps DEF Repaying
  <2> QED
    BY <2>1, <2>2
<1> HIDE DEF zap, told, next
<1>4. ASSUME zap.error # "none", next = failed PROVE Repaying(next, w, supplies)
  BY <1>4, TurnIs DEF Repaying
<1>5. ASSUME acc.out.error = "none", amount # 0, zap.error = "none", next = longer
      PROVE  Repaying(next, w, supplies)
  <2>1. ~Same(b, w) /\ Wrapped[b] # w
    BY <1>5 DEF Same
  <2>2. zap.destAmount \in Nat /\ Moves(zap.logics, NoAmount, NoAmount, w, zap.destAmount, 0)
    BY <1>2, <1>5, <2>1, RepaymentMoves DEF IsZapRepay
  <2>3. acc.sum \in Nat /\ Moves(acc.out.logics, NoAmount, NoAmount, w, acc.sum, 0)
    BY <1>5 DEF Repaying
  <2>4. w \in AgentTokens
    BY DEF AgentTokens
  <2>5. Moves(list, NoAmount, NoAmount, w, acc.sum + zap.destAmount, 0 + 0)
    BY <2>2, <2>3, <2>4, MovesOn
  <2>6. acc.sum + zap.destAmount \in Nat /\ 0 + 0 = 0
    BY <2>2, <2>3
  <2>8. ASSUME NEW n PROVE Settles(list, n, n)
    <3>1. Settles(acc.out.logics, n, n)
      BY <1>5 DEF Repaying
    <3>2. RepaysWith(zap, b, w, told)
      BY <1>2, <1>5 DEF IsZapRepay
    <3>3. Settles(zap.logics, n, n)
      BY <3>2, RepaymentSettles
    <3> QED
      BY <3>1, <3>3, SettlesOn
  <2> HIDE DEF list
  <2>7. IsLoop(longer) /\ longer.sum = acc.sum + zap.destAmount /\ longer.out.logics = list
        /\ longer.out.afterPortfolio = zap.afterPortfolio
    BY TurnIs DEF Repaying
  <2> HIDE DEF longer
  <2> QED
    BY <1>3, <1>5, <2>5, <2>6, <2>7, <2>8 DEF Repaying
<1>6. Repaying(next, w, supplies)
  BY <1>1, <1>4, <1>5
<1> QED
  BY <1>6 DEF next

\* The loop over the supplies, run with h at hand: its sum joins the balance of w, and
\* n is owed for the loan before it.
Withdrawing(acc, h, w, n) ==
    /\ IsLoop(acc)
    /\ acc.out.error = "none" =>
         /\ acc.sum \in Nat /\ \E g : Pays(h, acc.out.logics, g) /\ g[w] = h[w] + acc.sum
         /\ Settles(acc.out.logics, 0, n)

LEMMA WithdrawEachMoves ==
    ASSUME NEW p, NEW w \in Tokens, NEW slippage \in 0..BPS_BASE, NEW net, NEW acc, NEW h \in Havings,
           NEW n, NEW s \in Tokens, Withdrawing(acc, h, w, n), p.supplies[s] \in Nat,
           MoreThanDust(s, p.supplies[s])
    PROVE  Withdrawing(WithdrawEach(p, w, slippage, net, acc, s), h, w, n)
<1> DEFINE amount == p.supplies[s]
           zap == ZapWithdraw(acc.out.afterPortfolio, s, amount, w, slippage, net)
           addFunds == IF s \in AssetTokenized THEN <<PullToken(zap.logics[1].input)>> ELSE <<>>
           list == acc.out.logics \o addFunds \o zap.logics
           longer == TurnAdded(acc, list, zap.afterPortfolio, acc.sum + zap.destAmount)
           failed == TurnFailed(acc, zap.error)
           next == WithdrawEach(p, w, slippage, net, acc, s)
<1>1. \/ next = acc
      \/ zap.error # "none" /\ next = failed
      \/ acc.out.error = "none" /\ amount # 0 /\ zap.error = "none" /\ next = longer
  BY DEF WithdrawEach, TurnAdded, TurnFailed
<1>2. IsZapWithdraw(zap, s, amount, w)
  BY ZapWithdrawIs
<1> HIDE DEF zap, next
<1>3. ASSUME zap.error # "none", next = failed PROVE Withdrawing(next, h, w, n)
  BY <1>3, TurnIs DEF Withdrawing
<1>4. ASSUME acc.out.error = "none", amount # 0, zap.error = "none", next = longer
      PROVE  Withdrawing(next, h, w, n)
  <2>0. WithdrawsWith(zap, s, amount, w)
    BY <1>2, <1>4 DEF IsZapWithdraw
  <2>1. zap.destAmount \in Nat
    BY <2>0, WithdrawalMoves
  <2>2. PICK claim : /\ Moves(addFunds, NoAmount, claim, w, 0, 0)
                     /\ Moves(zap.logics, claim, NoAmount, w, 0, zap.destAmount)
    BY <2>0, WithdrawalMoves
  <2>12. Settles(list, 0, n)
    <3>1. Settles(acc.out.logics, 0, n)
      BY <1>4 DEF Withdrawing
    <3>2. Settles(zap.logics, n, n)
      BY <2>0, WithdrawalSettles
    <3>3. Settles(addFunds, n, n)
      <4>1. CASE s \in AssetTokenized
        BY <2>0, <4>1, WithdrawalSettles
      <4>2. CASE s \notin AssetTokenized
        BY <4>2, SettlesNothing
      <4> QED
        BY <4>1, <4>2
    <3> HIDE DEF addFunds
    <3>4. Settles(acc.out.logics \o addFunds, 0, n)
      BY <3>1, <3>3, SettlesOn
    <3> QED
      BY <3>2, <3>4, SettlesOn
  <2> HIDE DEF addFunds
  <2>3. PICK g : Pays(h, acc.out.logics, g) /\ g[w] = h[w] + acc.sum
    BY <1>4 DEF Withdrawing
  <2>4. g \in Havings /\ h[w] \in Nat /\ acc.sum \in Nat /\ w \in AgentTokens
    BY <1>4, <2>3 DEF Pays, Takes, Havings, Withdrawing, AgentTokens
  <2>5. \A k \in Havings : 0 <= k[w] /\ k[w] \in Nat
    BY <2>4 DEF Havings
  <2>6. PICK j : Pays(g, addFunds, j) /\ Has(j, claim) /\ j[w] = g[w] - 0 + 0
    BY <2>2, <2>4, <2>5 DEF Moves, Has
  <2>7. j \in Havings
    BY <2>6 DEF Pays, Takes
  <2>8. PICK k : Pays(j, zap.logics, k) /\ k[w] = j[w] - 0 + zap.destAmount
    BY <2>2, <2>5, <2>6, <2>7 DEF Moves
  <2>9. Pays(h, list, k)
    <3>1. Pays(h, acc.out.logics \o addFunds, j)
      BY <2>3, <2>6, PaysOn
    <3> QED
      BY <2>8, <3>1, PaysOn
  <2>10. k[w] = h[w] + (acc.sum + zap.destAmount) /\ acc.sum + zap.destAmount \in Nat
    BY <2>1, <2>3, <2>4, <2>6, <2>8
  <2> HIDE DEF list
  <2>11. IsLoop(longer) /\ longer.sum = acc.sum + zap.destAmount /\ longer.out.logics = list
    BY TurnIs DEF Withdrawing
  <2> HIDE DEF longer
  <2> QED
    BY <1>4, <2>9, <2>10, <2>11, <2>12 DEF Withdrawing
<1>5. Withdrawing(next, h, w, n)
  BY <1>1, <1>3, <1>4
<1> QED
  BY <1>5 DEF next

LEMMA CloseBorrowsMoves ==
    ASSUME NEW p \in Portfolios, NEW w \in Tokens, Wrapped[w] = w, NEW slippage \in 0..BPS_BASE, NEW net,
           \A b \in BorrowTokens : p.borrows[b] > 0 => ~Same(b, w)
    PROVE  Repaying(CloseBorrows(p, w, slippage, net), w, p.supplies)
<1> DEFINE base == [out |-> NoOperation(p), sum |-> 0]
           n == Len(BorrowOrder)
           Done(a) == Repaying(a, w, p.supplies)
<1>1. n \in Nat
  BY BorrowsGoThrough
<1>2. PICK after : /\ CloseBorrows(p, w, slippage, net) = after[n] /\ after[0] = base
                   /\ \A i \in 1..n : after[i] =
                        RepayEach(p, w, slippage, net, after[i - 1], BorrowOrder[i])
  BY BorrowsGoThrough
<1>3. Done(base)
  <2>1. IsLoop(base) /\ base.out.logics = <<>> /\ base.sum = 0 /\ base.out.afterPortfolio = p
    BY DEF IsLoop, IsOutput, NoOperation, Output
  <2>2. HasSupplies(p, p.supplies)
    BY DEF HasSupplies, Portfolios
  <2>3. Moves(<<>>, NoAmount, NoAmount, w, 0, 0)
    BY MovesNothing DEF AgentTokens
  <2> HIDE DEF base
  <2> QED
    BY <2>1, <2>2, <2>3, SettlesNothing DEF Repaying
<1> HIDE DEF base
<1>4. \A i \in 1..n : BorrowOrder[i] \in BorrowTokens
  BY ListAssumption
<1> HIDE DEF n
<1> DEFINE P == {i \in 0..n : Done(after[i])}
<1>5. 0 \in P
  <2>1. Done(after[0])
    BY <1>2, <1>3
  <2> HIDE DEF Done
  <2> QED
    BY <1>1, <2>1
<1>6. ASSUME NEW i \in 1..n, i - 1 \in P PROVE i \in P
  <2> DEFINE b == BorrowOrder[i]
  <2>1. b \in BorrowTokens /\ b \in Tokens /\ p.borrows[b] \in Nat
    BY <1>4, TokenAssumption DEF Portfolios
  <2>2. p.borrows[b] > 0 => ~Same(b, w)
    BY <2>1
  <2> HIDE DEF b
  <2>3. Done(after[i - 1])
    BY <1>6
  <2>4. Done(RepayEach(p, w, slippage, net, after[i - 1], b))
    BY <2>1, <2>2, <2>3, RepayEachMoves
  <2>5. Done(after[i])
    BY <1>2, <2>4 DEF b
  <2> HIDE DEF Done
  <2> QED
    BY <1>1, <2>5
<1>7. n \in P
  <2> HIDE DEF P
  <2> QED
    BY <1>1, <1>5, <1>6, UpTo
<1> QED
  BY <1>2, <1>7

LEMMA CloseSuppliesMoves ==
    ASSUME NEW out, NEW w \in Tokens, NEW slippage \in 0..BPS_BASE, NEW net, NEW h \in Havings, NEW g,
           NEW owed, Settles(out.logics, 0, owed),
           IsOutput(out), out.error = "none", Pays(h, out.logics, g), g[w] = h[w],
           out.afterPortfolio.supplies \in [SupplyTokens -> Nat], NoDust(out.afterPortfolio.supplies)
    PROVE  Withdrawing(CloseSupplies(out, w, slippage, net), h, w, owed)
<1> DEFINE base == [out |-> out, sum |-> 0]
           n == Len(SupplyOrder)
           Done(a) == Withdrawing(a, h, w, owed)
<1>1. n \in Nat
  BY SuppliesGoThrough
<1>2. PICK after : /\ CloseSupplies(out, w, slippage, net) = after[n] /\ after[0] = base
                   /\ \A i \in 1..n : after[i] =
                        WithdrawEach(out.afterPortfolio, w, slippage, net, after[i - 1], SupplyOrder[i])
  BY SuppliesGoThrough, SMTT(30)
<1>3. Done(base)
  <2>1. IsLoop(base) /\ base.out = out /\ base.sum = 0
    BY DEF IsLoop
  <2>2. g[w] = h[w] + 0
    BY DEF Havings, AgentTokens
  <2> HIDE DEF base
  <2> QED
    BY <2>1, <2>2 DEF Withdrawing
<1> HIDE DEF base
<1>4. \A i \in 1..n : SupplyOrder[i] \in SupplyTokens
  BY ListAssumption
<1> HIDE DEF n
<1> DEFINE P == {i \in 0..n : Done(after[i])}
<1>5. 0 \in P
  <2>1. Done(after[0])
    BY <1>2, <1>3
  <2> HIDE DEF Done
  <2> QED
    BY <1>1, <2>1
<1>6. ASSUME NEW i \in 1..n, i - 1 \in P PROVE i \in P
  <2> DEFINE s == SupplyOrder[i]
  <2>1. /\ s \in Tokens /\ out.afterPortfolio.supplies[s] \in Nat
        /\ MoreThanDust(s, out.afterPortfolio.supplies[s])
    BY <1>4, TokenAssumption DEF NoDust
  <2> HIDE DEF s
  <2>2. Done(after[i - 1])
    BY <1>6
  <2>3. Done(WithdrawEach(out.afterPortfolio, w, slippage, net, after[i - 1], s))
    BY <2>1, <2>2, WithdrawEachMoves
  <2>4. Done(after[i])
    BY <1>2, <2>3 DEF s
  <2> HIDE DEF Done
  <2> QED
    BY <1>1, <2>4
<1>7. n \in P
  <2> HIDE DEF P
  <2> QED
    BY <1>1, <1>5, <1>6, UpTo
<1> QED
  BY <1>2, <1>7

\* The loan of a close is what its repayments take.
LEMMA LoanSpent ==
    ASSUME NEW loan, Underlies(loan), NEW s,
           Moves(s, NoAmount, NoAmount, loan.token, loan.amount, 0)
    PROVE  \E g : Pays(NoFunds, <<Loan(loan)>> \o s, g) /\ g[loan.token] = 0
<1> DEFINE l == Loan(loan)
           w == loan.token
<1>1. w \in AgentTokens /\ loan.amount \in Nat
  BY AmountsAre DEF Underlies, IsAmount
<1>2. NoFunds \in Havings /\ NoFunds[w] = 0 /\ Has(NoFunds, NoAmount)
  BY <1>1, HavingsTyped DEF NoFunds, Has
<1>3. /\ Fair(l) /\ ~TakesInput(l) /\ Bill(l) = NoAmount /\ Gift(l) = loan
      /\ l.output = loan /\ Provided(l) = loan.amount
  BY LoanParts
<1> HIDE DEF l, w
<1>4. Moves(<<l>>, NoAmount, Gift(l), w, 0, IF l.output.token = w THEN Provided(l) ELSE 0)
  BY <1>1, <1>3, OneMoves
<1>5. PICK h : /\ Pays(NoFunds, <<l>>, h)
               /\ h[w] = NoFunds[w] - 0 + IF l.output.token = w THEN Provided(l) ELSE 0
  BY <1>2, <1>4 DEF Moves
<1>6. h[w] = loan.amount /\ h \in Havings /\ Has(h, NoAmount)
  BY <1>1, <1>2, <1>3, <1>5 DEF w, Pays, Takes, Has
<1>7. PICK g : Pays(h, s, g) /\ g[w] = h[w] - loan.amount + 0
  BY <1>1, <1>6 DEF Moves, w
<1>8. Pays(NoFunds, <<l>> \o s, g) /\ g[w] = 0
  BY <1>1, <1>5, <1>6, <1>7, PaysOn
<1> QED
  BY <1>8 DEF l, w

LEMMA LoanPaidBack ==
    ASSUME NEW loan, Underlies(loan), NEW h \in Havings, Due(loan).amount <= h[loan.token]
    PROVE  \E g : Pays(h, <<LoanRepay(loan)>>, g) /\ g[loan.token] = h[loan.token] - Due(loan).amount
<1> DEFINE l == LoanRepay(loan)
           w == loan.token
           n == Due(loan).amount
<1>1. w \in AgentTokens /\ n \in Nat /\ w # "none"
  BY AmountsAre, FeesAgree DEF Underlies, IsAmount
<1>2. /\ Fair(l) /\ l.input = loan /\ l.output = NoAmount /\ l.bps = FALSE
      /\ TakesInput(l) /\ Owed(l) = n
  BY LoanRepayFair
<1>3. h[w] \in Nat /\ Has(h, NoAmount)
  BY <1>1 DEF Havings, Has
<1> HIDE DEF l, w, n
<1>4. l.output.token # w /\ l.input.token = w
  BY <1>1, <1>2, NothingIsNone DEF w
<1>5. Moves(<<l>>, NoAmount, Gift(l), w, n, IF l.output.token = w THEN Provided(l) ELSE 0)
  BY <1>1, <1>2, <1>4, OneMoves
<1>6. PICK g : /\ Pays(h, <<l>>, g)
               /\ g[w] = h[w] - n + IF l.output.token = w THEN Provided(l) ELSE 0
  BY <1>3, <1>5 DEF Moves, n, w
<1>7. g[w] = h[w] - n
  BY <1>1, <1>3, <1>4, <1>6
<1> QED
  BY <1>6, <1>7 DEF l, w, n

LEMMA RestWrapped ==
    ASSUME NEW w \in Tokens, NEW v \in Tokens, NEW n \in Nat, NEW h \in Havings, h[w] = n
    PROVE  \E g : Pays(h, IF v # w /\ n > 0
                          THEN <<WrapNative(TokenAmount(w, n), TokenAmount(v, n))>> ELSE <<>>, g)
<1> DEFINE a == TokenAmount(w, n)
           b == TokenAmount(v, n)
<1>1. CASE v # w /\ n > 0
  <2>1. IsAmount(a) /\ IsAmount(b) /\ a.token = w /\ a.amount = n /\ w \in AgentTokens
    BY DEF IsAmount, TokenAmount, AgentTokens
  <2> HIDE DEF a, b
  <2> DEFINE no == FALSE
  <2>2. no \in BOOLEAN
    OBVIOUS
  <2> HIDE DEF no
  <2>3. Turns(<<Logic("wrap", a, b, no, 0)>>,
              IF "wrap" = "withdraw" /\ b.token \notin AssetTokenized THEN NoAmount ELSE a, b)
    BY <2>1, <2>2, PlainTurns
  <2>4. Turns(<<WrapNative(a, b)>>, a, b)
    BY <2>3 DEF WrapNative, no
  <2>5. Has(h, a)
    BY <2>1 DEF Has
  <2>6. \E g : Pays(h, <<WrapNative(a, b)>>, g)
    BY <2>4, <2>5 DEF Turns
  <2> QED
    BY <1>1, <2>6 DEF a, b
<1>2. CASE ~(v # w /\ n > 0)
  BY <1>2, PaysNothing
<1> QED
  BY <1>1, <1>2

LEMMA CloseTells ==
    ASSUME NEW p \in Portfolios, NEW withdrawal \in Tokens, NEW slippage \in 0..BPS_BASE, NEW net,
           \A b \in BorrowTokens : p.borrows[b] > 0 => ~Same(b, withdrawal),
           NoDust(p.supplies),
           Close(p, withdrawal, slippage, net).destAmount >= 0
    PROVE  LET o == Close(p, withdrawal, slippage, net)
           IN  Tells(o, NoFunds) /\ (Covered(p) /\ o.error = "none" => Settles(o.logics, 0, 0))
<1> DEFINE w == Wrapped[withdrawal]
           indebted == p.totals["borrowUSD"] > 0
           borrows == CloseBorrows(p, w, slippage, net)
           repaid == IF indebted THEN borrows ELSE [out |-> NoOperation(p), sum |-> 0]
           loan == TokenAmount(w, repaid.sum)
           loaned == IF indebted THEN [repaid.out EXCEPT !.logics = <<Loan(loan)>> \o @]
                     ELSE repaid.out
           withdrawn == CloseSupplies(loaned, w, slippage, net)
           left == withdrawn.sum - IF indebted THEN Repays(loan).amount ELSE 0
           repayLoan == IF indebted THEN <<LoanRepay(loan)>> ELSE <<>>
           wrapped == WrapNative(TokenAmount(w, left), TokenAmount(withdrawal, left))
           wrap == IF withdrawal # w /\ left > 0 THEN <<wrapped>> ELSE <<>>
           last == [withdrawn.out EXCEPT !.destAmount = left, !.logics = @ \o repayLoan \o wrap]
           o == Close(p, withdrawal, slippage, net)
<1>1. w \in Tokens /\ Wrapped[w] = w /\ (\A b : Same(b, w) <=> Same(b, withdrawal))
  BY WrapAssumption DEF Same
<1>2. \/ o.error # "none"
      \/ repaid.out.error = "none" /\ o = loaned /\ p.totals["supplyUSD"] = 0
      \/ repaid.out.error = "none" /\ withdrawn.out.error = "none" /\ o = last
      \/ o = [repaid.out EXCEPT !.error = "UNEXPECTED_ERROR"]
  BY DEF Close
<1>3. o.destAmount >= 0
  OBVIOUS
<1> HIDE DEF o, w
<1>4. Repaying(repaid, w, p.supplies)
  <2>1. Repaying(borrows, w, p.supplies)
    BY <1>1, CloseBorrowsMoves
  <2>2. Repaying([out |-> NoOperation(p), sum |-> 0], w, p.supplies)
    <3> DEFINE base == [out |-> NoOperation(p), sum |-> 0]
    <3>1. IsLoop(base) /\ base.out.logics = <<>> /\ base.sum = 0 /\ base.out.afterPortfolio = p
      BY DEF IsLoop, IsOutput, NoOperation, Output
    <3>2. HasSupplies(p, p.supplies)
      BY DEF HasSupplies, Portfolios
    <3>3. Moves(<<>>, NoAmount, NoAmount, w, 0, 0)
      BY <1>1, MovesNothing DEF AgentTokens
    <3> HIDE DEF base
    <3>4. Repaying(base, w, p.supplies)
      BY <3>1, <3>2, <3>3, SettlesNothing DEF Repaying
    <3> QED
      BY <3>4 DEF base
  <2> HIDE DEF borrows
  <2> QED
    BY <2>1, <2>2
<1>5. ~indebted => repaid.out.logics = <<>>
  BY DEF NoOperation, Output
<1> HIDE DEF repaid, borrows
<1>6. IsOutput(repaid.out) /\ HasSupplies(repaid.out.afterPortfolio, p.supplies)
  BY <1>4 DEF Repaying, IsLoop
<1>7. ASSUME o = [repaid.out EXCEPT !.error = "UNEXPECTED_ERROR"] PROVE o.error # "none"
  <2>1. "error" \in DOMAIN repaid.out
    BY <1>6 DEF IsOutput, Output
  <2> QED
    BY <1>7, <2>1
<1>8. ASSUME repaid.out.error = "none"
      PROVE  /\ IsOutput(loaned) /\ loaned.error = "none"
             /\ loaned.afterPortfolio.supplies = p.supplies
             /\ Underlies(loan) /\ loan.token = w
             /\ \E g : Pays(NoFunds, loaned.logics, g) /\ g[w] = 0
             /\ Settles(loaned.logics, 0, IF indebted THEN Due(loan).amount ELSE 0)
  <2>1. repaid.sum \in Nat /\ Moves(repaid.out.logics, NoAmount, NoAmount, w, repaid.sum, 0)
    BY <1>4, <1>8 DEF Repaying
  <2>2. Underlies(loan) /\ loan.token = w /\ loan.amount = repaid.sum
    BY <1>1, <2>1 DEF Underlies, TokenAmount
  <2> HIDE DEF loan
  <2>3. CASE ~indebted
    <3>1. loaned = repaid.out
      BY <2>3
    <3>2. NoFunds[w] = 0 /\ Pays(NoFunds, <<>>, NoFunds)
      BY <1>1, HavingsTyped, PaysNothing DEF NoFunds, AgentTokens
    <3>3. Settles(<<>>, 0, 0)
      BY SettlesNothing
    <3> HIDE DEF loaned, indebted
    <3> QED
      BY <1>5, <1>6, <1>8, <2>2, <2>3, <3>1, <3>2, <3>3 DEF HasSupplies
  <2>4. CASE indebted
    <3> DEFINE s == <<Loan(loan)>> \o repaid.out.logics
               u == Output(repaid.out.destAmount, repaid.out.afterPortfolio, repaid.out.error, s)
    <3>1. \E g : Pays(NoFunds, s, g) /\ g[w] = 0
      BY <2>1, <2>2, LoanSpent
    <3>5. Settles(s, 0, Due(loan).amount)
      <4>1. Settles(<<Loan(loan)>>, 0, Due(loan).amount)
        <5>1. TRUE \in BOOLEAN
          OBVIOUS
        <5> QED
          BY <2>2, <5>1, ClosingLogics
      <4>2. Settles(repaid.out.logics, Due(loan).amount, Due(loan).amount)
        BY <1>4, <1>8 DEF Repaying
      <4> QED
        BY <4>1, <4>2, SettlesOn
    <3>2. loaned = [repaid.out EXCEPT !.logics = s]
      BY <2>4
    <3> HIDE DEF s, loaned
    <3>3. loaned = u
      BY <1>6, <3>2 DEF IsOutput, Output
    <3>4. /\ IsOutput(u) /\ u.logics = s /\ u.error = repaid.out.error
          /\ u.afterPortfolio = repaid.out.afterPortfolio
      BY DEF IsOutput, Output
    <3> HIDE DEF u
    <3> QED
      BY <1>6, <1>8, <2>2, <2>4, <3>1, <3>3, <3>4, <3>5 DEF HasSupplies
  <2> HIDE DEF loaned, indebted
  <2> QED
    BY <2>3, <2>4
<1> HIDE DEF loan, loaned
<1> DEFINE owed == IF indebted THEN Due(loan).amount ELSE 0
<1>9. ASSUME repaid.out.error = "none" PROVE Withdrawing(withdrawn, NoFunds, w, owed)
  <2>1. PICK g : Pays(NoFunds, loaned.logics, g) /\ g[w] = 0
    BY <1>8, <1>9
  <2>2. NoFunds \in Havings /\ NoFunds[w] = 0
    BY <1>1, HavingsTyped DEF NoFunds, AgentTokens
  <2>3. loaned.afterPortfolio.supplies \in [SupplyTokens -> Nat]
        /\ NoDust(loaned.afterPortfolio.supplies)
    BY <1>8, <1>9 DEF Portfolios
  <2>4. Settles(loaned.logics, 0, owed)
    BY <1>8, <1>9
  <2> HIDE DEF owed
  <2> QED
    BY <1>1, <1>8, <1>9, <2>1, <2>2, <2>3, <2>4, CloseSuppliesMoves
<1> HIDE DEF withdrawn
<1>10. ASSUME repaid.out.error = "none", withdrawn.out.error = "none", o = last
       PROVE  Asks(o.logics, NoFunds) /\ Settles(o.logics, 0, 0)
  <2>1. /\ IsOutput(withdrawn.out) /\ withdrawn.sum \in Nat
        /\ \E g : Pays(NoFunds, withdrawn.out.logics, g) /\ g[w] = NoFunds[w] + withdrawn.sum
        /\ Settles(withdrawn.out.logics, 0, owed)
    BY <1>9, <1>10 DEF Withdrawing, IsLoop
  <2>2. PICK g : Pays(NoFunds, withdrawn.out.logics, g) /\ g[w] = NoFunds[w] + withdrawn.sum
    BY <2>1
  <2>3. g \in Havings /\ g[w] = withdrawn.sum
    BY <1>1, <2>1, <2>2 DEF NoFunds, AgentTokens, Pays, Takes
  <2>4. Underlies(loan) /\ loan.token = w
    BY <1>8, <1>10
  <2>5. Repays(loan) = Due(loan) /\ Due(loan).amount \in Nat
    BY <2>4, FeesAgree DEF Underlies
  <2>6. left \in Nat
    <3>1. last.destAmount = left
      BY <2>1 DEF IsOutput, Output
    <3>2. left \in Int
      <4> HIDE DEF indebted
      <4> QED
        BY <2>1, <2>5
    <3> HIDE DEF left, last
    <3>3. left >= 0
      BY <1>3, <1>10, <3>1
    <3> QED
      BY <3>2, <3>3
  <2>7. PICK k : Pays(g, repayLoan, k) /\ k[w] = left
    <3>1. CASE indebted
      <4>1. repayLoan = <<LoanRepay(loan)>> /\ left = withdrawn.sum - Due(loan).amount
        BY <2>5, <3>1
      <4> HIDE DEF repayLoan, left
      <4>2. Due(loan).amount <= g[loan.token]
        BY <2>1, <2>3, <2>4, <2>5, <2>6, <4>1
      <4>3. PICK k : Pays(g, <<LoanRepay(loan)>>, k)
                     /\ k[loan.token] = g[loan.token] - Due(loan).amount
        BY <2>3, <2>4, <4>2, LoanPaidBack
      <4> QED
        BY <2>3, <2>4, <4>1, <4>3
    <3>2. CASE ~indebted
      <4>1. repayLoan = <<>> /\ left = withdrawn.sum
        <5>1. withdrawn.sum - 0 = withdrawn.sum
          BY <2>1
        <5> HIDE DEF indebted
        <5> QED
          BY <3>2, <5>1
      <4> HIDE DEF repayLoan, left
      <4> QED
        BY <2>3, <4>1, PaysNothing
    <3> HIDE DEF repayLoan, left, indebted
    <3> QED
      BY <3>1, <3>2
  <2>13. Settles(repayLoan, owed, 0)
    <3>1. CASE indebted
      <4>1. Settles(<<LoanRepay(loan)>>, Due(loan).amount, 0)
        <5>1. TRUE \in BOOLEAN
          OBVIOUS
        <5> QED
          BY <2>4, <5>1, ClosingLogics
      <4> QED
        BY <3>1, <4>1
    <3>2. CASE ~indebted
      BY <3>2, SettlesNothing
    <3> QED
      BY <3>1, <3>2
  <2>14. \A n : Settles(wrap, n, n)
    <3> DEFINE a == TokenAmount(w, left)
               b == TokenAmount(withdrawal, left)
    <3>1. Underlies(a) /\ Underlies(b)
      <4> HIDE DEF left
      <4> QED
        BY <1>1, <2>6 DEF Underlies, TokenAmount
    <3>2. \A n : Settles(<<WrapNative(a, b)>>, n, n)
      <4> HIDE DEF a, b
      <4>1. TRUE \in BOOLEAN
        OBVIOUS
      <4> QED
        BY <3>1, <4>1, ClosingLogics
    <3> HIDE DEF left
    <3> QED
      BY <3>2, SettlesNothing
  <2>8. last.logics = withdrawn.out.logics \o repayLoan \o wrap
    BY <2>1 DEF IsOutput, Output
  <2> HIDE DEF repayLoan, left, last
  <2>9. k \in Havings
    BY <2>7 DEF Pays, Takes
  <2>10. PICK z : Pays(k, wrap, z)
    BY <1>1, <2>6, <2>7, <2>9, RestWrapped
  <2> HIDE DEF wrap
  <2>11. Pays(NoFunds, withdrawn.out.logics \o repayLoan, k)
    BY <2>2, <2>7, PaysOn
  <2>12. Pays(NoFunds, withdrawn.out.logics \o repayLoan \o wrap, z)
    BY <2>10, <2>11, PaysOn
  <2>15. Settles(withdrawn.out.logics \o repayLoan \o wrap, 0, 0)
    <3> HIDE DEF owed
    <3> QED
      BY <2>1, <2>13, <2>14, SettlesOn
  <2> QED
    BY <1>10, <2>8, <2>12, <2>15 DEF Pays, Asks
<1> HIDE DEF last
<1>11. ASSUME repaid.out.error = "none", o = loaned, p.totals["supplyUSD"] = 0
       PROVE  Asks(o.logics, NoFunds) /\ (Covered(p) => Settles(o.logics, 0, 0))
  <2>1. Covered(p) => ~indebted
    BY <1>11 DEF Covered
  <2> HIDE DEF indebted
  <2> QED
    BY <1>8, <1>11, <2>1 DEF Pays, Asks
<1>12. Tells(o, NoFunds) /\ (Covered(p) /\ o.error = "none" => Settles(o.logics, 0, 0))
  BY <1>2, <1>7, <1>10, <1>11 DEF Tells
<1> QED
  BY <1>12 DEF o


-----------------------------------------------------------------------------
(* Whatever is planned takes from the user what the operation told.          *)

\* The requests the operations count right for: what is swapped or withdrawn is more
\* than the wei they leave out, and a close is worth more than the loan it repays.
Worthwhile(r, p, o) ==
    /\ r.op \in {"collateralSwap", "zapWithdraw"} => MoreThanDust(r.src, r.amount)
    /\ r.op = "close" => NoDust(p.supplies) /\ o.destAmount >= 0

AsTold(o, r, p) ==
    LET told == Told(r, p, o.destAmount) IN
    Worthwhile(r, p, o) /\ ~ClosesInto(r, p) => Tells(o, Only(told.token, told.amount))

PlanTells ==
    /\ pc \in {"idle", "planned"} => position \in Positions
    /\ pc = "planned" => AsTold(plan, request, position)

LEMMA AskTells ==
    ASSUME PlanTells, NEW r, NEW o, Ask(r, o), AsTold(o, r, position)
    PROVE  PlanTells'
  BY DEF PlanTells, Ask

LEMMA AskedIs ==
    ASSUME NEW op, NEW pair, NEW n, NEW slippage
    PROVE  LET r == Asked(op, pair, n, slippage)
           IN  r.op = op /\ r.src = pair[1] /\ r.dest = pair[2] /\ r.amount = n
  BY DEF Asked, NoRequest

\* What is told of a request, one operation after the other.
LEMMA ToldIs ==
    ASSUME NEW r, NEW p, NEW n
    PROVE  /\ r.op \in {"collateralSwap", "debtSwap", "leverageByCollateral", "leverageByDebt",
                        "deleverage", "zapBorrow", "close"} => Told(r, p, n) = NoAmount
           /\ r.op = "zapSupply" => Told(r, p, n) = TokenAmount(r.src, r.amount)
           /\ r.op = "zapWithdraw" =>
                Told(r, p, n) = IF r.src \in AssetTokenized
                                THEN TokenAmount(ProtocolToken[r.src], r.amount) ELSE NoAmount
           /\ r.op = "zapRepay" =>
                Told(r, p, n) = TokenAmount(r.dest,
                    IF Same(r.src, r.dest) THEN RepayAmount(p, r.src, r.amount, 1, FALSE) ELSE n)
           /\ r.op \in Opens => Told(r, p, n) = TokenAmount(r.zap[1], r.zap[2])
  BY DEF Told, Opens

LEMMA TellsAsTold ==
    ASSUME NEW o, NEW r, NEW p, NEW funds, Tells(o, funds),
           funds = LET told == Told(r, p, o.destAmount) IN Only(told.token, told.amount)
    PROVE  AsTold(o, r, p)
  BY DEF AsTold

LEMMA NothingAsTold ==
    ASSUME NEW o, NEW r, NEW p, Tells(o, NoFunds), Told(r, p, o.destAmount) = NoAmount
    PROVE  AsTold(o, r, p)
<1>1. Only(NoAmount.token, NoAmount.amount) = NoFunds
  BY DEF NoAmount, TokenAmount, Only, NoFunds
<1> QED
  BY <1>1, TellsAsTold

\* An operation that takes nothing, whatever it is asked.
LEMMA NothingIsTold ==
    ASSUME PlanTells, NEW o, NEW pair, NEW n, NEW slippage, Tells(o, NoFunds),
           NEW op \in {"collateralSwap", "debtSwap", "leverageByCollateral", "leverageByDebt",
                       "deleverage", "zapBorrow"},
           Ask(Asked(op, pair, n, slippage), o)
    PROVE  PlanTells'
<1> DEFINE r == Asked(op, pair, n, slippage)
<1>1. r.op = op
  BY AskedIs
<1> HIDE DEF r
<1>2. Told(r, position, o.destAmount) = NoAmount
  BY <1>1, ToldIs
<1>3. AsTold(o, r, position)
  BY <1>2, NothingAsTold
<1> QED
  BY <1>3, AskTells DEF r

LEMMA RequestsAre ==
    /\ \A pair \in Pairs : pair[1] \in Tokens /\ pair[2] \in Tokens
    /\ \A zap \in Zaps : zap[1] \in Tokens /\ zap[2] \in Nat
    /\ \A n \in Amounts : n \in Nat
    /\ \A slippage \in Slippages : slippage \in 0..BPS_BASE
    /\ \A w \in Withdrawals : w \in Tokens
  BY RequestAssumption, SlippageAssumption

\* The operations that work with a flash loan, and zapBorrow: they tell of nothing.
LEMMA LoansTell ==
    ASSUME PlanTells, NEW pair \in Pairs, NEW n \in Amounts, NEW slippage \in Slippages, NEW net,
           \/ AskDebtSwap(pair, n, slippage, net)
           \/ AskLeverageByCollateral(pair, n, slippage, net)
           \/ AskLeverageByDebt(pair, n, slippage, net)
           \/ AskDeleverage(pair, n, slippage, net)
           \/ AskZapBorrow(pair, n, slippage, net)
    PROVE  PlanTells'
<1> DEFINE src == pair[1]
           dest == pair[2]
           no == FALSE
<1>1. src \in Tokens /\ dest \in Tokens /\ n \in Nat /\ slippage \in 0..BPS_BASE
  BY RequestsAre
<1>2. Tells(DebtSwap(position, src, n, dest, slippage, no, net), NoFunds)
      /\ Tells(Deleverage(position, src, n, dest, slippage, no, net), NoFunds)
  <2> HIDE DEF src, dest, no
  <2>1. Tells(DebtSwap(position, src, n, dest, slippage, no, net), NoFunds)
    BY <1>1, DebtSwapIs, DebtSwapTells
  <2>2. Tells(Deleverage(position, src, n, dest, slippage, no, net), NoFunds)
    BY <1>1, DeleverageIs, DeleverageTells
  <2> QED
    BY <2>1, <2>2
<1>3. Tells(LeverageByCollateral(position, src, n, dest, slippage, net), NoFunds)
  <2> HIDE DEF src, dest
  <2> QED
    BY <1>1, LeverageByCollateralIs, LeverageTells
<1>4. Tells(LeverageByDebt(position, src, n, dest, slippage, net), NoFunds)
  <2> HIDE DEF src, dest
  <2> QED
    BY <1>1, LeverageByDebtIs, LeverageTells
<1>5. Tells(ZapBorrow(position, src, n, dest, slippage, net), NoFunds)
  <2> HIDE DEF src, dest
  <2> QED
    BY <1>1, ZapBorrowIs, ZapBorrowTells
<1>6. CASE AskDebtSwap(pair, n, slippage, net)
  BY <1>2, <1>6, NothingIsTold DEF AskDebtSwap
<1>7. CASE AskLeverageByCollateral(pair, n, slippage, net)
  BY <1>3, <1>7, NothingIsTold DEF AskLeverageByCollateral
<1>8. CASE AskLeverageByDebt(pair, n, slippage, net)
  BY <1>4, <1>8, NothingIsTold DEF AskLeverageByDebt
<1>9. CASE AskDeleverage(pair, n, slippage, net)
  BY <1>2, <1>9, NothingIsTold DEF AskDeleverage
<1>10. CASE AskZapBorrow(pair, n, slippage, net)
  BY <1>5, <1>10, NothingIsTold DEF AskZapBorrow
<1> QED
  BY <1>6, <1>7, <1>8, <1>9, <1>10

\* A swap of one collateral for another tells of nothing, unless it is asked for dust.
LEMMA CollateralSwapAsked ==
    ASSUME PlanTells, NEW pair \in Pairs, NEW n \in Amounts, NEW slippage \in Slippages, NEW net,
           AskCollateralSwap(pair, n, slippage, net)
    PROVE  PlanTells'
<1> DEFINE r == Asked("collateralSwap", pair, n, slippage)
           src == pair[1]
           dest == pair[2]
           o == CollateralSwap(position, src, n, dest, slippage, net)
<1>1. src \in Tokens /\ dest \in Tokens /\ n \in Nat /\ slippage \in 0..BPS_BASE
  BY RequestsAre
<1>2. r.op = "collateralSwap" /\ r.src = src /\ r.amount = n
  BY AskedIs
<1>3. Ask(r, o)
  BY DEF AskCollateralSwap
<1>4. MoreThanDust(src, n) => Tells(o, NoFunds)
  <2> HIDE DEF src, dest
  <2> QED
    BY <1>1, CollateralSwapIs, CollateralSwapTells
<1> HIDE DEF r, o, src, dest
<1>5. Told(r, position, o.destAmount) = NoAmount
  BY <1>2, ToldIs
<1>6. AsTold(o, r, position)
  BY <1>2, <1>4, <1>5, NothingAsTold DEF AsTold, Worthwhile
<1> QED
  BY <1>3, <1>6, AskTells

\* A zapped supply tells of what it is asked to supply.
LEMMA ZapSupplyAsked ==
    ASSUME PlanTells, NEW pair \in Pairs, NEW n \in Amounts, NEW slippage \in Slippages, NEW net,
           AskZapSupply(pair, n, slippage, net)
    PROVE  PlanTells'
<1> DEFINE r == Asked("zapSupply", pair, n, slippage)
           src == pair[1]
           dest == pair[2]
           o == ZapSupply(position, src, n, dest, slippage, net)
<1>1. src \in Tokens /\ dest \in Tokens /\ n \in Nat /\ slippage \in 0..BPS_BASE
  BY RequestsAre
<1>2. r.op = "zapSupply" /\ r.src = src /\ r.amount = n
  BY AskedIs
<1>3. Ask(r, o)
  BY DEF AskZapSupply
<1>4. Tells(o, Only(src, n))
  <2> HIDE DEF src, dest
  <2> QED
    BY <1>1, ZapSupplyIs, ZapSupplyTells
<1> HIDE DEF r, o, src, dest
<1>5. Told(r, position, o.destAmount) = TokenAmount(src, n)
  BY <1>2, ToldIs
<1>6. Only(TokenAmount(src, n).token, TokenAmount(src, n).amount) = Only(src, n)
  BY DEF TokenAmount
<1>7. AsTold(o, r, position)
  BY <1>4, <1>5, <1>6, TellsAsTold
<1> QED
  BY <1>3, <1>7, AskTells

\* A zapped withdrawal tells of the receipt tokens it burns, if the market has any.
LEMMA ZapWithdrawAsked ==
    ASSUME PlanTells, NEW pair \in Pairs, NEW n \in Amounts, NEW slippage \in Slippages, NEW net,
           AskZapWithdraw(pair, n, slippage, net)
    PROVE  PlanTells'
<1> DEFINE r == Asked("zapWithdraw", pair, n, slippage)
           src == pair[1]
           dest == pair[2]
           o == ZapWithdraw(position, src, n, dest, slippage, net)
           told == Told(r, position, o.destAmount)
<1>1. src \in Tokens /\ dest \in Tokens /\ n \in Nat /\ slippage \in 0..BPS_BASE
  BY RequestsAre
<1>2. r.op = "zapWithdraw" /\ r.src = src /\ r.amount = n
  BY AskedIs
<1>3. Ask(r, o)
  BY DEF AskZapWithdraw
<1>4. MoreThanDust(src, n) => Tells(o, ZapWithdrawFunds(src, n))
  <2> HIDE DEF src, dest
  <2> QED
    BY <1>1, ZapWithdrawIs, ZapWithdrawTells
<1> HIDE DEF r, o, src, dest
<1>5. told = IF src \in AssetTokenized THEN TokenAmount(ProtocolToken[src], n) ELSE NoAmount
  BY <1>2, ToldIs
<1>6. Only(told.token, told.amount) = ZapWithdrawFunds(src, n)
  <2>1. Only("none", 0) = NoFunds
    BY DEF Only, NoFunds
  <2> HIDE DEF told
  <2> QED
    BY <1>5, <2>1 DEF ZapWithdrawFunds, TokenAmount, NoAmount
<1>7. AsTold(o, r, position)
  BY <1>2, <1>4, <1>6 DEF AsTold, Worthwhile
<1> QED
  BY <1>3, <1>7, AskTells

\* A zapped repayment tells of its destAmount, with one token on both sides of the debt
\* and its head-room.
LEMMA ZapRepayAsked ==
    ASSUME PlanTells, NEW pair \in Pairs, NEW n \in Amounts, NEW slippage \in Slippages, NEW net,
           AskZapRepay(pair, n, slippage, net)
    PROVE  PlanTells'
<1> DEFINE r == Asked("zapRepay", pair, n, slippage)
           src == pair[1]
           dest == pair[2]
           no == FALSE
           o == ZapRepay(position, src, n, dest, slippage, no, net)
           all == RepayAmount(position, src, n, 1, no)
           told == Told(r, position, o.destAmount)
<1>1. src \in Tokens /\ dest \in Tokens /\ n \in Nat /\ slippage \in 0..BPS_BASE
  BY RequestsAre
<1>2. r.op = "zapRepay" /\ r.src = src /\ r.dest = dest /\ r.amount = n
  BY AskedIs
<1>3. Ask(r, o)
  BY DEF AskZapRepay
<1>4. Tells(o, ZapRepayFunds(src, dest, all, o.destAmount))
  <2> HIDE DEF src, dest, no
  <2> QED
    BY <1>1, ZapRepayIs, ZapRepayTells
<1>5. told = TokenAmount(dest, IF Same(src, dest) THEN all ELSE o.destAmount)
  <2> HIDE DEF r, o, src, dest
  <2> QED
    BY <1>2, ToldIs
<1> HIDE DEF r, o, src, dest, all
<1>6. Only(told.token, told.amount) = ZapRepayFunds(src, dest, all, o.destAmount)
  BY <1>5 DEF ZapRepayFunds, TokenAmount
<1>7. AsTold(o, r, position)
  BY <1>4, <1>6 DEF AsTold
<1> QED
  BY <1>3, <1>7, AskTells

\* An opening tells of what is zapped into it.
LEMMA OpenAsked ==
    ASSUME PlanTells, NEW pair \in Pairs, NEW n \in Amounts, NEW zap \in Zaps,
           NEW slippage \in Slippages, NEW net,
           \/ AskOpenByCollateral(pair, n, zap, slippage, net)
           \/ AskOpenByDebt(pair, n, zap, slippage, net)
    PROVE  PlanTells'
<1>1. /\ pair[1] \in Tokens /\ pair[2] \in Tokens /\ n \in Nat
      /\ zap[1] \in Tokens /\ zap[2] \in Nat /\ slippage \in 0..BPS_BASE
  BY RequestsAre
<1>2. ASSUME NEW op \in Opens, NEW o, Tells(o, Only(zap[1], zap[2])),
             Ask([Asked(op, pair, n, slippage) EXCEPT !.zap = zap], o)
      PROVE  PlanTells'
  <2> DEFINE r == [Asked(op, pair, n, slippage) EXCEPT !.zap = zap]
             told == Told(r, position, o.destAmount)
  <2>1. r.op = op /\ r.zap = zap
    BY DEF Asked, NoRequest
  <2> HIDE DEF r
  <2>2. told = TokenAmount(zap[1], zap[2])
    BY <2>1, ToldIs
  <2>3. Only(told.token, told.amount) = Only(zap[1], zap[2])
    BY <2>2 DEF TokenAmount
  <2>4. AsTold(o, r, position)
    BY <1>2, <2>3 DEF AsTold
  <2> QED
    BY <1>2, <2>4, AskTells DEF r
<1> DEFINE yes == TRUE
           no == FALSE
           up == Open(position, zap[1], zap[2], pair[1], n, pair[2], slippage, net, no)
           down == Open(position, zap[1], zap[2], pair[1], n, pair[2], slippage, net, yes)
<1>3. yes \in BOOLEAN /\ no \in BOOLEAN
  OBVIOUS
<1>4. Tells(up, Only(zap[1], zap[2])) /\ Tells(down, Only(zap[1], zap[2]))
  <2> HIDE DEF yes, no
  <2> QED
    BY <1>1, <1>3, OpenIs, OpenTells
<1>5. CASE AskOpenByCollateral(pair, n, zap, slippage, net)
  BY <1>2, <1>4, <1>5 DEF AskOpenByCollateral, OpenByCollateral, Opens
<1>6. CASE AskOpenByDebt(pair, n, zap, slippage, net)
  BY <1>2, <1>4, <1>6 DEF AskOpenByDebt, OpenByDebt, Opens
<1> QED
  BY <1>5, <1>6

\* A close into a token that is not owed tells of nothing, if something is left of it.
LEMMA CloseAsked ==
    ASSUME PlanTells, NEW w \in Withdrawals, NEW slippage \in Slippages, NEW net,
           AskClose(w, slippage, net)
    PROVE  PlanTells'
<1> DEFINE r == [NoRequest EXCEPT !.op = "close", !.dest = w, !.slippage = slippage]
           o == Close(position, w, slippage, net)
<1>1. w \in Tokens /\ slippage \in 0..BPS_BASE
  BY RequestsAre
<1>2. r.op = "close" /\ r.dest = w
  BY DEF NoRequest
<1>3. Ask(r, o)
  BY DEF AskClose
<1>4. position \in Portfolios
  BY <1>3, RequestAssumption DEF PlanTells, Ask
<1>5. ASSUME \A b \in BorrowTokens : position.borrows[b] > 0 => ~Same(b, w),
             NoDust(position.supplies), o.destAmount >= 0
      PROVE  Tells(o, NoFunds)
  BY <1>1, <1>4, <1>5, CloseTells
<1> HIDE DEF r, o
<1>6. Told(r, position, o.destAmount) = NoAmount
  BY <1>2, ToldIs
<1>7. AsTold(o, r, position)
  BY <1>2, <1>5, <1>6, NothingAsTold DEF AsTold, Worthwhile, ClosesInto
<1> QED
  BY <1>3, <1>7, AskTells

LEMMA AskingTells == PlanTells /\ AskOperation => PlanTells'
<1> SUFFICES ASSUME PlanTells, NEW slippage \in Slippages, NEW net \in Nets,
                    \/ \E w \in Withdrawals : AskClose(w, slippage, net)
                    \/ \E pair \in Pairs, n \in Amounts :
                         \/ AskCollateralSwap(pair, n, slippage, net)
                         \/ AskDebtSwap(pair, n, slippage, net)
                         \/ AskLeverageByCollateral(pair, n, slippage, net)
                         \/ AskLeverageByDebt(pair, n, slippage, net)
                         \/ AskDeleverage(pair, n, slippage, net)
                         \/ AskZapSupply(pair, n, slippage, net)
                         \/ AskZapWithdraw(pair, n, slippage, net)
                         \/ AskZapBorrow(pair, n, slippage, net)
                         \/ AskZapRepay(pair, n, slippage, net)
                         \/ \E zap \in Zaps : \/ AskOpenByCollateral(pair, n, zap, slippage, net)
                                              \/ AskOpenByDebt(pair, n, zap, slippage, net)
             PROVE  PlanTells'
  BY DEF AskOperation
<1>1. CASE \E w \in Withdrawals : AskClose(w, slippage, net)
  BY <1>1, CloseAsked
<1>2. ASSUME NEW pair \in Pairs, NEW n \in Amounts, AskCollateralSwap(pair, n, slippage, net)
      PROVE  PlanTells'
  BY <1>2, CollateralSwapAsked
<1>3. ASSUME NEW pair \in Pairs, NEW n \in Amounts,
             \/ AskDebtSwap(pair, n, slippage, net)
             \/ AskLeverageByCollateral(pair, n, slippage, net)
             \/ AskLeverageByDebt(pair, n, slippage, net)
             \/ AskDeleverage(pair, n, slippage, net)
             \/ AskZapBorrow(pair, n, slippage, net)
      PROVE  PlanTells'
  BY <1>3, LoansTell
<1>4. ASSUME NEW pair \in Pairs, NEW n \in Amounts, AskZapSupply(pair, n, slippage, net)
      PROVE  PlanTells'
  BY <1>4, ZapSupplyAsked
<1>5. ASSUME NEW pair \in Pairs, NEW n \in Amounts, AskZapWithdraw(pair, n, slippage, net)
      PROVE  PlanTells'
  BY <1>5, ZapWithdrawAsked
<1>6. ASSUME NEW pair \in Pairs, NEW n \in Amounts, AskZapRepay(pair, n, slippage, net)
      PROVE  PlanTells'
  BY <1>6, ZapRepayAsked
<1>7. ASSUME NEW pair \in Pairs, NEW n \in Amounts, NEW zap \in Zaps,
             \/ AskOpenByCollateral(pair, n, zap, slippage, net)
             \/ AskOpenByDebt(pair, n, zap, slippage, net)
      PROVE  PlanTells'
  BY <1>7, OpenAsked
<1> QED
  BY <1>1, <1>2, <1>3, <1>4, <1>5, <1>6, <1>7

LEMMA PlansTell == Spec => []PlanTells
<1>1. Init => PlanTells
  BY DEF Init, PlanTells
<1>2. PlanTells /\ [Next]_vars => PlanTells'
  <2> SUFFICES ASSUME PlanTells, [Next]_vars PROVE PlanTells'
    OBVIOUS
  <2>1. CASE AskOperation
    BY <2>1, AskingTells
  <2>2. CASE SendTransaction \/ Revert \/ Commit
    BY <2>2 DEF SendTransaction, Revert, Commit, PlanTells
  <2>3. CASE ExecuteLogic
    BY <2>3 DEF ExecuteLogic, PlanTells
  <2>4. CASE UNCHANGED vars
    BY <2>4 DEF vars, PlanTells
  <2> QED
    BY <2>1, <2>2, <2>3, <2>4 DEF Next
<1> QED
  BY <1>1, <1>2, PTL DEF Spec

\* An operation takes from the user what it told, to the wei, and every other input is
\* there when its logic runs: whatever the position, the prices, the fees and the
\* tokens.  Asked for a wei or two of a receipt token, or to close a position that does
\* not cover its loan, the operations count on less than nothing.
THEOREM FundsAreAsTold == Spec => [](Worthwhile(request, position, plan) => FundsAsTold)
<1>1. PlanTells => (Worthwhile(request, position, plan) => FundsAsTold)
  <2> SUFFICES ASSUME PlanTells, Worthwhile(request, position, plan), Promised,
                      plan.logics # <<>>, ~ClosesIntoDebt
               PROVE  Estimate(plan.logics) = ToldFunds
    BY DEF FundsAsTold
  <2> DEFINE told == Told(request, position, plan.destAmount)
  <2>1. Tells(plan, Only(told.token, told.amount))
    BY DEF PlanTells, AsTold, Promised, ClosesIntoDebt
  <2>2. Asks(plan.logics, Only(told.token, told.amount))
    BY <2>1 DEF Tells, Promised
  <2>3. Estimate(plan.logics) = Only(told.token, told.amount)
    BY <2>2, AskedIsEstimated
  <2> QED
    BY <2>3 DEF ToldFunds, Only
<1> QED
  BY <1>1, PlansTell, PTL

-----------------------------------------------------------------------------
(* What a logic surely does with what the agent has and owes, and when it has its input.*)

\* How the transaction stands with the Router's agent: an amount it has for sure, and
\* what it owes for a flash loan.
Standing(a, n) == [has |-> a, owes |-> n]
Nothing == Standing(NoAmount, 0)
Meets(h, n, x) == Has(h, x.has) /\ n = x.owes

\* What a logic is sure to give the agent, given what it takes from it.
Surely(l, taken) ==
    CASE l.kind \in {"loan", "borrow"} -> l.output.amount
      [] l.kind = "withdraw" -> IF TakesInput(l) THEN taken ELSE l.output.amount
      [] l.kind = "pull" -> l.output.amount - SetAside
      [] OTHER -> 0

\* From the balances h and the debt n a logic may bring the agent to g and m.
Becomes(h, n, l, g, m) ==
    /\ m = OwedAfter(n, l)
    /\ \E taken, given \in Nat :
         /\ g = More(Less(h, l.input.token, taken), l.output.token, given)
         /\ given >= Surely(l, taken)
         /\ TakesInput(l) => taken <= h[l.input.token]
         /\ ~TakesInput(l) => taken = 0
         /\ l.kind = "withdraw" /\ TakesInput(l) /\ l.bps => taken = h[l.input.token]

\* Wherever x holds the logic has its input, and y holds when it is done.
Safe(l, x, y) ==
    /\ Ours(l)
    /\ \A h \in Havings : \A n : Meets(h, n, x) =>
         /\ TakesInput(l) /\ ~l.bps => h[l.input.token] >= Owed(l)
         /\ \A g, m : Becomes(h, n, l, g, m) => g \in Havings /\ Meets(g, m, y)

\* c says how the transaction stands before and after every logic of s.
Certifies(c, s) == List(s) /\ \A i \in 1..Len(s) : Safe(s[i], c[i - 1], c[i])
Runs(s, x, y) == \E c : Certifies(c, s) /\ c[0] = x /\ c[Len(s)] = y

LEMMA RunsOn ==
    ASSUME NEW x, NEW s, NEW y, NEW t, NEW z, Runs(s, x, y), Runs(t, y, z)
    PROVE  Runs(s \o t, x, z)
<1> DEFINE m == Len(s)
           n == Len(t)
<1>1. /\ List(s \o t) /\ Len(s \o t) = m + n /\ m \in Nat /\ n \in Nat
      /\ \A i \in 1..m : (s \o t)[i] = s[i]
      /\ \A i \in (m + 1)..(m + n) : (s \o t)[i] = t[i - m] /\ i - m \in 1..n
  BY Joined DEF Runs, Certifies, List
<1>2. PICK a : a[0] = x /\ a[m] = y /\ \A i \in 1..m : Safe(s[i], a[i - 1], a[i])
  BY DEF Runs, Certifies
<1>3. PICK b : b[0] = y /\ b[n] = z /\ \A i \in 1..n : Safe(t[i], b[i - 1], b[i])
  BY DEF Runs, Certifies
<1> DEFINE c == [i \in 0..(m + n) |-> IF i <= m THEN a[i] ELSE b[i - m]]
<1> HIDE DEF m, n
<1>4. /\ \A i \in 0..m : c[i] = a[i]
      /\ \A i \in m..(m + n) : c[i] = b[i - m]
  <2>1. m \in Nat /\ n \in Nat /\ a[m] = b[0]
    BY <1>1, <1>2, <1>3
  <2>2. \A i \in m..(m + n) : c[i] = IF i = m THEN a[m] ELSE b[i - m]
    BY <2>1
  <2>3. \A i \in m..(m + n) : i = m => i - m = 0
    BY <2>1
  <2>4. \A i \in 0..m : c[i] = a[i]
    BY <2>1
  <2> HIDE DEF c
  <2> QED
    BY <2>1, <2>2, <2>3, <2>4
<1> HIDE DEF c
<1>5. c[0] = x /\ c[m + n] = z
  BY <1>1, <1>2, <1>3, <1>4
<1>6. ASSUME NEW i \in 1..(m + n) PROVE Safe((s \o t)[i], c[i - 1], c[i])
  <2>1. CASE i <= m
    <3>1. i \in 1..m /\ i \in 0..m /\ i - 1 \in 0..m
      BY <1>1, <2>1
    <3> QED
      BY <1>1, <1>2, <1>4, <3>1
  <2>2. CASE i > m
    <3>1. i \in (m + 1)..(m + n) /\ i \in m..(m + n) /\ i - 1 \in m..(m + n)
          /\ (i - 1) - m = (i - m) - 1
      BY <1>1, <2>2
    <3> QED
      BY <1>1, <1>3, <1>4, <3>1
  <2> QED
    BY <1>1, <2>1, <2>2
<1> QED
  BY <1>1, <1>5, <1>6 DEF Runs, Certifies

LEMMA RunsNothing ==
    ASSUME NEW x
    PROVE  Runs(<<>>, x, x)
<1> DEFINE c == [i \in 0..0 |-> x]
<1>1. List(<<>>) /\ Len(<<>>) = 0 /\ c[0] = x
  BY DEF List
<1> HIDE DEF c
<1> QED
  BY <1>1 DEF Runs, Certifies

LEMMA RunsOne ==
    ASSUME NEW l, NEW x, NEW y, Safe(l, x, y)
    PROVE  Runs(<<l>>, x, y)
<1> DEFINE c == [i \in 0..1 |-> IF i = 0 THEN x ELSE y]
<1>1. List(<<l>>) /\ Len(<<l>>) = 1 /\ <<l>>[1] = l
  BY DEF List
<1>2. c[0] = x /\ c[1] = y
  OBVIOUS
<1> HIDE DEF c
<1> QED
  BY <1>1, <1>2 DEF Runs, Certifies

LEMMA TwoRun ==
    ASSUME NEW k, NEW l, NEW x, NEW y, NEW z, Runs(<<k>>, x, y), Runs(<<l>>, y, z)
    PROVE  Runs(<<k, l>>, x, z)
<1>1. Runs(<<k>> \o <<l>>, x, z)
  BY RunsOn
<1>2. <<k>> \o <<l>> = <<k, l>>
  BY InOne
<1> QED
  BY <1>1, <1>2

LEMMA ThreeRun ==
    ASSUME NEW k, NEW l, NEW m, NEW w, NEW x, NEW y, NEW z,
           Runs(<<k>>, w, x), Runs(<<l>>, x, y), Runs(<<m>>, y, z)
    PROVE  Runs(<<k, l, m>>, w, z)
<1>1. Runs(<<k, l>> \o <<m>>, w, z)
  BY TwoRun, RunsOn
<1>2. <<k, l>> \o <<m>> = <<k, l, m>>
  BY InOne
<1> QED
  BY <1>1, <1>2

\* Whoever has more may as well, and less is said of what is left.
LEMMA SafeLess ==
    ASSUME NEW l, NEW n, NEW m, NEW a, NEW b, NEW c, NEW d,
           Safe(l, Standing(b, n), Standing(c, m)), Covers(a, b), Covers(c, d)
    PROVE  Safe(l, Standing(a, n), Standing(d, m))
<1>1. ASSUME NEW h \in Havings, NEW u, NEW v, NEW w, Covers(u, v), Meets(h, w, Standing(u, n))
      PROVE  Meets(h, w, Standing(v, n))
  BY <1>1 DEF Has, Covers, Havings, Meets, Standing
<1>2. ASSUME NEW h \in Havings, NEW u, NEW v, NEW w, Covers(u, v), Meets(h, w, Standing(u, m))
      PROVE  Meets(h, w, Standing(v, m))
  BY <1>2 DEF Has, Covers, Havings, Meets, Standing
<1> QED
  BY <1>1, <1>2 DEF Safe

\* The balances stay natural numbers.
LEMMA BecomesHavings ==
    ASSUME NEW h \in Havings, NEW n, NEW l, NEW g, NEW m, Becomes(h, n, l, g, m)
    PROVE  g \in Havings
<1>1. PICK taken \in Nat, given \in Nat :
         /\ g = More(Less(h, l.input.token, taken), l.output.token, given)
         /\ l.input.token \in AgentTokens => taken = 0 \/ taken <= h[l.input.token]
  BY DEF Becomes
<1>2. Less(h, l.input.token, taken) \in Havings
  BY <1>1 DEF Less, Havings
<1> QED
  BY <1>1, <1>2, HavingsTyped

\* What a logic is sure to give is there when it is done.
LEMMA SurelyThere ==
    ASSUME NEW h \in Havings, NEW n, NEW l, NEW g, NEW m, NEW a, IsAmount(a),
           l.output.token = a.token,
           \E taken, given \in Nat :
             /\ g = More(Less(h, l.input.token, taken), l.output.token, given)
             /\ TakesInput(l) => taken <= h[l.input.token]
             /\ ~TakesInput(l) => taken = 0
             /\ given >= a.amount
    PROVE  Has(g, a)
<1>1. PICK taken \in Nat, given \in Nat :
         /\ g = More(Less(h, l.input.token, taken), a.token, given)
         /\ a.token = l.input.token => taken <= h[a.token] \/ taken = 0
         /\ given >= a.amount
  OBVIOUS
<1>2. a.token \in AgentTokens /\ a.amount \in Nat /\ h[a.token] \in Nat
  BY DEF IsAmount, Havings
<1>3. Less(h, l.input.token, taken)[a.token] >= 0 /\ Less(h, l.input.token, taken)[a.token] \in Int
  BY <1>1, <1>2 DEF Less
<1>4. g[a.token] >= a.amount
  BY <1>1, <1>2, <1>3 DEF More
<1> QED
  BY <1>2, <1>4 DEF Has

-----------------------------------------------------------------------------
(* The logics that the agent surely has the input of.                        *)

\* A logic with none of its input fixed beyond a, of which nothing is counted on later.
LEMMA SinkSafe ==
    ASSUME NEW l, Ours(l), l.kind \notin {"loan", "loanRepay"},
           NEW a, NEW n,
           TakesInput(l) /\ ~l.bps => a = Bill(l)
    PROVE  Safe(l, Standing(a, n), Standing(NoAmount, n))
<1>1. ASSUME NEW h \in Havings, NEW g, NEW m, Becomes(h, n, l, g, m)
      PROVE  g \in Havings /\ Meets(g, m, Standing(NoAmount, n))
  <2>1. g \in Havings
    BY <1>1, BecomesHavings
  <2>2. m = n
    BY <1>1 DEF Becomes, OwedAfter
  <2> QED
    BY <2>1, <2>2 DEF Meets, Standing, Has
<1>2. ASSUME NEW h \in Havings, Has(h, a), TakesInput(l), ~l.bps
      PROVE  h[l.input.token] >= Owed(l)
  <2>1. a.token = l.input.token /\ a.amount = Owed(l) /\ a = TokenAmount(l.input.token, Owed(l))
    BY <1>2 DEF Bill, TokenAmount
  <2>2. l.input.token # "none"
    BY <1>2, NoneIsNoToken DEF Ours, TakesInput, IsAmount
  <2>3. a # NoAmount
    BY <2>1, <2>2 DEF NoAmount, TokenAmount
  <2>4. h[l.input.token] \in Nat /\ Owed(l) <= h[l.input.token]
    BY <1>2, <2>1, <2>3 DEF Has, Havings
  <2>5. Owed(l) \in Nat
    BY <1>2 DEF Ours, Owed, TakesInput, IsAmount
  <2> QED
    BY <2>4, <2>5
<1> QED
  BY <1>1, <1>2 DEF Safe, Meets, Standing

\* A logic that is sure to give a, whatever it takes.
LEMMA GivesSafe ==
    ASSUME NEW l, Ours(l), l.input = NoAmount, NEW a, IsAmount(a),
           l.output.token = a.token, \A taken : Surely(l, taken) = a.amount,
           NEW n, NEW m, OwedAfter(n, l) = m
    PROVE  Safe(l, Standing(NoAmount, n), Standing(a, m))
<1>1. ~TakesInput(l)
  BY DEF TakesInput
<1>2. ASSUME NEW h \in Havings, NEW g, NEW k, Becomes(h, n, l, g, k)
      PROVE  g \in Havings /\ Meets(g, k, Standing(a, m))
  <2>1. g \in Havings /\ k = m
    BY <1>2, BecomesHavings DEF Becomes
  <2>2. Has(g, a)
    <3>1. \E taken, given \in Nat :
             /\ g = More(Less(h, l.input.token, taken), l.output.token, given)
             /\ TakesInput(l) => taken <= h[l.input.token]
             /\ ~TakesInput(l) => taken = 0
             /\ given >= a.amount
      BY <1>2 DEF Becomes
    <3> QED
      BY <3>1, SurelyThere
  <2> QED
    BY <2>1, <2>2 DEF Meets, Standing
<1> QED
  BY <1>1, <1>2 DEF Safe, Meets, Standing

LEMMA MarketSafe ==
    ASSUME NEW a, Underlies(a), NEW n, NEW bps \in BOOLEAN
    PROVE  /\ Safe(BorrowLogic(a), Standing(NoAmount, n), Standing(a, n))
           /\ Safe(SupplyLogic(a, bps), Standing(IF bps THEN NoAmount ELSE a, n), Standing(NoAmount, n))
           /\ IsDebt(a.token) =>
                Safe(RepayLogic(a, bps), Standing(IF bps THEN NoAmount ELSE a, n), Standing(NoAmount, n))
           /\ Safe(SendToken(Receipt(a)), Standing(NoAmount, n), Standing(NoAmount, n))
<1>0. IsAmount(a) /\ IsAmount(Receipt(a)) /\ a # NoAmount /\ Receipt(a) # NoAmount
  BY AmountsAre
<1>1. Safe(BorrowLogic(a), Standing(NoAmount, n), Standing(a, n))
  <2> DEFINE l == BorrowLogic(a)
  <2>1. l.kind = "borrow" /\ l.input = NoAmount /\ l.output = a /\ l.bps \in BOOLEAN
    BY DEF BorrowLogic, Logic
  <2> HIDE DEF l
  <2>2. Ours(l)
    BY <1>0, <2>1 DEF Ours, LogicKinds
  <2>3. OwedAfter(n, l) = n /\ \A taken : Surely(l, taken) = a.amount
    BY <2>1 DEF OwedAfter, Surely
  <2>4. Safe(l, Standing(NoAmount, n), Standing(a, n))
    BY <1>0, <2>1, <2>2, <2>3, GivesSafe
  <2> QED
    BY <2>4 DEF l
<1>2. ASSUME NEW l, l.kind \in {"supply", "repay", "send"}, l.bps \in BOOLEAN, Ours(l),
             IsAmount(l.input)
      PROVE  Safe(l, Standing(IF l.bps THEN NoAmount ELSE l.input, n), Standing(NoAmount, n))
  <2>1. Owed(l) = l.input.amount /\ (TakesInput(l) => Bill(l) = l.input)
    BY <1>2 DEF Owed, Bill, IsAmount
  <2>2. TakesInput(l) /\ ~l.bps => (IF l.bps THEN NoAmount ELSE l.input) = Bill(l)
    BY <2>1
  <2> QED
    BY <1>2, <2>2, SinkSafe
<1>3. Safe(SupplyLogic(a, bps), Standing(IF bps THEN NoAmount ELSE a, n), Standing(NoAmount, n))
  <2> DEFINE l == SupplyLogic(a, bps)
  <2>1. l.kind = "supply" /\ l.input = a /\ l.output = Receipt(a) /\ l.bps = bps
    BY DEF SupplyLogic, Logic
  <2> HIDE DEF l
  <2>2. Receipt(a).token = ProtocolToken[a.token]
    BY DEF Receipt, TokenAmount
  <2>3. Ours(l)
    BY <1>0, <2>1, <2>2 DEF Ours, LogicKinds
  <2>4. Safe(l, Standing(IF l.bps THEN NoAmount ELSE l.input, n), Standing(NoAmount, n))
    BY <1>0, <1>2, <2>1, <2>3
  <2> QED
    BY <2>1, <2>4 DEF l
<1>4. ASSUME IsDebt(a.token)
      PROVE  Safe(RepayLogic(a, bps), Standing(IF bps THEN NoAmount ELSE a, n), Standing(NoAmount, n))
  <2> DEFINE l == RepayLogic(a, bps)
  <2>1. l.kind = "repay" /\ l.input = a /\ l.output = NoAmount /\ l.bps = bps
    BY DEF RepayLogic, Logic
  <2> HIDE DEF l
  <2>2. Ours(l)
    BY <1>0, <1>4, <2>1 DEF Ours, LogicKinds
  <2>3. Safe(l, Standing(IF l.bps THEN NoAmount ELSE l.input, n), Standing(NoAmount, n))
    BY <1>0, <1>2, <2>1, <2>2
  <2> QED
    BY <2>1, <2>3 DEF l
<1>5. Safe(SendToken(Receipt(a)), Standing(NoAmount, n), Standing(NoAmount, n))
  <2> DEFINE l == SendToken(Receipt(a))
  <2>1. l.kind = "send" /\ l.input = Receipt(a) /\ l.output = NoAmount /\ l.bps /\ l.bps \in BOOLEAN
    BY DEF SendToken, Logic
  <2> HIDE DEF l
  <2>2. Ours(l)
    BY <1>0, <2>1 DEF Ours, LogicKinds
  <2>3. Safe(l, Standing(NoAmount, n), Standing(NoAmount, n))
    BY <2>1, <2>2, SinkSafe
  <2> QED
    BY <2>3 DEF l
<1> QED
  BY <1>1, <1>3, <1>4, <1>5

LEMMA LoanSafe ==
    ASSUME NEW a, Underlies(a)
    PROVE  Safe(Loan(a), Nothing, Standing(a, Due(a).amount))
<1> DEFINE l == Loan(a)
<1>1. l.kind = "loan" /\ l.input = NoAmount /\ l.output = a /\ l.bps \in BOOLEAN
  BY DEF Loan, Logic
<1>2. IsAmount(a) /\ a # NoAmount /\ Due(a).amount \in Nat
  BY AmountsAre, FeesAgree DEF Underlies
<1> HIDE DEF l
<1>3. Ours(l)
  BY <1>1, <1>2 DEF Ours, LogicKinds
<1>4. OwedAfter(0, l) = Due(a).amount /\ \A taken : Surely(l, taken) = a.amount
  BY <1>1, <1>2 DEF OwedAfter, Surely
<1>5. Safe(l, Standing(NoAmount, 0), Standing(a, Due(a).amount))
  BY <1>1, <1>2, <1>3, <1>4, GivesSafe
<1> QED
  BY <1>5 DEF l, Nothing

LEMMA LoanRepaySafe ==
    ASSUME NEW a, Underlies(a)
    PROVE  Safe(LoanRepay(a), Standing(Due(a), Due(a).amount), Nothing)
<1> DEFINE l == LoanRepay(a)
<1>1. l.kind = "loanRepay" /\ l.input = a /\ l.output = NoAmount /\ l.bps \in BOOLEAN
      /\ l.bps = FALSE
  BY DEF LoanRepay, Logic
<1>2. IsAmount(a) /\ a # NoAmount /\ Due(a).amount \in Nat /\ Due(a).token = a.token
      /\ IsAmount(Due(a)) /\ Due(a) # NoAmount
  BY AmountsAre, FeesAgree DEF Underlies
<1> HIDE DEF l
<1>3. Ours(l)
  BY <1>1, <1>2 DEF Ours, LogicKinds
<1>4. Owed(l) = Due(a).amount
  BY <1>1 DEF Owed
<1>5. ASSUME NEW h \in Havings, Has(h, Due(a)) PROVE h[l.input.token] >= Owed(l)
  BY <1>1, <1>2, <1>4, <1>5 DEF Has, Havings, IsAmount
<1>6. ASSUME NEW h \in Havings, NEW g, NEW m, Becomes(h, Due(a).amount, l, g, m)
      PROVE  g \in Havings /\ m = 0
  <2>1. OwedAfter(Due(a).amount, l) = 0
    BY <1>1, <1>2 DEF OwedAfter
  <2> QED
    BY <1>6, <2>1, BecomesHavings DEF Becomes
<1>7. Safe(l, Standing(Due(a), Due(a).amount), Standing(NoAmount, 0))
  BY <1>3, <1>5, <1>6 DEF Safe, Meets, Standing, Has
<1> QED
  BY <1>7 DEF l, Nothing

LEMMA SwapSafe ==
    ASSUME NEW q, Underlies(q.input), Underlies(q.output), q.slippage \in 0..BPS_BASE, NEW n
    PROVE  Safe(SwapToken(q), Standing(q.input, n), Standing(NoAmount, n))
<1> DEFINE l == SwapToken(q)
<1>1. /\ l.kind = "swap" /\ l.input = q.input /\ l.output = q.output /\ l.bps \in BOOLEAN
      /\ l.bps = FALSE /\ l.slippage = q.slippage
  BY DEF SwapToken, Logic
<1>2. IsAmount(q.input) /\ IsAmount(q.output) /\ q.input # NoAmount
  BY AmountsAre
<1> HIDE DEF l
<1>3. Ours(l)
  BY <1>1, <1>2 DEF Ours, LogicKinds
<1>4. TakesInput(l) => q.input = Bill(l)
  BY <1>1, <1>2 DEF Bill, Owed, IsAmount
<1>5. Safe(l, Standing(q.input, n), Standing(NoAmount, n))
  BY <1>1, <1>3, <1>4, SinkSafe
<1> QED
  BY <1>5 DEF l

LEMMA PullSafe ==
    ASSUME NEW a, IsAmount(a), a # NoAmount, a.amount >= SetAside, NEW n
    PROVE  Safe(PullToken(a), Standing(NoAmount, n), Standing(Short(a), n))
<1> DEFINE l == PullToken(a)
<1>1. l.kind = "pull" /\ l.input = NoAmount /\ l.output = a /\ l.bps \in BOOLEAN
  BY DEF PullToken, Logic
<1> HIDE DEF l
<1>2. Short(a).token = a.token /\ Short(a).amount = a.amount - SetAside
      /\ Short(a) = TokenAmount(Short(a).token, Short(a).amount)
  BY DEF Short, TokenAmount
<1>3. IsAmount(Short(a))
  BY <1>2 DEF IsAmount, SetAside
<1>4. Ours(l)
  BY <1>1 DEF Ours, LogicKinds
<1>5. OwedAfter(n, l) = n /\ \A taken : Surely(l, taken) = a.amount - SetAside
  BY <1>1 DEF OwedAfter, Surely
<1>6. Safe(l, Standing(NoAmount, n), Standing(Short(a), n))
  BY <1>1, <1>2, <1>3, <1>4, <1>5, GivesSafe
<1> QED
  BY <1>6 DEF l

LEMMA WithdrawSafe ==
    ASSUME NEW out, Underlies(out), NEW bps \in BOOLEAN, NEW n,
           out.token \in AssetTokenized => bps /\ out.amount >= SetAside
    PROVE  Safe(WithdrawLogic(out, bps), Standing(Claimed(out), n), Standing(Arriving(out), n))
<1> DEFINE l == WithdrawLogic(out, bps)
<1>1. l.kind = "withdraw" /\ l.input = Receipt(out) /\ l.output = out /\ l.bps = bps
  BY DEF WithdrawLogic, Logic
<1>2. /\ IsAmount(out) /\ IsAmount(Receipt(out)) /\ Receipt(out) # NoAmount
      /\ Receipt(out).amount = out.amount /\ Receipt(out).token = ProtocolToken[out.token]
      /\ Receipt(out).token \notin Tokens
  BY AmountsAre
<1> HIDE DEF l
<1>3. Ours(l)
  BY <1>1, <1>2 DEF Ours, LogicKinds
<1>4. TakesInput(l) <=> out.token \in AssetTokenized
  BY <1>1, <1>2 DEF TakesInput
<1>5. OwedAfter(n, l) = n
  BY <1>1 DEF OwedAfter
<1>6. /\ Short(out).token = out.token /\ Short(out).amount = out.amount - SetAside
      /\ Short(Receipt(out)).token = Receipt(out).token
      /\ Short(Receipt(out)).amount = out.amount - SetAside
      /\ Short(out) = TokenAmount(out.token, out.amount - SetAside)
      /\ Short(Receipt(out)) = TokenAmount(Receipt(out).token, out.amount - SetAside)
  BY <1>2 DEF Short, TokenAmount
<1>7. IsAmount(Arriving(out)) /\ Arriving(out).token = out.token
  BY <1>2, <1>6 DEF Arriving, IsAmount, SetAside
<1>8. ASSUME NEW h \in Havings, Has(h, Claimed(out)), NEW g, NEW m, Becomes(h, n, l, g, m)
      PROVE  g \in Havings /\ m = n /\ Has(g, Arriving(out))
  <2>1. g \in Havings /\ m = n
    BY <1>5, <1>8, BecomesHavings DEF Becomes
  <2>2. out.token \in AssetTokenized => h[l.input.token] >= out.amount - SetAside
    <3>1. SUFFICES ASSUME out.token \in AssetTokenized PROVE h[l.input.token] >= out.amount - SetAside
      OBVIOUS
    <3>2. Receipt(out).token # "none"
      BY <1>2, NoneIsNoToken DEF IsAmount
    <3>3. Short(Receipt(out)) # NoAmount
      BY <1>6, <3>2 DEF NoAmount, TokenAmount
    <3>4. out.amount - SetAside <= h[Receipt(out).token] /\ h[Receipt(out).token] \in Nat
      BY <1>2, <1>6, <1>8, <3>1, <3>3 DEF Has, Claimed, Havings, IsAmount
    <3>5. out.amount \in Nat /\ SetAside \in Nat
      BY DEF Underlies, SetAside
    <3> QED
      BY <1>1, <3>4, <3>5
  <2>3. \E taken, given \in Nat :
           /\ g = More(Less(h, l.input.token, taken), l.output.token, given)
           /\ TakesInput(l) => taken <= h[l.input.token]
           /\ ~TakesInput(l) => taken = 0
           /\ given >= Arriving(out).amount
    <3>1. PICK taken \in Nat, given \in Nat :
             /\ g = More(Less(h, l.input.token, taken), l.output.token, given)
             /\ given >= Surely(l, taken)
             /\ TakesInput(l) => taken <= h[l.input.token]
             /\ ~TakesInput(l) => taken = 0
             /\ TakesInput(l) /\ l.bps => taken = h[l.input.token]
      BY <1>1, <1>8 DEF Becomes
    <3>2. Surely(l, taken) = IF TakesInput(l) THEN taken ELSE out.amount
      BY <1>1 DEF Surely
    <3>3. given >= Arriving(out).amount
      <4>1. CASE out.token \in AssetTokenized
        <5>1. taken = h[l.input.token] /\ given >= taken /\ Arriving(out).amount = out.amount - SetAside
          BY <1>1, <1>4, <1>6, <3>1, <3>2, <4>1 DEF Arriving
        <5>2. out.amount \in Nat /\ SetAside \in Nat
          BY DEF Underlies, SetAside
        <5> QED
          BY <2>2, <4>1, <5>1, <5>2
      <4>2. CASE out.token \notin AssetTokenized
        BY <1>4, <3>1, <3>2, <4>2 DEF Arriving
      <4> QED
        BY <4>1, <4>2
    <3> QED
      BY <3>1, <3>3
  <2>4. Has(g, Arriving(out))
    BY <1>1, <1>7, <2>3, SurelyThere
  <2> QED
    BY <2>1, <2>4
<1>9. TakesInput(l) => l.bps
  BY <1>1, <1>4
<1>10. Safe(l, Standing(Claimed(out), n), Standing(Arriving(out), n))
  BY <1>3, <1>8, <1>9 DEF Safe, Meets, Standing
<1> QED
  BY <1>10 DEF l

-----------------------------------------------------------------------------
(* A draft transaction and the ones a logic leaves.                          *)

\* A transaction as the Router holds it, and one that differs from it in the balances.
IsDraft(d) ==
    /\ d = [logics |-> d.logics, position |-> d.position, agent |-> d.agent,
            owed |-> d.owed, exact |-> d.exact, short |-> d.short]
    /\ d.agent = [t \in AgentTokens |-> d.agent[t]]
Alike(d, e) ==
    IsDraft(e) /\ e.logics = d.logics /\ e.position = d.position /\ e.owed = d.owed
    /\ e.short = d.short

\* The positions of which it is known what is owed on them.
Owing(p) == "borrows" \in DOMAIN p /\ p.borrows \in [BorrowTokens -> Nat]

LEMMA AgentIs ==
    ASSUME NEW d, IsDraft(d), NEW a
    PROVE  /\ Alike(d, GiveAgent(d, a)) /\ GiveAgent(d, a).agent = More(d.agent, a.token, a.amount)
           /\ Alike(d, TakeAgent(d, a)) /\ TakeAgent(d, a).agent = Less(d.agent, a.token, a.amount)
<1>1. /\ [d.agent EXCEPT ![a.token] = @ + a.amount] = More(d.agent, a.token, a.amount)
      /\ [d.agent EXCEPT ![a.token] = @ - a.amount] = Less(d.agent, a.token, a.amount)
  BY DEF IsDraft, More, Less
<1>2. /\ GiveAgent(d, a) = [d EXCEPT !.agent = [d.agent EXCEPT ![a.token] = @ + a.amount]]
      /\ TakeAgent(d, a) = [d EXCEPT !.agent = [d.agent EXCEPT ![a.token] = @ - a.amount]]
  BY DEF GiveAgent, TakeAgent
<1>3. ASSUME NEW g, g = [t \in AgentTokens |-> g[t]]
      PROVE  Alike(d, [d EXCEPT !.agent = g]) /\ [d EXCEPT !.agent = g].agent = g
  BY <1>3 DEF IsDraft, Alike
<1>4. /\ More(d.agent, a.token, a.amount) = [t \in AgentTokens |-> More(d.agent, a.token, a.amount)[t]]
      /\ Less(d.agent, a.token, a.amount) = [t \in AgentTokens |-> Less(d.agent, a.token, a.amount)[t]]
  BY DEF More, Less
<1> QED
  BY <1>1, <1>2, <1>3, <1>4

WithPosition(d, x) == [d EXCEPT !.position = x]
WithOwed(d, x) == [d EXCEPT !.owed = x]
WithExact(d, x) == [d EXCEPT !.exact = x]
WithShort(d, x) == [d EXCEPT !.short = x]

LEMMA DraftIs ==
    ASSUME NEW d, IsDraft(d), NEW x
    PROVE  /\ IsDraft(WithPosition(d, x)) /\ WithPosition(d, x).logics = d.logics
           /\ WithPosition(d, x).agent = d.agent /\ WithPosition(d, x).owed = d.owed
           /\ WithPosition(d, x).short = d.short /\ WithPosition(d, x).position = x
           /\ IsDraft(WithOwed(d, x)) /\ WithOwed(d, x).logics = d.logics
           /\ WithOwed(d, x).agent = d.agent /\ WithOwed(d, x).owed = x
           /\ WithOwed(d, x).short = d.short /\ WithOwed(d, x).position = d.position
           /\ Alike(d, WithExact(d, x)) /\ WithExact(d, x).agent = d.agent
           /\ IsDraft(WithShort(d, x)) /\ WithShort(d, x).logics = d.logics
           /\ WithShort(d, x).agent = d.agent /\ WithShort(d, x).owed = d.owed
           /\ WithShort(d, x).short = x /\ WithShort(d, x).position = d.position
  BY DEF IsDraft, Alike, WithPosition, WithOwed, WithExact, WithShort

LEMMA OwingOn ==
    ASSUME NEW p, Owing(p), NEW t
    PROVE  /\ \A n : Owing(Supply(p, t, n)) /\ Owing(Withdraw(p, t, n))
           /\ \A n \in Nat : Owing(Borrow(p, t, n))
           /\ \A n \in Nat : Owing(Repay(p, t, n))
<1>1. ASSUME NEW n PROVE Owing(Supply(p, t, n)) /\ Owing(Withdraw(p, t, n))
  BY DEF Owing, Supply, Withdraw
<1>2. ASSUME NEW b, NEW v, b \in BorrowTokens => v \in Nat, NEW totals
      PROVE  Owing([p EXCEPT !.borrows[b] = v, !.totals = totals])
  <2>1. [p.borrows EXCEPT ![b] = v] \in [BorrowTokens -> Nat]
    BY <1>2 DEF Owing
  <2>2. [p EXCEPT !.borrows[b] = v, !.totals = totals].borrows = [p.borrows EXCEPT ![b] = v]
    BY DEF Owing
  <2>3. DOMAIN [p EXCEPT !.borrows[b] = v, !.totals = totals] = DOMAIN p
    OBVIOUS
  <2> QED
    BY <2>1, <2>2, <2>3 DEF Owing
<1>3. ASSUME NEW n \in Nat PROVE Owing(Borrow(p, t, n))
  <2>1. FindBorrow(t) \in BorrowTokens => p.borrows[FindBorrow(t)] + n \in Nat
    BY DEF Owing
  <2> QED
    BY <1>2, <2>1 DEF Borrow
<1>4. ASSUME NEW n \in Nat PROVE Owing(Repay(p, t, n))
  <2>1. FindBorrow(t) \in BorrowTokens =>
          p.borrows[FindBorrow(t)] - SmallerOf(n, p.borrows[FindBorrow(t)]) \in Nat
    BY DEF Owing, SmallerOf
  <2> QED
    BY <1>2, <2>1 DEF Repay
<1> QED
  BY <1>1, <1>3, <1>4

\* Taking none, and giving none.
LEMMA ExchangedIs ==
    ASSUME NEW h \in Havings, NEW t, NEW n \in Nat, NEW u, NEW m \in Nat
    PROVE  /\ Less(h, t, 0) = h
           /\ n <= h[t] \/ t \notin AgentTokens => More(Less(h, t, n), u, 0) = Less(h, t, n)
<1>1. Less(h, t, 0) = h
  BY DEF Less, Havings
<1>2. ASSUME n <= h[t] \/ t \notin AgentTokens PROVE More(Less(h, t, n), u, 0) = Less(h, t, n)
  <2>1. Less(h, t, n) \in Havings
    BY <1>2 DEF Less, Havings
  <2> QED
    BY <2>1, HavingsTyped
<1> QED
  BY <1>1, <1>2

-----------------------------------------------------------------------------
(* A logic passes: it does at least what is certain of it.                   *)

\* What is certain of a logic's outcome; of the balances, as long as no more is missing
\* than was set aside.
Certain(d) == draft.agent \in Havings /\ Owing(draft.position) /\ d.short <= SetAside
Passes(l, d) ==
    /\ IsDraft(d) /\ d.logics = draft.logics /\ d.short \in Nat /\ d.short >= draft.short
    /\ Certain(d) => Owing(d.position) /\ Becomes(draft.agent, draft.owed, l, d.agent, d.owed)

\* What is taken is there.
LEMMA TakenIs ==
    ASSUME NEW l, Ours(l), draft.agent \in Havings, l.input # NoAmount
    PROVE  /\ Taken(l).token = l.input.token /\ Taken(l).amount \in Nat
           /\ Taken(l).amount = IF l.bps THEN draft.agent[l.input.token] ELSE l.input.amount
           /\ AgentHas(Taken(l)) => Taken(l).amount <= draft.agent[l.input.token]
<1>1. IsAmount(l.input)
  BY DEF Ours
<1>2. draft.agent[l.input.token] \in Nat /\ l.input.amount \in Nat
  BY <1>1 DEF IsAmount, Havings
<1>3. Taken(l).token = l.input.token
      /\ Taken(l).amount = IF l.bps THEN draft.agent[l.input.token] ELSE l.input.amount
  BY DEF Taken, TokenAmount
<1> HIDE DEF Taken
<1>4. Taken(l).amount \in Nat
  BY <1>2, <1>3
<1>5. AgentHas(Taken(l)) => Taken(l).amount <= draft.agent[l.input.token]
  BY <1>2, <1>3, <1>4 DEF AgentHas
<1> QED
  BY <1>3, <1>4, <1>5

\* A logic that takes nothing from the agent.
LEMMA GivenPasses ==
    ASSUME NEW l, Ours(l), ~TakesInput(l), IsDraft(draft), draft.short \in Nat,
           NEW e, IsDraft(e), e.logics = draft.logics, e.agent = draft.agent,
           e.short \in Nat, e.short >= draft.short, e.owed = OwedAfter(draft.owed, l),
           Certain(e) => Owing(e.position),
           NEW n, (n \in Nat /\ n >= Surely(l, 0)) \/ e.short > SetAside
    PROVE  Passes(l, GiveAgent(e, TokenAmount(l.output.token, n)))
<1> DEFINE d == GiveAgent(e, TokenAmount(l.output.token, n))
<1>1. Alike(e, d) /\ d.agent = More(draft.agent, l.output.token, n)
  BY AgentIs DEF TokenAmount
<1> HIDE DEF d
<1>2. IsDraft(d) /\ d.logics = draft.logics /\ d.short = e.short /\ d.owed = OwedAfter(draft.owed, l)
      /\ d.position = e.position
  BY <1>1 DEF Alike
<1>3. ASSUME Certain(d)
      PROVE  Owing(d.position) /\ Becomes(draft.agent, draft.owed, l, d.agent, d.owed)
  <2>1. draft.agent \in Havings /\ e.short <= SetAside /\ Certain(e)
    BY <1>2, <1>3 DEF Certain
  <2>2. n \in Nat /\ n >= Surely(l, 0)
    BY <2>1 DEF SetAside
  <2>3. d.agent = More(Less(draft.agent, l.input.token, 0), l.output.token, n)
    BY <1>1, <2>1, ExchangedIs
  <2>4. Becomes(draft.agent, draft.owed, l, d.agent, d.owed)
    <3>1. \E taken, given \in Nat :
             /\ d.agent = More(Less(draft.agent, l.input.token, taken), l.output.token, given)
             /\ given >= Surely(l, taken)
             /\ taken = 0
      BY <2>2, <2>3
    <3> QED
      BY <1>2, <3>1 DEF Becomes
  <2> QED
    BY <1>2, <2>1, <2>4
<1> QED
  BY <1>2, <1>3 DEF Passes, d

\* A logic that takes n of its input and gives m.
LEMMA TakenPasses ==
    ASSUME NEW l, Ours(l), IsDraft(draft), draft.short \in Nat,
           TakesInput(l), NEW d, IsDraft(d), d.logics = draft.logics, d.short = draft.short,
           d.owed = OwedAfter(draft.owed, l), NEW n, NEW m,
           Certain(d) => /\ d.agent = More(Less(draft.agent, l.input.token, n), l.output.token, m)
                         /\ n \in Nat /\ n <= draft.agent[l.input.token]
                         /\ m \in Nat /\ m >= Surely(l, n) /\ Owing(d.position)
                         /\ l.kind = "withdraw" /\ l.bps => n = draft.agent[l.input.token]
    PROVE  Passes(l, d)
<1>1. ASSUME Certain(d)
      PROVE  Owing(d.position) /\ Becomes(draft.agent, draft.owed, l, d.agent, d.owed)
  <2>1. \E taken, given \in Nat :
           /\ d.agent = More(Less(draft.agent, l.input.token, taken), l.output.token, given)
           /\ given >= Surely(l, taken)
           /\ taken <= draft.agent[l.input.token]
           /\ l.kind = "withdraw" /\ l.bps => taken = draft.agent[l.input.token]
    BY <1>1
  <2>2. Becomes(draft.agent, draft.owed, l, d.agent, d.owed)
    BY <2>1 DEF Becomes
  <2> QED
    BY <1>1, <2>2
<1> QED
  BY <1>1 DEF Passes

-----------------------------------------------------------------------------
(* Logics that give the agent something.                                     *)

LEMMA AmountGiven ==
    ASSUME NEW d, NEW a, IsAmount(a)
    PROVE  GiveAgent(d, a) = GiveAgent(d, TokenAmount(a.token, a.amount))
  BY DEF IsAmount

\* A loan, a borrowing and a withdrawal where the market has no receipt token.
LEMMA GiftPasses ==
    ASSUME NEW l, Ours(l), ~TakesInput(l), IsDraft(draft), draft.short \in Nat,
           l.kind \in {"loan", "borrow", "withdraw"}, l.output # NoAmount,
           NEW e, IsDraft(e), e.logics = draft.logics, e.agent = draft.agent,
           e.short = draft.short, e.owed = OwedAfter(draft.owed, l),
           Owing(draft.position) => Owing(e.position)
    PROVE  Passes(l, GiveAgent(e, l.output))
<1>1. IsAmount(l.output) /\ l.output.amount \in Nat
  BY DEF Ours, IsAmount
<1>2. Surely(l, 0) = l.output.amount
  BY DEF Surely
<1>3. Certain(e) => Owing(e.position)
  BY DEF Certain
<1>4. Passes(l, GiveAgent(e, TokenAmount(l.output.token, l.output.amount)))
  BY <1>1, <1>2, <1>3, GivenPasses
<1> QED
  BY <1>1, <1>4, AmountGiven

LEMMA LoanPasses ==
    ASSUME NEW l, Ours(l), IsDraft(draft), draft.short \in Nat, l.kind = "loan", l.input = NoAmount
    PROVE  Passes(l, GiveAgent([draft EXCEPT !.owed = @ + Due(l.output).amount], l.output))
<1> DEFINE e == WithOwed(draft, draft.owed + Due(l.output).amount)
<1>1. ~TakesInput(l) /\ l.output # NoAmount
  BY AmountsAre DEF TakesInput, Ours
<1>2. /\ IsDraft(e) /\ e.logics = draft.logics /\ e.agent = draft.agent /\ e.short = draft.short
      /\ e.owed = draft.owed + Due(l.output).amount /\ e.position = draft.position
  BY DraftIs
<1> HIDE DEF e
<1>3. OwedAfter(draft.owed, l) = draft.owed + Due(l.output).amount
  BY DEF OwedAfter
<1>4. Passes(l, GiveAgent(e, l.output))
  BY <1>1, <1>2, <1>3, GiftPasses
<1> QED
  BY <1>4 DEF e, WithOwed

\* A logic that gives what is on the market: the position changes.
LEMMA MarketGiftPasses ==
    ASSUME NEW l, Ours(l), ~TakesInput(l), IsDraft(draft), draft.short \in Nat,
           l.kind \in {"borrow", "withdraw"}, l.output # NoAmount,
           NEW p, Owing(draft.position) => Owing(p)
    PROVE  Passes(l, GiveAgent(WithPosition(draft, p), l.output))
<1> DEFINE e == WithPosition(draft, p)
<1>1. /\ IsDraft(e) /\ e.logics = draft.logics /\ e.agent = draft.agent /\ e.short = draft.short
      /\ e.owed = draft.owed /\ e.position = p
  BY DraftIs
<1> HIDE DEF e
<1>2. OwedAfter(draft.owed, l) = draft.owed
  BY DEF OwedAfter
<1>3. Passes(l, GiveAgent(e, l.output))
  BY <1>1, <1>2, GiftPasses
<1> QED
  BY <1>3 DEF e

LEMMA BorrowPasses ==
    ASSUME NEW l, Ours(l), IsDraft(draft), draft.short \in Nat, l.kind = "borrow",
           l.input = NoAmount, l.output # NoAmount, NEW d \in Borrowed(l)
    PROVE  Passes(l, d)
<1> DEFINE p == Borrow(draft.position, l.output.token, l.output.amount)
<1>1. d = GiveAgent(WithPosition(draft, p), l.output)
  BY DEF Borrowed, WithPosition
<1>2. Owing(draft.position) => Owing(p)
  BY OwingOn DEF Ours, IsAmount
<1>3. ~TakesInput(l)
  BY DEF TakesInput
<1> HIDE DEF p
<1> QED
  BY <1>1, <1>2, <1>3, MarketGiftPasses

LEMMA WithdrawPasses ==
    ASSUME NEW l, Ours(l), IsDraft(draft), draft.short \in Nat, l.kind = "withdraw",
           NEW d \in Withdrawn(l), TakesInput(l) => AgentHas(Taken(l))
    PROVE  Passes(l, d)
<1> DEFINE p == Withdraw(draft.position, l.output.token, l.output.amount)
           taken == Taken(l)
<1>1. l.input # NoAmount /\ l.output # NoAmount
  BY AmountsAre DEF Ours
<1>2. TakesInput(l) <=> l.output.token \in AssetTokenized
  BY <1>1 DEF TakesInput
<1>3. CASE l.output.token \notin AssetTokenized
  <2>1. d = GiveAgent(WithPosition(draft, p), l.output)
    BY <1>3 DEF Withdrawn, WithPosition
  <2>2. Owing(draft.position) => Owing(p)
    BY OwingOn
  <2> HIDE DEF p
  <2> QED
    BY <1>1, <1>2, <1>3, <2>1, <2>2, MarketGiftPasses
<1>4. CASE l.output.token \in AssetTokenized
  <2>1. d = GiveAgent(TakeAgent(draft, taken), TokenAmount(l.output.token, taken.amount))
    BY <1>4 DEF Withdrawn
  <2>2. taken.token = l.input.token
    BY DEF Taken, TokenAmount
  <2>3. /\ Alike(draft, d)
        /\ d.agent = More(Less(draft.agent, taken.token, taken.amount), l.output.token, taken.amount)
    <3> DEFINE e == TakeAgent(draft, taken)
               g == TokenAmount(l.output.token, taken.amount)
    <3> HIDE DEF taken
    <3>1. Alike(draft, e) /\ e.agent = Less(draft.agent, taken.token, taken.amount)
      BY AgentIs
    <3>2. g.token = l.output.token /\ g.amount = taken.amount
      BY DEF TokenAmount
    <3> HIDE DEF e, g
    <3>3. Alike(e, GiveAgent(e, g)) /\ GiveAgent(e, g).agent = More(e.agent, g.token, g.amount)
      BY <3>1, AgentIs DEF Alike
    <3>4. d = GiveAgent(e, g)
      BY <2>1 DEF e, g
    <3> QED
      BY <3>1, <3>2, <3>3, <3>4 DEF Alike
  <2>4. OwedAfter(draft.owed, l) = draft.owed
    BY DEF OwedAfter
  <2>5. Surely(l, taken.amount) = taken.amount
    BY <1>2, <1>4 DEF Surely
  <2>6. Certain(d) => /\ taken.amount \in Nat /\ taken.amount <= draft.agent[l.input.token]
                      /\ (l.bps => taken.amount = draft.agent[l.input.token])
                      /\ Owing(draft.position)
    BY <1>1, <1>2, <1>4, TakenIs DEF Certain
  <2> HIDE DEF taken
  <2>7. IsDraft(d) /\ d.logics = draft.logics /\ d.short = draft.short
        /\ d.owed = OwedAfter(draft.owed, l) /\ d.position = draft.position
    BY <2>3, <2>4 DEF Alike
  <2>8. d.agent = More(Less(draft.agent, l.input.token, taken.amount), l.output.token, taken.amount)
    BY <2>2, <2>3
  <2>9. Certain(d) =>
          /\ d.agent = More(Less(draft.agent, l.input.token, taken.amount), l.output.token, taken.amount)
          /\ taken.amount \in Nat /\ taken.amount <= draft.agent[l.input.token]
          /\ taken.amount \in Nat /\ taken.amount >= Surely(l, taken.amount) /\ Owing(d.position)
          /\ l.kind = "withdraw" /\ l.bps => taken.amount = draft.agent[l.input.token]
    BY <2>5, <2>6, <2>7, <2>8
  <2>10. TakesInput(l)
    BY <1>2, <1>4
  <2> QED
    BY <2>7, <2>9, <2>10, TakenPasses
<1> QED
  BY <1>3, <1>4

LEMMA PullPasses ==
    ASSUME NEW l, Ours(l), IsDraft(draft), draft.short \in Nat, l.kind = "pull",
           l.input = NoAmount, NEW d \in Pulled(l)
    PROVE  Passes(l, d)
<1> DEFINE p == Withdraw(draft.position, Underlying(l.output.token), l.output.amount)
<1>1. PICK short \in 0..MaxShort :
         d = [GiveAgent(draft, TokenAmount(l.output.token, l.output.amount - short))
                EXCEPT !.position = p, !.short = draft.short + short]
  <2>1. \A a : GiveAgent(draft, a).short = draft.short
    BY AgentIs DEF Alike
  <2> QED
    BY <2>1 DEF Pulled
<1> DEFINE n == l.output.amount - short
           a == TokenAmount(l.output.token, n)
           c == WithPosition(draft, p)
           e == WithShort(c, draft.short + short)
<1>2. short \in Nat
  BY MarketAssumption
<1>3. /\ IsDraft(e) /\ e.logics = draft.logics /\ e.agent = draft.agent /\ e.owed = draft.owed
      /\ e.short = draft.short + short /\ e.position = p
  <2>1. /\ IsDraft(c) /\ c.logics = draft.logics /\ c.agent = draft.agent /\ c.owed = draft.owed
        /\ c.short = draft.short /\ c.position = p
    BY DraftIs
  <2> HIDE DEF c, p
  <2> QED
    BY <2>1, DraftIs
<1>4. d = GiveAgent(e, a)
  <2> HIDE DEF a, p
  <2>1. d = [GiveAgent(draft, a) EXCEPT !.position = p, !.short = draft.short + short]
    BY <1>1 DEF a
  <2> QED
    BY <2>1 DEF GiveAgent, e, c, WithPosition, WithShort, IsDraft
<1>5. Owing(draft.position) => Owing(p)
  BY OwingOn
<1> HIDE DEF p, e, c
<1>6. ~TakesInput(l) /\ OwedAfter(draft.owed, l) = draft.owed
      /\ Surely(l, 0) = l.output.amount - SetAside
  BY DEF TakesInput, OwedAfter, Surely
<1>7. (n \in Nat /\ n >= Surely(l, 0)) \/ e.short > SetAside
  <2>1. l.output.amount \in Nat /\ l.output.amount >= SetAside /\ SetAside \in Nat
    BY DEF Ours, IsAmount, SetAside
  <2> QED
    BY <1>2, <1>3, <1>6, <2>1
<1>8. e.short \in Nat /\ e.short >= draft.short /\ (Certain(e) => Owing(e.position))
  BY <1>2, <1>3, <1>5 DEF Certain
<1> HIDE DEF n
<1>9. Passes(l, GiveAgent(e, TokenAmount(l.output.token, n)))
  BY <1>3, <1>6, <1>7, <1>8, GivenPasses
<1> QED
  BY <1>4, <1>9

-----------------------------------------------------------------------------
(* Every logic passes.                                                       *)

\* A logic that takes n of its input and gives nothing back.
LEMMA SunkPasses ==
    ASSUME NEW l, Ours(l), IsDraft(draft), draft.short \in Nat, TakesInput(l),
           l.kind \notin {"withdraw"}, Surely(l, 0) = 0 /\ \A n : Surely(l, n) = 0,
           NEW e, IsDraft(e), e.logics = draft.logics, e.agent = draft.agent,
           e.short = draft.short, e.owed = OwedAfter(draft.owed, l),
           Owing(draft.position) => Owing(e.position),
           NEW a, a.token = l.input.token,
           draft.agent \in Havings => a.amount \in Nat /\ a.amount <= draft.agent[l.input.token]
    PROVE  Passes(l, TakeAgent(e, a))
<1> DEFINE d == TakeAgent(e, a)
<1>1. Alike(e, d) /\ d.agent = Less(draft.agent, l.input.token, a.amount)
  BY AgentIs
<1> HIDE DEF d
<1>2. /\ IsDraft(d) /\ d.logics = draft.logics /\ d.short = draft.short
      /\ d.owed = OwedAfter(draft.owed, l) /\ d.position = e.position
  BY <1>1 DEF Alike
<1>3. Certain(d) =>
        /\ d.agent = More(Less(draft.agent, l.input.token, a.amount), l.output.token, 0)
        /\ a.amount \in Nat /\ a.amount <= draft.agent[l.input.token]
        /\ 0 \in Nat /\ 0 >= Surely(l, a.amount) /\ Owing(d.position)
  <2> SUFFICES ASSUME Certain(d)
               PROVE  /\ d.agent = More(Less(draft.agent, l.input.token, a.amount), l.output.token, 0)
                      /\ a.amount \in Nat /\ a.amount <= draft.agent[l.input.token]
                      /\ 0 \in Nat /\ 0 >= Surely(l, a.amount) /\ Owing(d.position)
    OBVIOUS
  <2>1. draft.agent \in Havings /\ Owing(d.position)
    BY <1>2 DEF Certain
  <2>2. More(Less(draft.agent, l.input.token, a.amount), l.output.token, 0)
          = Less(draft.agent, l.input.token, a.amount)
    BY <2>1, ExchangedIs
  <2> QED
    BY <1>1, <2>1, <2>2
<1>4. Passes(l, d)
  BY <1>2, <1>3, TakenPasses
<1> QED
  BY <1>4 DEF d

\* A logic that takes n of its input and gives m.
LEMMA ExchangePasses ==
    ASSUME NEW l, Ours(l), IsDraft(draft), draft.short \in Nat, TakesInput(l),
           l.kind \in {"swap", "supply", "wrap"},
           NEW a, a.token = l.input.token,
           draft.agent \in Havings => a.amount \in Nat /\ a.amount <= draft.agent[l.input.token],
           NEW b, b.token = l.output.token, draft.agent \in Havings => b.amount \in Nat
    PROVE  Passes(l, GiveAgent(TakeAgent(draft, a), b))
           /\ \A x : Passes(l, WithExact(GiveAgent(TakeAgent(draft, a), b), x))
<1> DEFINE e == TakeAgent(draft, a)
           d == GiveAgent(e, b)
<1>1. Alike(draft, e) /\ e.agent = Less(draft.agent, l.input.token, a.amount)
  BY AgentIs
<1> HIDE DEF e
<1>2. Alike(e, d) /\ d.agent = More(Less(draft.agent, l.input.token, a.amount), l.output.token, b.amount)
  BY <1>1, AgentIs DEF Alike
<1> HIDE DEF d
<1>3. OwedAfter(draft.owed, l) = draft.owed /\ \A n : Surely(l, n) = 0
  BY DEF OwedAfter, Surely
<1>4. ASSUME NEW f, Alike(draft, f),
             f.agent = More(Less(draft.agent, l.input.token, a.amount), l.output.token, b.amount)
      PROVE  Passes(l, f)
  <2>1. /\ IsDraft(f) /\ f.logics = draft.logics /\ f.short = draft.short
        /\ f.owed = OwedAfter(draft.owed, l) /\ f.position = draft.position
    BY <1>3, <1>4 DEF Alike
  <2>2. Certain(f) =>
          /\ f.agent = More(Less(draft.agent, l.input.token, a.amount), l.output.token, b.amount)
          /\ a.amount \in Nat /\ a.amount <= draft.agent[l.input.token]
          /\ b.amount \in Nat /\ b.amount >= Surely(l, a.amount) /\ Owing(f.position)
    BY <1>3, <1>4, <2>1 DEF Certain
  <2> QED
    BY <2>1, <2>2, TakenPasses
<1>5. Alike(draft, d)
  BY <1>1, <1>2 DEF Alike
<1>6. Passes(l, d)
  BY <1>2, <1>4, <1>5
<1>7. ASSUME NEW x PROVE Passes(l, WithExact(d, x))
  <2>1. Alike(d, WithExact(d, x)) /\ WithExact(d, x).agent = d.agent
    BY <1>5, DraftIs DEF Alike
  <2>2. Alike(draft, WithExact(d, x))
    BY <1>5, <2>1 DEF Alike
  <2> QED
    BY <1>2, <1>4, <2>1, <2>2
<1> QED
  BY <1>6, <1>7 DEF d, e

LEMMA LoanRepayPasses ==
    ASSUME NEW l, Ours(l), IsDraft(draft), draft.short \in Nat, l.kind = "loanRepay",
           AgentHas(Due(l.input))
    PROVE  Passes(l, TakeAgent([draft EXCEPT !.owed = @ - Due(l.input).amount], Due(l.input)))
<1> DEFINE a == Due(l.input)
           e == WithOwed(draft, draft.owed - a.amount)
<1>1. TakesInput(l) /\ (\A n : Surely(l, n) = 0) /\ OwedAfter(draft.owed, l) = draft.owed - a.amount
  BY DEF Ours, TakesInput, Surely, OwedAfter
<1>2. a.token = l.input.token /\ a.amount \in Nat
  BY FeesAgree DEF Ours, Underlies
<1>3. a.amount <= draft.agent[a.token] \/ draft.agent \notin Havings
  BY <1>2 DEF AgentHas, Havings, Ours, Underlies, AgentTokens
<1> HIDE DEF a
<1>4. /\ IsDraft(e) /\ e.logics = draft.logics /\ e.agent = draft.agent /\ e.short = draft.short
      /\ e.owed = draft.owed - a.amount /\ e.position = draft.position
  BY DraftIs
<1> HIDE DEF e
<1>5. Passes(l, TakeAgent(e, a))
  BY <1>1, <1>2, <1>3, <1>4, SunkPasses
<1> QED
  BY <1>5 DEF a, e, WithOwed

LEMMA SwapPasses ==
    ASSUME NEW l, Ours(l), IsDraft(draft), draft.short \in Nat, l.kind = "swap",
           AgentHas(Taken(l)), NEW d \in Swapped(l)
    PROVE  Passes(l, d)
<1> DEFINE quoted == SwapOutput(l.input.token, l.output.token, l.input.amount)
<1>1. /\ l.bps = FALSE /\ l.input # NoAmount /\ Underlies(l.input) /\ Underlies(l.output)
      /\ l.slippage \in 0..BPS_BASE
  BY DEF Ours
<1>2. quoted \in Nat
  BY <1>1, SwapsDeliver DEF Underlies
<1>3. CalcSlippage(quoted, l.slippage) \in Nat
  <2> HIDE DEF quoted
  <2>1. BPS_BASE - l.slippage \in Nat /\ BPS_BASE \in Nat \ {0}
    <3>1. BPS_BASE \in Nat \ {0} /\ \A x \in 0..BPS_BASE : BPS_BASE - x \in Nat
      BY DEF BPS_BASE
    <3> QED
      BY <1>1, <3>1
  <2>2. quoted * (BPS_BASE - l.slippage) \in Nat
    BY <1>2, <2>1
  <2> QED
    BY <2>1, <2>2, DivBounds DEF CalcSlippage
<1>4. PICK n \in {quoted, CalcSlippage(quoted, l.slippage)} :
        d = [GiveAgent(TakeAgent(draft, l.input), TokenAmount(l.output.token, n))
               EXCEPT !.exact = @ /\ n = quoted]
  BY DEF Swapped
<1> HIDE DEF quoted
<1> DEFINE b == TokenAmount(l.output.token, n)
           e == GiveAgent(TakeAgent(draft, l.input), b)
           x == e.exact /\ n = quoted
<1>5. d = WithExact(e, x)
  BY <1>4 DEF WithExact
<1>6. b.token = l.output.token /\ b.amount \in Nat
  BY <1>2, <1>3, <1>4 DEF TokenAmount
<1>7. TakesInput(l)
  BY <1>1 DEF TakesInput
<1>8. draft.agent \in Havings =>
        l.input.amount \in Nat /\ l.input.amount <= draft.agent[l.input.token]
  BY <1>1, TakenIs
<1> HIDE DEF b
<1>9. \A y : Passes(l, WithExact(GiveAgent(TakeAgent(draft, l.input), b), y))
  BY <1>6, <1>7, <1>8, ExchangePasses
<1> QED
  BY <1>5, <1>9

LEMMA WrapPasses ==
    ASSUME NEW l, Ours(l), IsDraft(draft), draft.short \in Nat, l.kind = "wrap",
           AgentHas(Taken(l))
    PROVE  Passes(l, GiveAgent(TakeAgent(draft, l.input), l.output))
<1>1. l.bps = FALSE /\ l.input # NoAmount /\ l.output.amount \in Nat
  BY NothingIsNone DEF Ours, IsAmount
<1>2. TakesInput(l)
  BY <1>1 DEF TakesInput
<1>3. draft.agent \in Havings =>
        l.input.amount \in Nat /\ l.input.amount <= draft.agent[l.input.token]
  BY <1>1, TakenIs
<1> QED
  BY <1>1, <1>2, <1>3, ExchangePasses

LEMMA SupplyPasses ==
    ASSUME NEW l, Ours(l), IsDraft(draft), draft.short \in Nat, l.kind = "supply",
           AgentHas(Taken(l)), NEW d \in Supplied(l)
    PROVE  Passes(l, d)
<1> DEFINE taken == Taken(l)
           p == Supply(draft.position, taken.token, taken.amount)
<1>1. Underlies(l.input) /\ l.output.token = ProtocolToken[l.input.token] /\ l.input # NoAmount
  BY AmountsAre DEF Ours
<1>2. TakesInput(l)
  BY <1>1 DEF TakesInput
<1>3. taken.token = l.input.token
  BY DEF Taken, TokenAmount
<1>4. draft.agent \in Havings => taken.amount \in Nat /\ taken.amount <= draft.agent[l.input.token]
  BY <1>1, TakenIs
<1>5. CASE taken.token \in AssetTokenized
  <2>1. d = GiveAgent(TakeAgent(draft, taken), Receipt(taken))
    BY <1>5 DEF Supplied
  <2>2. Receipt(taken).token = l.output.token /\ Receipt(taken).amount = taken.amount
    BY <1>1, <1>3 DEF Receipt, TokenAmount
  <2> HIDE DEF taken
  <2>3. Passes(l, GiveAgent(TakeAgent(draft, taken), Receipt(taken)))
    BY <1>2, <1>3, <1>4, <2>2, ExchangePasses
  <2> QED
    BY <2>1, <2>3
<1>6. CASE taken.token \notin AssetTokenized
  <2> DEFINE e == WithPosition(draft, p)
  <2>1. d = [TakeAgent(draft, taken) EXCEPT !.position = Supply(@, taken.token, taken.amount)]
    BY <1>6 DEF Supplied
  <2>2. Owing(draft.position) => Owing(p)
    BY OwingOn
  <2> HIDE DEF taken
  <2>3. d = TakeAgent(e, taken)
    BY <2>1 DEF TakeAgent, WithPosition, IsDraft
  <2> HIDE DEF p
  <2>4. /\ IsDraft(e) /\ e.logics = draft.logics /\ e.agent = draft.agent /\ e.short = draft.short
        /\ e.owed = draft.owed /\ e.position = p
    BY DraftIs
  <2> HIDE DEF e
  <2>5. OwedAfter(draft.owed, l) = draft.owed /\ \A n : Surely(l, n) = 0
    BY DEF OwedAfter, Surely
  <2>6. Passes(l, TakeAgent(e, taken))
    BY <1>2, <1>3, <1>4, <2>2, <2>4, <2>5, SunkPasses
  <2> QED
    BY <2>3, <2>6
<1> QED
  BY <1>5, <1>6

LEMMA RepayPasses ==
    ASSUME NEW l, Ours(l), IsDraft(draft), draft.short \in Nat, l.kind = "repay",
           AgentHas(Taken(l)), NEW d \in Repaid(l)
    PROVE  Passes(l, d)
<1> DEFINE b == Debt(l.input.token)
           debt == draft.position.borrows[b]
           n == SmallerOf(Taken(l).amount, debt)
           paid == TokenAmount(l.input.token, n)
           p == Repay(draft.position, b, n)
           e == WithPosition(draft, p)
<1>0. b \in BorrowTokens
  BY DEF Debt, Ours, IsDebt
<1>1. l.input # NoAmount /\ TakesInput(l) /\ (Owing(draft.position) => debt \in Nat)
  BY <1>0 DEF Ours, TakesInput, Owing
<1>2. draft.agent \in Havings /\ Owing(draft.position) => n \in Nat /\ n <= draft.agent[l.input.token]
  <2> SUFFICES ASSUME draft.agent \in Havings, Owing(draft.position)
               PROVE n \in Nat /\ n <= draft.agent[l.input.token]
    OBVIOUS
  <2>1. Taken(l).amount \in Nat /\ Taken(l).amount <= draft.agent[l.input.token]
        /\ draft.agent[l.input.token] \in Nat
    BY <1>1, TakenIs DEF Havings, Ours, IsAmount
  <2> HIDE DEF debt
  <2> QED
    BY <1>1, <2>1 DEF SmallerOf
<1>3. paid.token = l.input.token /\ paid.amount = n
  BY DEF TokenAmount
<1>4. d = TakeAgent([draft EXCEPT !.position = Repay(@, b, n)], paid)
  BY DEF Repaid
<1> HIDE DEF paid
<1>5. d = TakeAgent(e, paid)
  BY <1>4 DEF WithPosition
<1>6. n \in Nat /\ Owing(draft.position) => Owing(p)
  BY <1>3, OwingOn
<1> HIDE DEF p, n
<1>7. /\ IsDraft(e) /\ e.logics = draft.logics /\ e.agent = draft.agent /\ e.short = draft.short
      /\ e.owed = draft.owed /\ e.position = p
  BY DraftIs
<1>8. OwedAfter(draft.owed, l) = draft.owed /\ \A m : Surely(l, m) = 0
  BY DEF OwedAfter, Surely
<1> HIDE DEF e
<1>9. CASE n \in Nat /\ Owing(draft.position)
  <2>1. Passes(l, TakeAgent(e, paid))
    BY <1>9, <1>1, <1>2, <1>3, <1>6, <1>7, <1>8, SunkPasses
  <2> QED
    BY <1>5, <2>1
<1>10. CASE ~(n \in Nat /\ Owing(draft.position))
  <2>1. draft.agent \notin Havings \/ ~Owing(draft.position)
    BY <1>2, <1>10
  <2>2. Alike(e, d)
    BY <1>5, <1>7, AgentIs
  <2>3. IsDraft(d) /\ d.logics = draft.logics /\ d.short = draft.short
    BY <1>7, <2>2 DEF Alike
  <2>4. ~Certain(d)
    BY <2>1 DEF Certain
  <2> QED
    BY <2>3, <2>4 DEF Passes
<1> QED
  BY <1>9, <1>10

LEMMA SendPasses ==
    ASSUME NEW l, Ours(l), IsDraft(draft), draft.short \in Nat, l.kind = "send",
           AgentHas(Taken(l))
    PROVE  Passes(l, TakeAgent([draft EXCEPT !.position =
                       Supply(@, Underlying(l.input.token), Taken(l).amount)], Taken(l)))
<1> DEFINE taken == Taken(l)
           p == Supply(draft.position, Underlying(l.input.token), taken.amount)
           e == WithPosition(draft, p)
<1>1. l.input # NoAmount /\ TakesInput(l)
  BY DEF Ours, TakesInput
<1>2. taken.token = l.input.token
  BY DEF Taken, TokenAmount
<1>3. draft.agent \in Havings => taken.amount \in Nat /\ taken.amount <= draft.agent[l.input.token]
  BY <1>1, TakenIs
<1>4. Owing(draft.position) => Owing(p)
  BY OwingOn
<1> HIDE DEF taken, p
<1>5. /\ IsDraft(e) /\ e.logics = draft.logics /\ e.agent = draft.agent /\ e.short = draft.short
      /\ e.owed = draft.owed /\ e.position = p
  BY DraftIs
<1>6. OwedAfter(draft.owed, l) = draft.owed /\ \A n : Surely(l, n) = 0
  BY DEF OwedAfter, Surely
<1> HIDE DEF e
<1>7. Passes(l, TakeAgent(e, taken))
  BY <1>1, <1>2, <1>3, <1>4, <1>5, <1>6, SunkPasses
<1> QED
  BY <1>7 DEF taken, e, p, WithPosition

LEMMA OutcomePasses ==
    ASSUME NEW l, Ours(l), IsDraft(draft), draft.short \in Nat, NEW d \in Outcomes(l)
    PROVE  Passes(l, d)
<1>1. TakesInput(l) => AgentHas(Taken(l))
  BY DEF Outcomes
<1>2. l.kind \in {"swap", "supply", "wrap", "repay", "send", "loanRepay"} => TakesInput(l)
  BY AmountsAre DEF Ours, TakesInput
<1>3. CASE l.kind = "loan"
  <2>1. d = GiveAgent([draft EXCEPT !.owed = @ + Due(l.output).amount], l.output)
    BY <1>3 DEF Outcomes
  <2>2. l.input = NoAmount
    BY <1>3 DEF Ours
  <2> QED
    BY <1>3, <2>1, <2>2, LoanPasses
<1>4. CASE l.kind = "loanRepay"
  <2>1. AgentHas(Due(l.input))
        /\ d = TakeAgent([draft EXCEPT !.owed = @ - Due(l.input).amount], Due(l.input))
    BY <1>4 DEF Outcomes
  <2> QED
    BY <1>4, <2>1, LoanRepayPasses
<1>5. CASE l.kind = "swap"
  <2>1. d \in Swapped(l)
    BY <1>5 DEF Outcomes
  <2> QED
    BY <1>1, <1>2, <1>5, <2>1, SwapPasses
<1>6. CASE l.kind = "supply"
  <2>1. d \in Supplied(l)
    BY <1>6 DEF Outcomes
  <2> QED
    BY <1>1, <1>2, <1>6, <2>1, SupplyPasses
<1>7. CASE l.kind = "withdraw"
  <2>1. d \in Withdrawn(l)
    BY <1>7 DEF Outcomes
  <2> QED
    BY <1>1, <1>7, <2>1, WithdrawPasses
<1>8. CASE l.kind = "pull"
  <2>1. d \in Pulled(l) /\ l.input = NoAmount
    BY <1>8 DEF Outcomes, Ours
  <2> QED
    BY <1>8, <2>1, PullPasses
<1>9. CASE l.kind = "borrow"
  <2>1. d \in Borrowed(l) /\ l.input = NoAmount /\ l.output # NoAmount
    BY <1>9 DEF Outcomes, Ours
  <2> QED
    BY <1>9, <2>1, BorrowPasses
<1>10. CASE l.kind = "repay"
  <2>1. d \in Repaid(l)
    BY <1>10 DEF Outcomes
  <2> QED
    BY <1>1, <1>2, <1>10, <2>1, RepayPasses
<1>11. CASE l.kind = "send"
  <2>1. d = TakeAgent([draft EXCEPT !.position =
                  Supply(@, Underlying(l.input.token), Taken(l).amount)], Taken(l))
    BY <1>11 DEF Outcomes
  <2> QED
    BY <1>1, <1>2, <1>11, <2>1, SendPasses
<1>12. CASE l.kind = "wrap"
  <2>1. d = GiveAgent(TakeAgent(draft, l.input), l.output)
    BY <1>12 DEF Outcomes
  <2> QED
    BY <1>1, <1>2, <1>12, <2>1, WrapPasses
<1>13. l.kind \in LogicKinds
  BY DEF Ours
<1> QED
  BY <1>3, <1>4, <1>5, <1>6, <1>7, <1>8, <1>9, <1>10, <1>11, <1>12, <1>13 DEF LogicKinds

-----------------------------------------------------------------------------
(* The lists that the operations are built from.                             *)

LEMMA CoversItself ==
    ASSUME NEW a
    PROVE  /\ Covers(a, NoAmount)
           /\ Underlies(a) => Covers(a, a) /\ a # NoAmount
  BY AmountsAre DEF Covers, Underlies

\* How the agent stands once a has been swapped into b, if need be.
LEMMA SwappedRuns ==
    ASSUME NEW swaps, NEW a, NEW b, IsSwapped(swaps, a, b), NEW n
    PROVE  Runs(swaps, Standing(a, n), Standing(IF swaps # <<>> THEN NoAmount ELSE b, n))
<1>1. CASE swaps = <<>> /\ a = b
  BY <1>1, RunsNothing
<1>2. CASE \E q : swaps = <<SwapToken(q)>> /\ q.input = a /\ q.output = b
                  /\ IsQuote(q, a.token, b.token)
  <2>1. PICK q : swaps = <<SwapToken(q)>> /\ q.input = a /\ q.output = b
                 /\ IsQuote(q, a.token, b.token)
    BY <1>2
  <2>2. Underlies(q.input) /\ Underlies(q.output) /\ q.slippage \in 0..BPS_BASE
    BY <2>1 DEF IsSwapped, IsQuote
  <2> DEFINE k == SwapToken(q)
  <2>3. Safe(k, Standing(a, n), Standing(NoAmount, n))
    BY <2>1, <2>2, SwapSafe
  <2>4. swaps = <<k>> /\ swaps # <<>>
    BY <2>1
  <2> HIDE DEF k
  <2> QED
    BY <2>3, <2>4, RunsOne
<1> QED
  BY <1>1, <1>2 DEF IsSwapped

\* A supply or a repayment of what is there after the swap.
LEMMA StepRuns ==
    ASSUME NEW swaps, NEW a, NEW b, IsSwapped(swaps, a, b), NEW n, NEW l,
           Safe(l, Standing(IF swaps # <<>> THEN NoAmount ELSE b, n), Standing(NoAmount, n))
    PROVE  Runs(swaps \o <<l>>, Standing(a, n), Standing(NoAmount, n))
<1>1. Runs(swaps, Standing(a, n), Standing(IF swaps # <<>> THEN NoAmount ELSE b, n))
  BY SwappedRuns
<1>2. Runs(<<l>>, Standing(IF swaps # <<>> THEN NoAmount ELSE b, n), Standing(NoAmount, n))
  BY RunsOne
<1> QED
  BY <1>1, <1>2, RunsOn

LEMMA SupplyRuns ==
    ASSUME NEW swaps, NEW a, NEW b, IsSwapped(swaps, a, b), NEW n
    PROVE  Runs(swaps \o <<SupplyLogic(b, swaps # <<>>)>>, Standing(a, n), Standing(NoAmount, n))
<1> DEFINE bps == swaps # <<>>
<1>1. bps \in BOOLEAN /\ Underlies(b)
  BY DEF IsSwapped
<1>2. Safe(SupplyLogic(b, bps), Standing(IF bps THEN NoAmount ELSE b, n), Standing(NoAmount, n))
  <2> HIDE DEF bps
  <2> QED
    BY <1>1, MarketSafe
<1> QED
  BY <1>2, StepRuns

LEMMA RepayRuns ==
    ASSUME NEW swaps, NEW a, NEW b, IsSwapped(swaps, a, b), IsDebt(b.token), NEW n
    PROVE  Runs(swaps \o <<RepayLogic(b, swaps # <<>>)>>, Standing(a, n), Standing(NoAmount, n))
<1> DEFINE bps == swaps # <<>>
<1>1. bps \in BOOLEAN /\ Underlies(b)
  BY DEF IsSwapped
<1>2. Safe(RepayLogic(b, bps), Standing(IF bps THEN NoAmount ELSE b, n), Standing(NoAmount, n))
  <2> HIDE DEF bps
  <2> QED
    BY <1>1, MarketSafe
<1> QED
  BY <1>2, StepRuns

LEMMA LoanRuns ==
    ASSUME NEW loan, Underlies(loan)
    PROVE  Runs(<<Loan(loan)>>, Nothing, Standing(loan, Due(loan).amount))
  BY LoanSafe, RunsOne

LEMMA ReturnFundsRuns ==
    ASSUME NEW a, Underlies(a), NEW n
    PROVE  Runs(ReturnFunds(a), Standing(NoAmount, n), Standing(NoAmount, n))
<1>1. CASE a.token \in AssetTokenized
  <2>1. Safe(SendToken(Receipt(a)), Standing(NoAmount, n), Standing(NoAmount, n))
    <3>1. TRUE \in BOOLEAN
      OBVIOUS
    <3> QED
      BY <3>1, MarketSafe
  <2> QED
    BY <1>1, <2>1, RunsOne DEF ReturnFunds
<1>2. CASE a.token \notin AssetTokenized
  BY <1>2, RunsNothing DEF ReturnFunds
<1> QED
  BY <1>1, <1>2

\* What is borrowed repays the loan.
LEMMA BorrowedRuns ==
    ASSUME NEW loan, Underlies(loan)
    PROVE  Runs(<<BorrowLogic(Repays(loan)), LoanRepay(loan)>>,
                Standing(NoAmount, Due(loan).amount), Nothing)
<1> DEFINE n == Due(loan).amount
           k == BorrowLogic(Repays(loan))
           l == LoanRepay(loan)
<1>1. Repays(loan) = Due(loan) /\ Underlies(Due(loan))
  BY FeesAgree
<1>2. Safe(BorrowLogic(Due(loan)), Standing(NoAmount, n), Standing(Due(loan), n))
  <2>1. TRUE \in BOOLEAN
    OBVIOUS
  <2> QED
    BY <1>1, <2>1, MarketSafe
<1>3. Safe(k, Standing(NoAmount, n), Standing(Due(loan), n)) /\ Safe(l, Standing(Due(loan), n), Nothing)
  BY <1>1, <1>2, LoanRepaySafe
<1> HIDE DEF k, l
<1>4. Runs(<<k, l>>, Standing(NoAmount, n), Nothing)
  BY <1>3, RunsOne, TwoRun
<1> QED
  BY <1>4 DEF k, l

\* What is withdrawn repays the loan, even with the wei missing that are set aside.
LEMMA WithdrawnRuns ==
    ASSUME NEW loan, Underlies(loan), NEW out, Underlies(out), Underlies(Arriving(out)),
           Covers(Arriving(out), Due(loan))
    PROVE  Runs(<<WithdrawLogic(out, out.token \in AssetTokenized), LoanRepay(loan)>>,
                Standing(Claimed(out), Due(loan).amount), Nothing)
<1> DEFINE n == Due(loan).amount
           bps == out.token \in AssetTokenized
           k == WithdrawLogic(out, bps)
           l == LoanRepay(loan)
<1>1. bps => out.amount >= SetAside
  BY DEF Arriving, Short, TokenAmount, Underlies, SetAside
<1>2. bps \in BOOLEAN
  OBVIOUS
<1>3. out.token \in AssetTokenized => bps /\ out.amount >= SetAside
  BY <1>1
<1>4. Safe(k, Standing(Claimed(out), n), Standing(Arriving(out), n))
  <2> HIDE DEF bps
  <2> QED
    BY <1>2, <1>3, WithdrawSafe
<1>5. Safe(l, Standing(Due(loan), n), Nothing)
  BY LoanRepaySafe
<1> HIDE DEF k, l
<1>6. Covers(Claimed(out), Claimed(out)) \/ Claimed(out) = NoAmount
  <2>1. CASE out.token \in AssetTokenized
    <3>1. Claimed(out) = Short(Receipt(out)) /\ Short(Receipt(out)).amount = out.amount - SetAside
      BY <2>1, AmountsAre DEF Claimed, Short, TokenAmount
    <3>2. out.amount - SetAside \in Nat
      BY <1>1, <2>1 DEF Underlies, SetAside
    <3> QED
      BY <3>1, <3>2 DEF Covers
  <2>2. CASE out.token \notin AssetTokenized
    BY <2>2 DEF Claimed
  <2> QED
    BY <2>1, <2>2
<1>7. Covers(Claimed(out), Claimed(out))
  BY <1>6, CoversItself
<1>8. Safe(k, Standing(Claimed(out), n), Standing(Due(loan), n))
  BY <1>4, <1>7, SafeLess
<1>9. Runs(<<k, l>>, Standing(Claimed(out), n), Nothing)
  BY <1>5, <1>8, RunsOne, TwoRun
<1> QED
  BY <1>9 DEF k, l

\* The receipts pulled in for a withdrawal.
LEMMA ClaimRuns ==
    ASSUME NEW out, Underlies(out), Underlies(Arriving(out)), out.token \in AssetTokenized, NEW n
    PROVE  Runs(<<PullToken(Receipt(out))>>, Standing(NoAmount, n), Standing(Claimed(out), n))
<1>1. IsAmount(Receipt(out)) /\ Receipt(out) # NoAmount /\ Receipt(out).amount = out.amount
  BY AmountsAre
<1>2. Receipt(out).amount >= SetAside
  BY <1>1 DEF Arriving, Short, TokenAmount, Underlies, SetAside
<1>3. Safe(PullToken(Receipt(out)), Standing(NoAmount, n), Standing(Short(Receipt(out)), n))
  BY <1>1, <1>2, PullSafe
<1> QED
  BY <1>3, RunsOne DEF Claimed

-----------------------------------------------------------------------------
(* Every operation but close builds a list that runs.                        *)

LEMMA CollateralSwapRuns ==
    ASSUME NEW logics, SwapsCollateral(logics)
    PROVE  Runs(logics, Nothing, Nothing)
<1>1. PICK out, loan, swap :
        /\ Underlies(out) /\ Underlies(Arriving(out)) /\ loan = Loans(Arriving(out))
        /\ IsQuote(swap, loan.token, swap.output.token) /\ swap.input = loan
        /\ logics = <<Loan(loan), SwapToken(swap), SupplyLogic(swap.output, TRUE)>>
                    \o Exchange(swap.output, out)
                    \o <<WithdrawLogic(out, out.token \in AssetTokenized), LoanRepay(loan)>>
  BY DEF SwapsCollateral
<1> DEFINE given == swap.output
           n == Due(loan).amount
           first == <<Loan(loan), SwapToken(swap), SupplyLogic(given, TRUE)>>
           last == <<WithdrawLogic(out, out.token \in AssetTokenized), LoanRepay(loan)>>
<1>2. Underlies(loan) /\ Covers(Arriving(out), Due(loan))
  BY <1>1, ReversedIsDue
<1>3. Underlies(swap.input) /\ Underlies(given) /\ swap.slippage \in 0..BPS_BASE
  BY <1>1 DEF IsQuote
<1>4. Runs(<<SwapToken(swap)>>, Standing(loan, n), Standing(NoAmount, n))
  <2>1. Safe(SwapToken(swap), Standing(swap.input, n), Standing(NoAmount, n))
    BY <1>3, SwapSafe
  <2> QED
    BY <1>1, <2>1, RunsOne
<1> HIDE DEF given
<1>5. Runs(<<SupplyLogic(given, TRUE)>>, Standing(NoAmount, n), Standing(NoAmount, n))
  <2> DEFINE yes == TRUE
  <2>1. yes \in BOOLEAN /\ (IF yes THEN NoAmount ELSE given) = NoAmount
    OBVIOUS
  <2> HIDE DEF yes
  <2>2. Safe(SupplyLogic(given, yes), Standing(IF yes THEN NoAmount ELSE given, n), Standing(NoAmount, n))
    BY <1>3, <2>1, MarketSafe
  <2>3. Runs(<<SupplyLogic(given, yes)>>, Standing(NoAmount, n), Standing(NoAmount, n))
    BY <2>1, <2>2, RunsOne
  <2> QED
    BY <2>3 DEF yes
<1>6. Runs(first, Nothing, Standing(NoAmount, n))
  <2>1. Runs(<<Loan(loan)>>, Nothing, Standing(loan, n))
    BY <1>2, LoanRuns
  <2> DEFINE k == Loan(loan)
             l == SwapToken(swap)
             m == SupplyLogic(given, TRUE)
  <2> HIDE DEF k, l, m
  <2>2. Runs(<<k, l, m>>, Nothing, Standing(NoAmount, n))
    BY <1>4, <1>5, <2>1, ThreeRun DEF k, l, m
  <2> QED
    BY <2>2 DEF k, l, m
<1>7. Runs(Exchange(given, out), Standing(NoAmount, n), Standing(Claimed(out), n))
  <2>1. CASE out.token \in AssetTokenized
    <3> DEFINE k == SendToken(Receipt(given))
               l == PullToken(Receipt(out))
    <3>1. Safe(k, Standing(NoAmount, n), Standing(NoAmount, n))
      <4>1. TRUE \in BOOLEAN
        OBVIOUS
      <4> QED
        BY <1>3, <4>1, MarketSafe
    <3>2. Runs(<<l>>, Standing(NoAmount, n), Standing(Claimed(out), n))
      BY <1>1, <2>1, ClaimRuns
    <3> HIDE DEF k, l
    <3>3. Runs(<<k, l>>, Standing(NoAmount, n), Standing(Claimed(out), n))
      BY <3>1, <3>2, RunsOne, TwoRun
    <3> QED
      BY <2>1, <3>3 DEF Exchange, k, l
  <2>2. CASE out.token \notin AssetTokenized
    BY <2>2, RunsNothing DEF Exchange, Claimed
  <2> QED
    BY <2>1, <2>2
<1>8. Runs(last, Standing(Claimed(out), n), Nothing)
  BY <1>1, <1>2, WithdrawnRuns
<1>9. logics = first \o Exchange(given, out) \o last
  BY <1>1 DEF given
<1> HIDE DEF first, last
<1>10. Runs(first \o Exchange(given, out) \o last, Nothing, Nothing)
  BY <1>6, <1>7, <1>8, RunsOn
<1> QED
  BY <1>9, <1>10

LEMMA DebtSwapRuns ==
    ASSUME NEW logics, SwapsDebt(logics)
    PROVE  Runs(logics, Nothing, Nothing)
<1>1. PICK swap :
        /\ IsQuote(swap, swap.input.token, swap.output.token) /\ IsDebt(swap.output.token)
        /\ logics = <<Loan(swap.input), SwapToken(swap), RepayLogic(swap.output, TRUE),
                      BorrowLogic(Repays(swap.input)), LoanRepay(swap.input)>>
  BY DEF SwapsDebt
<1> DEFINE loan == swap.input
           given == swap.output
           n == Due(loan).amount
           k == Loan(loan)
           l == SwapToken(swap)
           m == RepayLogic(given, TRUE)
           x == BorrowLogic(Repays(loan))
           y == LoanRepay(loan)
<1>2. Underlies(loan) /\ Underlies(given) /\ swap.slippage \in 0..BPS_BASE
  BY <1>1 DEF IsQuote
<1>3. Runs(<<k>>, Nothing, Standing(loan, n)) /\ Runs(<<l>>, Standing(loan, n), Standing(NoAmount, n))
  BY <1>2, LoanRuns, SwapSafe, RunsOne
<1>4. Runs(<<m>>, Standing(NoAmount, n), Standing(NoAmount, n))
  <2> DEFINE yes == TRUE
  <2>1. yes \in BOOLEAN /\ (IF yes THEN NoAmount ELSE given) = NoAmount
    OBVIOUS
  <2> HIDE DEF yes, n
  <2>2. Safe(RepayLogic(given, yes), Standing(IF yes THEN NoAmount ELSE given, n), Standing(NoAmount, n))
    BY <1>1, <1>2, <2>1, MarketSafe
  <2>3. Runs(<<RepayLogic(given, yes)>>, Standing(NoAmount, n), Standing(NoAmount, n))
    BY <2>1, <2>2, RunsOne
  <2> QED
    BY <2>3 DEF yes
<1>5. Runs(<<x, y>>, Standing(NoAmount, n), Nothing)
  BY <1>2, BorrowedRuns
<1>6. logics = <<k, l, m, x, y>>
  BY <1>1
<1> HIDE DEF k, l, m, x, y, n, loan, given
<1>7. logics = <<k, l, m>> \o <<x, y>>
  BY <1>6, FiveInTwo
<1>8. Runs(<<k, l, m>>, Nothing, Standing(NoAmount, n))
  BY <1>3, <1>4, ThreeRun
<1>9. Runs(<<k, l, m>> \o <<x, y>>, Nothing, Nothing)
  BY <1>5, <1>8, RunsOn
<1> QED
  BY <1>7, <1>9

LEMMA LeverageRuns ==
    ASSUME NEW logics, NEW from, NEW to, LeverageList(logics, from, to)
    PROVE  Runs(logics, Nothing, Nothing)
<1>1. PICK loan, swaps, a : /\ IsSwapped(swaps, loan, a)
                            /\ logics = LeverageLogics(loan, swaps, a, Repays(loan))
  BY DEF LeverageList
<1> DEFINE n == Due(loan).amount
           bps == swaps # <<>>
           first == <<Loan(loan)>>
           supply == <<SupplyLogic(a, bps)>>
           last == <<BorrowLogic(Repays(loan)), LoanRepay(loan)>>
           after == Standing(IF bps THEN NoAmount ELSE a, n)
<1>2. Underlies(loan) /\ Underlies(a) /\ bps \in BOOLEAN
  BY <1>1 DEF IsSwapped
<1>3. Runs(first, Nothing, Standing(loan, n)) /\ Runs(last, Standing(NoAmount, n), Nothing)
  BY <1>2, LoanRuns, BorrowedRuns
<1>4. Runs(swaps, Standing(loan, n), after)
  BY <1>1, SwappedRuns
<1>5. logics = first \o swaps \o supply \o ReturnFunds(a) \o last
  BY <1>1, LeverageParts
<1> HIDE DEF bps, n
<1>6. Runs(supply, after, Standing(NoAmount, n))
  BY <1>2, MarketSafe, RunsOne
<1>7. Runs(ReturnFunds(a), Standing(NoAmount, n), Standing(NoAmount, n))
  BY <1>2, ReturnFundsRuns
<1> HIDE DEF first, supply, last, after
<1>8. Runs(first \o swaps \o supply, Nothing, Standing(NoAmount, n))
  BY <1>3, <1>4, <1>6, RunsOn
<1>9. Runs(first \o swaps \o supply \o ReturnFunds(a), Nothing, Standing(NoAmount, n))
  BY <1>7, <1>8, RunsOn
<1>10. Runs(first \o swaps \o supply \o ReturnFunds(a) \o last, Nothing, Nothing)
  BY <1>3, <1>9, RunsOn
<1> QED
  BY <1>5, <1>10

LEMMA DeleverageRuns ==
    ASSUME NEW logics, Deleverages(logics)
    PROVE  Runs(logics, Nothing, Nothing)
<1>1. PICK loan, swaps, a, out :
        /\ IsSwapped(swaps, loan, a) /\ IsDebt(a.token)
        /\ Underlies(out) /\ Arriving(out) = Due(loan)
        /\ logics = <<Loan(loan)>> \o swaps \o <<RepayLogic(a, swaps # <<>>)>> \o AddFunds(out)
                    \o <<WithdrawLogic(out, out.token \in AssetTokenized), LoanRepay(loan)>>
  BY DEF Deleverages
<1> DEFINE n == Due(loan).amount
           bps == swaps # <<>>
           first == <<Loan(loan)>>
           repay == <<RepayLogic(a, bps)>>
           last == <<WithdrawLogic(out, out.token \in AssetTokenized), LoanRepay(loan)>>
           after == Standing(IF bps THEN NoAmount ELSE a, n)
<1>2. Underlies(loan) /\ Underlies(a) /\ bps \in BOOLEAN
  BY <1>1 DEF IsSwapped
<1>3. Underlies(Arriving(out)) /\ Covers(Arriving(out), Due(loan))
  BY <1>1, <1>2, FeesAgree, CoversItself
<1>4. Runs(first, Nothing, Standing(loan, n)) /\ Runs(swaps, Standing(loan, n), after)
  BY <1>1, <1>2, LoanRuns, SwappedRuns
<1>5. Runs(last, Standing(Claimed(out), n), Nothing)
  BY <1>1, <1>2, <1>3, WithdrawnRuns
<1>6. Runs(AddFunds(out), Standing(NoAmount, n), Standing(Claimed(out), n))
  <2> HIDE DEF n
  <2>1. CASE out.token \in AssetTokenized
    BY <1>1, <1>3, <2>1, ClaimRuns DEF AddFunds
  <2>2. CASE out.token \notin AssetTokenized
    BY <2>2, RunsNothing DEF AddFunds, Claimed
  <2> QED
    BY <2>1, <2>2
<1>7. logics = first \o swaps \o repay \o AddFunds(out) \o last
  BY <1>1
<1> HIDE DEF bps, n
<1>8. Runs(repay, after, Standing(NoAmount, n))
  BY <1>1, <1>2, MarketSafe, RunsOne
<1> HIDE DEF first, repay, last, after
<1>9. Runs(first \o swaps \o repay, Nothing, Standing(NoAmount, n))
  BY <1>4, <1>8, RunsOn
<1>10. Runs(first \o swaps \o repay \o AddFunds(out), Nothing, Standing(Claimed(out), n))
  BY <1>6, <1>9, RunsOn
<1>11. Runs(first \o swaps \o repay \o AddFunds(out) \o last, Nothing, Nothing)
  BY <1>5, <1>10, RunsOn
<1> QED
  BY <1>7, <1>11

LEMMA ZapSupplyRuns ==
    ASSUME NEW logics, NEW src, NEW amount, SuppliesWith(logics, src, amount)
    PROVE  Runs(logics, Standing(TokenAmount(src, amount), 0), Nothing)
  BY SupplyRuns DEF SuppliesWith, Nothing

LEMMA ZapRepayRuns ==
    ASSUME NEW o, NEW src, NEW dest, NEW told, RepaysWith(o, src, dest, told)
    PROVE  Runs(o.logics,
                Standing(TokenAmount(dest, IF Same(src, dest) THEN told ELSE o.destAmount), 0), Nothing)
<1>1. PICK swaps, a, b :
        /\ IsSwapped(swaps, a, b) /\ a.token = dest /\ IsDebt(b.token)
        /\ o.logics = swaps \o <<RepayLogic(b, swaps # <<>>)>>
        /\ a.amount = IF Same(src, dest) THEN told ELSE o.destAmount
  BY DEF RepaysWith
<1>2. a = TokenAmount(dest, IF Same(src, dest) THEN told ELSE o.destAmount)
  BY <1>1 DEF IsSwapped, Underlies
<1>3. Runs(o.logics, Standing(a, 0), Standing(NoAmount, 0))
  BY <1>1, RepayRuns
<1> QED
  BY <1>2, <1>3 DEF Nothing

LEMMA StepThenSwapRuns ==
    ASSUME NEW o, NEW l, NEW out, NEW sure, NEW dest, StepThenSwap(o, l, out, sure, dest),
           NEW a, Covers(a, a), NEW n, Safe(l, Standing(a, n), Standing(sure, n))
    PROVE  Runs(o.logics, Standing(a, n), Standing(NoAmount, n))
<1>1. PICK swaps, c, d :
        /\ IsSwapped(swaps, c, d) /\ (swaps # <<>> => Covers(sure, c))
        /\ o.logics = <<l>> \o swaps
  BY DEF StepThenSwap
<1>2. CASE swaps = <<>>
  <2>1. Safe(l, Standing(a, n), Standing(NoAmount, n))
    BY CoversItself, SafeLess
  <2>2. Runs(<<l>> \o <<>>, Standing(a, n), Standing(NoAmount, n))
    BY <2>1, RunsOne, RunsNothing, RunsOn
  <2> QED
    BY <1>1, <1>2, <2>2
<1>3. CASE swaps # <<>>
  <2>1. Safe(l, Standing(a, n), Standing(c, n))
    BY <1>1, <1>3, SafeLess
  <2>2. Runs(swaps, Standing(c, n), Standing(NoAmount, n))
    BY <1>1, <1>3, SwappedRuns
  <2> QED
    BY <1>1, <2>1, <2>2, RunsOne, RunsOn
<1> QED
  BY <1>2, <1>3

LEMMA ZapBorrowRuns ==
    ASSUME NEW o, NEW dest, BorrowsWith(o, dest)
    PROVE  Runs(o.logics, Nothing, Nothing)
<1>1. PICK out : StepThenSwap(o, BorrowLogic(out), out, out, dest)
  BY DEF BorrowsWith
<1>2. Underlies(out)
  BY <1>1 DEF StepThenSwap
<1>3. Safe(BorrowLogic(out), Standing(NoAmount, 0), Standing(out, 0))
  <2>1. TRUE \in BOOLEAN
    OBVIOUS
  <2> QED
    BY <1>2, <2>1, MarketSafe
<1> QED
  BY <1>1, <1>3, CoversItself, StepThenSwapRuns DEF Nothing

LEMMA ZapWithdrawRuns ==
    ASSUME NEW o, NEW src \in Tokens, NEW amount, NEW dest, WithdrawsWith(o, src, amount, dest)
    PROVE  Runs(o.logics, Standing(IF src \in AssetTokenized
                                   THEN Short(TokenAmount(ProtocolToken[src], amount))
                                   ELSE NoAmount, 0), Nothing)
           /\ (src \in AssetTokenized => amount \in Nat /\ amount >= SetAside)
<1>1. PICK out :
        /\ StepThenSwap(o, WithdrawLogic(out, out.token \in AssetTokenized), out, Arriving(out), dest)
        /\ out.amount = amount /\ Wrapped[out.token] = Wrapped[src]
  BY DEF WithdrawsWith
<1> DEFINE bps == out.token \in AssetTokenized
<1>2. Underlies(out) /\ Underlies(Arriving(out)) /\ bps \in BOOLEAN
  BY <1>1 DEF StepThenSwap
<1>3. /\ out.token \in AssetTokenized <=> src \in AssetTokenized
      /\ ProtocolToken[out.token] = ProtocolToken[src]
  BY <1>1, <1>2, ReceiptAssumption DEF Underlies
<1>4. out.token \in AssetTokenized => bps /\ out.amount >= SetAside
  BY <1>2 DEF Arriving, Short, TokenAmount, Underlies, SetAside
<1>5. Safe(WithdrawLogic(out, bps), Standing(Claimed(out), 0), Standing(Arriving(out), 0))
  <2> HIDE DEF bps
  <2> QED
    BY <1>2, <1>4, WithdrawSafe
<1>6. Covers(Claimed(out), Claimed(out))
  <2>1. CASE out.token \in AssetTokenized
    <3>1. Claimed(out) = Short(Receipt(out)) /\ Short(Receipt(out)).amount = out.amount - SetAside
      BY <2>1, AmountsAre, <1>2 DEF Claimed, Short, TokenAmount
    <3>2. out.amount - SetAside \in Nat
      BY <1>2, <1>4, <2>1 DEF Underlies, SetAside
    <3> QED
      BY <3>1, <3>2 DEF Covers
  <2>2. CASE out.token \notin AssetTokenized
    BY <2>2, CoversItself DEF Claimed
  <2> QED
    BY <2>1, <2>2
<1>7. Runs(o.logics, Standing(Claimed(out), 0), Nothing)
  BY <1>1, <1>5, <1>6, StepThenSwapRuns DEF Nothing
<1>8. Receipt(out) = TokenAmount(ProtocolToken[src], amount)
  BY <1>1, <1>3 DEF Receipt
<1> QED
  BY <1>1, <1>2, <1>3, <1>4, <1>7, <1>8 DEF Claimed, Underlies

\* A loan, swapped if need be, is counted on for nothing but its repayment.
LEMMA StatedRuns ==
    ASSUME NEW loan, Underlies(loan), NEW a, Underlies(a), NEW more, StatedMore(more, loan, a), NEW b
    PROVE  Runs(<<Loan(loan)>> \o more, Standing(b, 0), Standing(NoAmount, Due(loan).amount))
<1> DEFINE n == Due(loan).amount
           l == Loan(loan)
<1>1. Safe(l, Standing(NoAmount, 0), Standing(loan, n))
  BY LoanSafe DEF Nothing
<1>2. Covers(b, NoAmount) /\ Covers(loan, loan) /\ Covers(loan, NoAmount)
  BY CoversItself
<1> HIDE DEF l, n
<1>3. Safe(l, Standing(b, 0), Standing(loan, n)) /\ Safe(l, Standing(b, 0), Standing(NoAmount, n))
  BY <1>1, <1>2, SafeLess
<1>4. CASE more = <<>>
  <2>1. Runs(<<l>> \o <<>>, Standing(b, 0), Standing(NoAmount, n))
    BY <1>3, RunsOne, RunsNothing, RunsOn
  <2> QED
    BY <1>4, <2>1 DEF l, n
<1>5. CASE more # <<>>
  <2>1. PICK output, slippage :
          /\ more = <<Logic("swap", loan, output, FALSE, slippage)>>
          /\ Underlies(output) /\ slippage \in 0..BPS_BASE
    BY <1>5 DEF StatedMore
  <2> DEFINE q == [input |-> loan, slippage |-> slippage, output |-> output]
             k == SwapToken(q)
  <2>2. q.input = loan /\ q.output = output /\ q.slippage = slippage
        /\ more = <<k>>
    BY <2>1 DEF SwapToken
  <2> HIDE DEF q
  <2>3. Safe(k, Standing(loan, n), Standing(NoAmount, n))
    BY <2>1, <2>2, SwapSafe
  <2> HIDE DEF k
  <2>4. Runs(<<l>> \o <<k>>, Standing(b, 0), Standing(NoAmount, n))
    BY <1>3, <2>3, RunsOne, RunsOn
  <2> QED
    BY <2>2, <2>4 DEF l, n
<1> QED
  BY <1>4, <1>5

LEMMA ZappedSupplySafe ==
    ASSUME NEW a, Underlies(a), NEW zapped \in Nat, NEW n
    PROVE  Safe(ZappedSupply(a, zapped), Standing(NoAmount, n), Standing(NoAmount, n))
<1> DEFINE l == ZappedSupply(a, zapped)
           b == TokenAmount(a.token, a.amount + zapped)
<1>1. /\ l.kind = "supply" /\ l.input = b /\ l.output = Receipt(a) /\ l.bps = TRUE
  BY DEF ZappedSupply, Logic
<1>2. Underlies(b) /\ b.token = a.token
  BY DEF Underlies, TokenAmount
<1>3. Receipt(a).token = ProtocolToken[a.token]
  BY DEF Receipt, TokenAmount
<1> HIDE DEF l, b
<1>4. IsAmount(b) /\ IsAmount(Receipt(a))
  BY <1>2, AmountsAre
<1>5. Ours(l)
  BY <1>1, <1>2, <1>3, <1>4 DEF Ours, LogicKinds
<1>6. Safe(l, Standing(NoAmount, n), Standing(NoAmount, n))
  BY <1>1, <1>5, SinkSafe
<1> QED
  BY <1>6 DEF l

\* The leverage a zap has joined needs no more than the loan it takes.
LEMMA ZappedRuns ==
    ASSUME NEW logics, NEW from, NEW to, LeverageList(logics, from, to), NEW zapped \in Nat, NEW b
    PROVE  Runs(AddZap(logics, PlaceOf(from, to), zapped), Standing(b, 0), Nothing)
<1>1. PICK loan, swaps, a : /\ IsSwapped(swaps, loan, a) /\ loan.token = from /\ a.token = to
                            /\ swaps # <<>> => from # to
                            /\ logics = LeverageLogics(loan, swaps, a, Repays(loan))
  BY DEF LeverageList
<1>0. PlaceOf(from, to) = Place(swaps)
  BY <1>1, PlaceByTokens
<1>2. IsZapped(AddZap(logics, PlaceOf(from, to), zapped), loan, swaps, a, zapped)
  BY <1>0, <1>1, ZappedParts
<1>3. PICK more : /\ StatedMore(more, loan, a)
                  /\ AddZap(logics, PlaceOf(from, to), zapped)
                       = <<Loan(loan)>> \o more \o <<ZappedSupply(a, zapped)>> \o ReturnFunds(a)
                         \o <<BorrowLogic(Repays(loan)), LoanRepay(loan)>>
  BY <1>2 DEF IsZapped
<1> DEFINE n == Due(loan).amount
           first == <<Loan(loan)>> \o more
           supply == <<ZappedSupply(a, zapped)>>
           last == <<BorrowLogic(Repays(loan)), LoanRepay(loan)>>
<1>4. Underlies(loan) /\ Underlies(a)
  BY <1>1 DEF IsSwapped
<1>5. Runs(first, Standing(b, 0), Standing(NoAmount, n))
  BY <1>3, <1>4, StatedRuns
<1>6. Runs(supply, Standing(NoAmount, n), Standing(NoAmount, n))
  BY <1>4, ZappedSupplySafe, RunsOne
<1>7. Runs(ReturnFunds(a), Standing(NoAmount, n), Standing(NoAmount, n))
      /\ Runs(last, Standing(NoAmount, n), Nothing)
  BY <1>4, ReturnFundsRuns, BorrowedRuns
<1> HIDE DEF first, supply, last
<1>8. Runs(first \o supply \o ReturnFunds(a), Standing(b, 0), Standing(NoAmount, n))
  BY <1>5, <1>6, <1>7, RunsOn
<1>9. Runs(first \o supply \o ReturnFunds(a) \o last, Standing(b, 0), Nothing)
  BY <1>7, <1>8, RunsOn
<1> QED
  BY <1>3, <1>9 DEF first, supply, last

LEMMA OpenRuns ==
    ASSUME NEW logics, logics # <<>>, NEW zap, NEW zapAmount, OpensWith(logics, zap, zapAmount)
    PROVE  Runs(logics, Standing(TokenAmount(zap, zapAmount), 0), Nothing)
<1>1. PICK swaps, a, b :
        /\ IsSwapped(swaps, a, b) /\ a = TokenAmount(zap, zapAmount)
        /\ \/ logics = swaps
           \/ \E leverage, from : /\ LeverageList(leverage, from, b.token)
                                  /\ logics = swaps \o AddZap(leverage, PlaceOf(from, b.token), b.amount)
  BY DEF OpensWith
<1>2. Runs(swaps, Standing(a, 0), Standing(IF swaps # <<>> THEN NoAmount ELSE b, 0))
  BY <1>1, SwappedRuns
<1>3. CASE logics = swaps
  BY <1>1, <1>2, <1>3 DEF Nothing
<1>4. CASE \E leverage, from : /\ LeverageList(leverage, from, b.token)
                               /\ logics = swaps \o AddZap(leverage, PlaceOf(from, b.token), b.amount)
  <2>1. PICK leverage, from : /\ LeverageList(leverage, from, b.token)
                              /\ logics = swaps \o AddZap(leverage, PlaceOf(from, b.token), b.amount)
    BY <1>4
  <2>2. b.amount \in Nat
    BY <1>1 DEF IsSwapped, Underlies
  <2>3. Runs(AddZap(leverage, PlaceOf(from, b.token), b.amount), Standing(IF swaps # <<>> THEN NoAmount ELSE b, 0), Nothing)
    BY <2>1, <2>2, ZappedRuns
  <2> QED
    BY <1>1, <1>2, <2>1, <2>3, RunsOn
<1> QED
  BY <1>1, <1>3, <1>4

-----------------------------------------------------------------------------
(* Every plan serves what it told.                                           *)

\* What the agent surely has of the amount told when the list starts: a receipt token
\* is pulled in first, and a few wei of it may go missing.
AtHand(told) == IF told.token \in ReceiptTokens THEN Short(told) ELSE told
Served(s, told) ==
    /\ Runs(s, Standing(AtHand(told), 0), Nothing)
    /\ told = NoAmount \/ IsAmount(told)
    /\ told.token \in ReceiptTokens => told.amount >= SetAside
Serves(o, told) == o.error = "none" /\ o.logics # <<>> => Served(o.logics, told)

LEMMA NothingServed ==
    ASSUME NEW s, Runs(s, Nothing, Nothing)
    PROVE  Served(s, NoAmount)
<1>1. NoAmount.token \notin ReceiptTokens
  BY NoneIsNoToken DEF NoAmount, TokenAmount, AgentTokens
<1> QED
  BY <1>1 DEF Served, AtHand, Nothing

LEMMA AmountServed ==
    ASSUME NEW s, NEW a, Underlies(a), Runs(s, Standing(a, 0), Nothing)
    PROVE  Served(s, a)
<1>1. a.token \notin ReceiptTokens
  BY ReceiptAssumption DEF Underlies, ReceiptTokens
<1> QED
  BY <1>1, AmountsAre DEF Served, AtHand

\* The lists of the operations with a flash loan, and of zapBorrow.
LEMMA LoansServed ==
    ASSUME NEW o
    PROVE  /\ IsCollateralSwap(o) => Serves(o, NoAmount)
           /\ IsDebtSwap(o) => Serves(o, NoAmount)
           /\ IsDeleverage(o) => Serves(o, NoAmount)
           /\ \A amount, from, to : IsLeverage(o, amount, from, to) => Serves(o, NoAmount)
           /\ \A dest : IsZapBorrow(o, dest) => Serves(o, NoAmount)
<1>1. IsCollateralSwap(o) => Serves(o, NoAmount)
  BY CollateralSwapRuns, NothingServed DEF IsCollateralSwap, Serves
<1>2. IsDebtSwap(o) => Serves(o, NoAmount)
  BY DebtSwapRuns, NothingServed DEF IsDebtSwap, Serves
<1>3. IsDeleverage(o) => Serves(o, NoAmount)
  BY DeleverageRuns, NothingServed DEF IsDeleverage, Serves
<1>4. ASSUME NEW amount, NEW from, NEW to, IsLeverage(o, amount, from, to)
      PROVE  Serves(o, NoAmount)
  BY <1>4, LeverageRuns, NothingServed DEF IsLeverage, Serves
<1>5. ASSUME NEW dest, IsZapBorrow(o, dest) PROVE Serves(o, NoAmount)
  BY <1>5, ZapBorrowRuns, NothingServed DEF IsZapBorrow, Serves
<1> QED
  BY <1>1, <1>2, <1>3, <1>4, <1>5

LEMMA ZapSupplyServed ==
    ASSUME NEW o, NEW src, NEW amount, IsZapSupply(o, src, amount)
    PROVE  Serves(o, TokenAmount(src, amount))
<1> SUFFICES ASSUME o.error = "none", o.logics # <<>>
             PROVE  Served(o.logics, TokenAmount(src, amount))
  BY DEF Serves
<1>1. SuppliesWith(o.logics, src, amount)
  BY DEF IsZapSupply
<1>2. Underlies(TokenAmount(src, amount))
  BY <1>1 DEF SuppliesWith, IsSwapped
<1> QED
  BY <1>1, <1>2, ZapSupplyRuns, AmountServed

LEMMA ZapRepayServed ==
    ASSUME NEW o, NEW src, NEW amount, NEW dest, NEW told, IsZapRepay(o, src, amount, dest, told)
    PROVE  Serves(o, TokenAmount(dest, IF Same(src, dest) THEN told ELSE o.destAmount))
<1> DEFINE a == TokenAmount(dest, IF Same(src, dest) THEN told ELSE o.destAmount)
<1> SUFFICES ASSUME o.error = "none", o.logics # <<>>
             PROVE  Served(o.logics, a)
  BY DEF Serves
<1>1. RepaysWith(o, src, dest, told)
  BY DEF IsZapRepay
<1>2. Underlies(a)
  <2>1. PICK b : /\ Underlies(b) /\ b.token = dest
                 /\ b.amount = IF Same(src, dest) THEN told ELSE o.destAmount
    BY <1>1 DEF RepaysWith, IsSwapped
  <2> QED
    BY <2>1 DEF Underlies
<1>3. Runs(o.logics, Standing(a, 0), Nothing)
  BY <1>1, ZapRepayRuns
<1> HIDE DEF a
<1> QED
  BY <1>2, <1>3, AmountServed

LEMMA ZapWithdrawServed ==
    ASSUME NEW o, NEW src \in Tokens, NEW amount, NEW dest, IsZapWithdraw(o, src, amount, dest)
    PROVE  Serves(o, IF src \in AssetTokenized THEN TokenAmount(ProtocolToken[src], amount)
                     ELSE NoAmount)
<1> DEFINE a == TokenAmount(ProtocolToken[src], amount)
<1> SUFFICES ASSUME o.error = "none", o.logics # <<>>
             PROVE  Served(o.logics, IF src \in AssetTokenized THEN a ELSE NoAmount)
  BY DEF Serves
<1>1. WithdrawsWith(o, src, amount, dest)
  BY DEF IsZapWithdraw
<1>2. Runs(o.logics, Standing(IF src \in AssetTokenized THEN Short(a) ELSE NoAmount, 0), Nothing)
      /\ (src \in AssetTokenized => amount \in Nat /\ amount >= SetAside)
  BY <1>1, ZapWithdrawRuns
<1>3. a.token = ProtocolToken[src] /\ a.amount = amount
  BY DEF TokenAmount
<1>4. a.token \in ReceiptTokens /\ a.token \in AgentTokens
  BY <1>3 DEF ReceiptTokens, AgentTokens
<1>5. a = TokenAmount(a.token, a.amount)
  BY DEF TokenAmount
<1> HIDE DEF a
<1>6. CASE src \in AssetTokenized
  BY <1>2, <1>3, <1>4, <1>5, <1>6 DEF Served, AtHand, IsAmount
<1>7. CASE src \notin AssetTokenized
  BY <1>2, <1>7, NothingServed DEF Nothing
<1> QED
  BY <1>6, <1>7

LEMMA OpenServed ==
    ASSUME NEW o, NEW zap \in Tokens, NEW zapAmount \in Nat, IsOpen(o, zap, zapAmount)
    PROVE  Serves(o, TokenAmount(zap, zapAmount))
<1>1. Underlies(TokenAmount(zap, zapAmount))
  BY DEF Underlies, TokenAmount
<1> QED
  BY <1>1, OpenRuns, AmountServed DEF IsOpen, Serves

\* Until the transaction is sent, whatever is planned is served by what the user is told;
\* a close is told nothing and settles its loan.
PlanServed(r, p, o) ==
    /\ Worthwhile(r, p, o) /\ r.op # "close" => Serves(o, Told(r, p, o.destAmount))
    /\ Worthwhile(r, p, o) /\ r.op = "close" /\ ~ClosesInto(r, p) /\ Covered(p) /\ o.error = "none"
         => Settles(o.logics, 0, 0)
PlanServes ==
    /\ pc \in {"idle", "planned"} => position \in Positions /\ step = 0
    /\ pc = "planned" => PlanServed(request, position, plan)

LEMMA AskServes ==
    ASSUME PlanServes, NEW r, NEW o, Ask(r, o), PlanServed(r, position, o)
    PROVE  PlanServes'
  BY DEF PlanServes, Ask

LEMMA NothingAsked ==
    ASSUME PlanServes, NEW o, NEW pair, NEW n, NEW slippage,
           NEW op \in {"collateralSwap", "debtSwap", "leverageByCollateral", "leverageByDebt",
                       "deleverage", "zapBorrow"},
           Ask(Asked(op, pair, n, slippage), o),
           (op = "collateralSwap" /\ ~MoreThanDust(pair[1], n)) \/ Serves(o, NoAmount)
    PROVE  PlanServes'
<1> DEFINE r == Asked(op, pair, n, slippage)
<1>1. r.op = op /\ r.src = pair[1] /\ r.amount = n
  BY AskedIs
<1> HIDE DEF r
<1>2. Told(r, position, o.destAmount) = NoAmount
  BY <1>1, ToldIs
<1>3. PlanServed(r, position, o)
  BY <1>1, <1>2 DEF PlanServed, Worthwhile
<1> QED
  BY <1>3, AskServes DEF r

LEMMA LoansServe ==
    ASSUME PlanServes, NEW pair \in Pairs, NEW n \in Amounts, NEW slippage \in Slippages, NEW net,
           \/ AskCollateralSwap(pair, n, slippage, net)
           \/ AskDebtSwap(pair, n, slippage, net)
           \/ AskLeverageByCollateral(pair, n, slippage, net)
           \/ AskLeverageByDebt(pair, n, slippage, net)
           \/ AskDeleverage(pair, n, slippage, net)
           \/ AskZapBorrow(pair, n, slippage, net)
    PROVE  PlanServes'
<1> DEFINE src == pair[1]
           dest == pair[2]
           no == FALSE
<1>1. src \in Tokens /\ dest \in Tokens /\ n \in Nat /\ slippage \in 0..BPS_BASE
  BY RequestsAre
<1>2. Serves(DebtSwap(position, src, n, dest, slippage, no, net), NoAmount)
      /\ Serves(Deleverage(position, src, n, dest, slippage, no, net), NoAmount)
  <2> HIDE DEF src, dest, no
  <2>1. IsDebtSwap(DebtSwap(position, src, n, dest, slippage, no, net))
    BY <1>1, DebtSwapIs
  <2>2. IsDeleverage(Deleverage(position, src, n, dest, slippage, no, net))
    BY <1>1, DeleverageIs
  <2> QED
    BY <2>1, <2>2, LoansServed
<1>3. Serves(LeverageByCollateral(position, src, n, dest, slippage, net), NoAmount)
  <2> HIDE DEF src, dest
  <2> QED
    BY <1>1, LeverageByCollateralIs, LoansServed
<1>4. Serves(LeverageByDebt(position, src, n, dest, slippage, net), NoAmount)
  <2> HIDE DEF src, dest
  <2> QED
    BY <1>1, LeverageByDebtIs, LoansServed
<1>5. Serves(ZapBorrow(position, src, n, dest, slippage, net), NoAmount)
  <2> HIDE DEF src, dest
  <2> QED
    BY <1>1, ZapBorrowIs, LoansServed
<1>6. MoreThanDust(src, n) => Serves(CollateralSwap(position, src, n, dest, slippage, net), NoAmount)
  <2> HIDE DEF src, dest
  <2> QED
    BY <1>1, CollateralSwapIs, LoansServed
<1>7. CASE AskDebtSwap(pair, n, slippage, net)
  BY <1>2, <1>7, NothingAsked DEF AskDebtSwap
<1>8. CASE AskLeverageByCollateral(pair, n, slippage, net)
  BY <1>3, <1>8, NothingAsked DEF AskLeverageByCollateral
<1>9. CASE AskLeverageByDebt(pair, n, slippage, net)
  BY <1>4, <1>9, NothingAsked DEF AskLeverageByDebt
<1>10. CASE AskDeleverage(pair, n, slippage, net)
  BY <1>2, <1>10, NothingAsked DEF AskDeleverage
<1>11. CASE AskZapBorrow(pair, n, slippage, net)
  BY <1>5, <1>11, NothingAsked DEF AskZapBorrow
<1>12. CASE AskCollateralSwap(pair, n, slippage, net)
  BY <1>6, <1>12, NothingAsked DEF AskCollateralSwap
<1> QED
  BY <1>7, <1>8, <1>9, <1>10, <1>11, <1>12

LEMMA ZapsServe ==
    ASSUME PlanServes, NEW pair \in Pairs, NEW n \in Amounts, NEW slippage \in Slippages, NEW net,
           \/ AskZapSupply(pair, n, slippage, net)
           \/ AskZapWithdraw(pair, n, slippage, net)
           \/ AskZapRepay(pair, n, slippage, net)
    PROVE  PlanServes'
<1> DEFINE src == pair[1]
           dest == pair[2]
           no == FALSE
           R(op) == Asked(op, pair, n, slippage)
<1>1. src \in Tokens /\ dest \in Tokens /\ n \in Nat /\ slippage \in 0..BPS_BASE
  BY RequestsAre
<1>2. \A op : R(op).op = op /\ R(op).src = src /\ R(op).dest = dest /\ R(op).amount = n
  BY AskedIs
<1>3. CASE AskZapSupply(pair, n, slippage, net)
  <2> DEFINE r == R("zapSupply")
             o == ZapSupply(position, src, n, dest, slippage, net)
  <2>1. Ask(r, o)
    BY <1>3 DEF AskZapSupply
  <2>2. Serves(o, TokenAmount(src, n))
    <3> HIDE DEF src, dest
    <3> QED
      BY <1>1, ZapSupplyIs, ZapSupplyServed
  <2>3. r.op = "zapSupply" /\ r.src = src /\ r.amount = n
    BY <1>2
  <2> HIDE DEF src, dest, o, R, r
  <2>4. Told(r, position, o.destAmount) = TokenAmount(src, n)
    BY <2>3, ToldIs
  <2> QED
    BY <2>1, <2>2, <2>3, <2>4, AskServes DEF PlanServed
<1>4. CASE AskZapWithdraw(pair, n, slippage, net)
  <2> DEFINE r == R("zapWithdraw")
             o == ZapWithdraw(position, src, n, dest, slippage, net)
             told == IF src \in AssetTokenized THEN TokenAmount(ProtocolToken[src], n) ELSE NoAmount
  <2>1. Ask(r, o)
    BY <1>4 DEF AskZapWithdraw
  <2>2. MoreThanDust(src, n) => Serves(o, told)
    <3> HIDE DEF src, dest
    <3> QED
      BY <1>1, ZapWithdrawIs, ZapWithdrawServed
  <2>3. r.op = "zapWithdraw" /\ r.src = src /\ r.amount = n
    BY <1>2
  <2> HIDE DEF src, dest, o, R, r
  <2>4. Told(r, position, o.destAmount) = told
    BY <2>3, ToldIs
  <2> HIDE DEF told
  <2>5. PlanServed(r, position, o)
    BY <2>2, <2>3, <2>4 DEF PlanServed, Worthwhile
  <2> QED
    BY <2>1, <2>5, AskServes
<1>5. CASE AskZapRepay(pair, n, slippage, net)
  <2> DEFINE r == R("zapRepay")
             o == ZapRepay(position, src, n, dest, slippage, no, net)
             all == RepayAmount(position, src, n, 1, no)
             told == TokenAmount(dest, IF Same(src, dest) THEN all ELSE o.destAmount)
  <2>1. Ask(r, o)
    BY <1>5 DEF AskZapRepay
  <2>2. Serves(o, told)
    <3> HIDE DEF src, dest, no
    <3> QED
      BY <1>1, ZapRepayIs, ZapRepayServed
  <2>3. r.op = "zapRepay" /\ r.src = src /\ r.dest = dest /\ r.amount = n
    BY <1>2
  <2>4. Told(r, position, o.destAmount) = told
    <3> HIDE DEF src, dest, o, R, r
    <3> QED
      BY <2>3, ToldIs
  <2> HIDE DEF r, o, told
  <2> QED
    BY <2>1, <2>2, <2>3, <2>4, AskServes DEF PlanServed
<1> QED
  BY <1>3, <1>4, <1>5

LEMMA OpensServe ==
    ASSUME PlanServes, NEW pair \in Pairs, NEW n \in Amounts, NEW zap \in Zaps,
           NEW slippage \in Slippages, NEW net,
           \/ AskOpenByCollateral(pair, n, zap, slippage, net)
           \/ AskOpenByDebt(pair, n, zap, slippage, net)
    PROVE  PlanServes'
<1>1. /\ pair[1] \in Tokens /\ pair[2] \in Tokens /\ n \in Nat
      /\ zap[1] \in Tokens /\ zap[2] \in Nat /\ slippage \in 0..BPS_BASE
  BY RequestsAre
<1>2. ASSUME NEW op \in Opens, NEW o, Serves(o, TokenAmount(zap[1], zap[2])),
             Ask([Asked(op, pair, n, slippage) EXCEPT !.zap = zap], o)
      PROVE  PlanServes'
  <2> DEFINE r == [Asked(op, pair, n, slippage) EXCEPT !.zap = zap]
  <2>1. r.op = op /\ r.zap = zap
    BY DEF Asked, NoRequest
  <2> HIDE DEF r
  <2>2. Told(r, position, o.destAmount) = TokenAmount(zap[1], zap[2])
    BY <2>1, ToldIs
  <2>3. PlanServed(r, position, o)
    <3>1. r.op # "close"
      BY <2>1, <1>2 DEF Opens
    <3> QED
      BY <1>2, <2>2, <3>1 DEF PlanServed
  <2> QED
    BY <1>2, <2>3, AskServes DEF r
<1> DEFINE yes == TRUE
           no == FALSE
           up == Open(position, zap[1], zap[2], pair[1], n, pair[2], slippage, net, no)
           down == Open(position, zap[1], zap[2], pair[1], n, pair[2], slippage, net, yes)
<1>3. yes \in BOOLEAN /\ no \in BOOLEAN
  OBVIOUS
<1>4. Serves(up, TokenAmount(zap[1], zap[2])) /\ Serves(down, TokenAmount(zap[1], zap[2]))
  <2> HIDE DEF yes, no
  <2> QED
    BY <1>1, <1>3, OpenIs, OpenServed
<1>5. CASE AskOpenByCollateral(pair, n, zap, slippage, net)
  BY <1>2, <1>4, <1>5 DEF AskOpenByCollateral, OpenByCollateral, Opens
<1>6. CASE AskOpenByDebt(pair, n, zap, slippage, net)
  BY <1>2, <1>4, <1>6 DEF AskOpenByDebt, OpenByDebt, Opens
<1> QED
  BY <1>5, <1>6

LEMMA ClosesServe ==
    ASSUME PlanServes, NEW w \in Withdrawals, NEW slippage \in Slippages, NEW net,
           AskClose(w, slippage, net)
    PROVE  PlanServes'
<1> DEFINE r == [NoRequest EXCEPT !.op = "close", !.dest = w, !.slippage = slippage]
           o == Close(position, w, slippage, net)
<1>1. w \in Tokens /\ slippage \in 0..BPS_BASE
  BY RequestsAre
<1>2. r.op = "close" /\ r.dest = w
  BY DEF NoRequest
<1>3. Ask(r, o)
  BY DEF AskClose
<1>4. position \in Portfolios
  BY <1>3, RequestAssumption DEF PlanServes, Ask
<1>5. ASSUME \A b \in BorrowTokens : position.borrows[b] > 0 => ~Same(b, w),
             NoDust(position.supplies), o.destAmount >= 0, Covered(position), o.error = "none"
      PROVE  Settles(o.logics, 0, 0)
  BY <1>1, <1>4, <1>5, CloseTells
<1> HIDE DEF r, o
<1>6. PlanServed(r, position, o)
  BY <1>2, <1>5 DEF PlanServed, Worthwhile, ClosesInto
<1> QED
  BY <1>3, <1>6, AskServes

LEMMA AskingServes == PlanServes /\ AskOperation => PlanServes'
<1> SUFFICES ASSUME PlanServes, NEW slippage \in Slippages, NEW net \in Nets,
                    \/ \E w \in Withdrawals : AskClose(w, slippage, net)
                    \/ \E pair \in Pairs, n \in Amounts :
                         \/ AskCollateralSwap(pair, n, slippage, net)
                         \/ AskDebtSwap(pair, n, slippage, net)
                         \/ AskLeverageByCollateral(pair, n, slippage, net)
                         \/ AskLeverageByDebt(pair, n, slippage, net)
                         \/ AskDeleverage(pair, n, slippage, net)
                         \/ AskZapSupply(pair, n, slippage, net)
                         \/ AskZapWithdraw(pair, n, slippage, net)
                         \/ AskZapBorrow(pair, n, slippage, net)
                         \/ AskZapRepay(pair, n, slippage, net)
                         \/ \E zap \in Zaps : \/ AskOpenByCollateral(pair, n, zap, slippage, net)
                                              \/ AskOpenByDebt(pair, n, zap, slippage, net)
             PROVE  PlanServes'
  BY DEF AskOperation
<1>1. CASE \E w \in Withdrawals : AskClose(w, slippage, net)
  BY <1>1, ClosesServe
<1>2. ASSUME NEW pair \in Pairs, NEW n \in Amounts,
             \/ AskCollateralSwap(pair, n, slippage, net)
             \/ AskDebtSwap(pair, n, slippage, net)
             \/ AskLeverageByCollateral(pair, n, slippage, net)
             \/ AskLeverageByDebt(pair, n, slippage, net)
             \/ AskDeleverage(pair, n, slippage, net)
             \/ AskZapBorrow(pair, n, slippage, net)
      PROVE  PlanServes'
  BY <1>2, LoansServe
<1>3. ASSUME NEW pair \in Pairs, NEW n \in Amounts,
             \/ AskZapSupply(pair, n, slippage, net)
             \/ AskZapWithdraw(pair, n, slippage, net)
             \/ AskZapRepay(pair, n, slippage, net)
      PROVE  PlanServes'
  BY <1>3, ZapsServe
<1>4. ASSUME NEW pair \in Pairs, NEW n \in Amounts, NEW zap \in Zaps,
             \/ AskOpenByCollateral(pair, n, zap, slippage, net)
             \/ AskOpenByDebt(pair, n, zap, slippage, net)
      PROVE  PlanServes'
  BY <1>4, OpensServe
<1> QED
  BY <1>1, <1>2, <1>3, <1>4

LEMMA PlansServe == Spec => []PlanServes
<1>1. Init => PlanServes
  BY DEF Init, PlanServes
<1>2. PlanServes /\ [Next]_vars => PlanServes'
  <2> SUFFICES ASSUME PlanServes, [Next]_vars PROVE PlanServes'
    OBVIOUS
  <2>1. CASE AskOperation
    BY <2>1, AskingServes
  <2>2. CASE SendTransaction \/ Revert \/ Commit
    BY <2>2 DEF SendTransaction, Revert, Commit, PlanServes
  <2>3. CASE ExecuteLogic
    BY <2>3 DEF ExecuteLogic, PlanServes
  <2>4. CASE UNCHANGED vars
    BY <2>4 DEF vars, PlanServes
  <2> QED
    BY <2>1, <2>2, <2>3, <2>4 DEF Next
<1> QED
  BY <1>1, <1>2, PTL DEF Spec

-----------------------------------------------------------------------------
(* Every operation but close has what it takes until it ends.                *)

\* What a user has of one token and no other.
LEMMA OnlyIs ==
    ASSUME NEW a, IsAmount(a), a # NoAmount
    PROVE  Only(a.token, a.amount) \in Havings /\ Meets(Only(a.token, a.amount), 0, Standing(a, 0))
<1>1. Only(a.token, a.amount) \in Havings
  BY HavingsTyped DEF IsAmount
<1>2. a.token \in AgentTokens /\ Only(a.token, a.amount)[a.token] = a.amount /\ a.amount \in Nat
  BY DEF IsAmount, Only
<1> QED
  BY <1>1, <1>2 DEF Meets, Has, Standing

\* The transfers the API puts before a list, and what the agent starts with.
Receipts(funds) == SetToSeq({r \in ReceiptTokens : funds[r] > 0})
Pulls(funds) == [i \in DOMAIN Receipts(funds) |->
                   PullToken(TokenAmount(Receipts(funds)[i], funds[Receipts(funds)[i]]))]
Given(funds) == [t \in AgentTokens |-> IF t \in ReceiptTokens THEN 0 ELSE funds[t]]

Starts(s, funds) ==
    /\ Given(funds) \in Havings
    /\ \E x : Runs(Pulls(funds) \o s, x, Nothing) /\ Meets(Given(funds), 0, x)

LEMMA PulledIn ==
    ASSUME NEW s, NEW told, Served(s, told)
    PROVE  Starts(s, Only(told.token, told.amount))
<1> DEFINE funds == Only(told.token, told.amount)
<1>1. \A r \in ReceiptTokens : r \in AgentTokens /\ funds[r] = IF r = told.token THEN told.amount ELSE 0
  BY DEF Only, AgentTokens
<1>2. told = NoAmount => told.token \notin AgentTokens
  BY NoneIsNoToken DEF NoAmount, TokenAmount
<1>3. Runs(s, Standing(AtHand(told), 0), Nothing)
  BY DEF Served
<1>4. CASE told.token \notin ReceiptTokens
  <2>1. Receipts(funds) = <<>>
    <3>1. {r \in ReceiptTokens : funds[r] > 0} = {}
      BY <1>1, <1>4
    <3> QED
      BY <3>1, OneInTurn DEF Receipts
  <2>2. Pulls(funds) = <<>>
    BY <2>1 DEF Pulls
  <2>3. Given(funds) = funds
    BY <1>4 DEF Given, Only
  <2>4. List(s)
    BY <1>3 DEF Runs, Certifies
  <2>5. <<>> \o s = s
    BY <2>4, JoinNothing
  <2>6. funds \in Havings /\ Meets(funds, 0, Standing(told, 0))
    <3>1. CASE told = NoAmount
      <4>1. funds = NoFunds
        BY <1>2, <3>1 DEF Only, NoFunds
      <4> QED
        BY <3>1, <4>1, HavingsTyped DEF Meets, Has, Standing
    <3>2. CASE told # NoAmount
      BY <3>2, OnlyIs DEF Served
    <3> QED
      BY <3>1, <3>2
  <2>7. AtHand(told) = told
    BY <1>4 DEF AtHand
  <2> HIDE DEF funds
  <2> QED
    BY <1>3, <2>2, <2>3, <2>5, <2>6, <2>7 DEF Starts, funds
<1>5. CASE told.token \in ReceiptTokens
  <2>1. told # NoAmount /\ IsAmount(told) /\ told.amount >= SetAside /\ told.amount \in Nat
    BY <1>2, <1>5 DEF Served, AgentTokens, IsAmount
  <2>2. {r \in ReceiptTokens : funds[r] > 0} = {told.token}
    BY <1>1, <1>5, <2>1 DEF SetAside
  <2>3. Receipts(funds) = <<told.token>>
    BY <2>2, OneInTurn DEF Receipts
  <2>4. funds[told.token] = told.amount /\ TokenAmount(told.token, told.amount) = told
    BY <1>1, <1>5, <2>1 DEF IsAmount
  <2>5. Given(funds) = NoFunds
    BY <1>5 DEF Given, NoFunds, Only
  <2> HIDE DEF funds
  <2>6. Pulls(funds) = <<PullToken(told)>>
    BY <2>3, <2>4 DEF Pulls
  <2>7. Runs(<<PullToken(told)>>, Nothing, Standing(Short(told), 0))
    <3>1. Safe(PullToken(told), Nothing, Standing(Short(told), 0))
      BY <2>1, PullSafe DEF Nothing
    <3> QED
      BY <3>1, RunsOne
  <2>8. Runs(<<PullToken(told)>> \o s, Nothing, Nothing)
    BY <1>3, <1>5, <2>7, RunsOn DEF AtHand
  <2>9. NoFunds \in Havings /\ Meets(NoFunds, 0, Nothing)
    BY HavingsTyped DEF Meets, Has, Nothing, Standing
  <2> QED
    BY <2>5, <2>6, <2>8, <2>9 DEF Starts, funds
<1> QED
  BY <1>4, <1>5

\* The transaction runs: whatever is left of the list can be run from where it stands,
\* as long as no more is missing than was set aside.
Underway(d, n) ==
    /\ IsDraft(d) /\ d.short \in Nat /\ n \in 0..Len(d.logics)
    /\ \E c : /\ Certifies(c, d.logics) /\ c[Len(d.logics)] = Nothing
              /\ d.short <= SetAside => /\ d.agent \in Havings /\ Owing(d.position)
                                        /\ Meets(d.agent, d.owed, c[n])
Going ==
    pc = "running" /\ request.op # "close" /\ Worthwhile(request, position, plan)
        => Underway(draft, step)

LEMMA SendGoes ==
    ASSUME PlanTells, PlanServes, SendTransaction
    PROVE  Going'
<1> SUFFICES ASSUME request.op # "close", Worthwhile(request, position, plan)
             PROVE  Underway(draft, step)'
  BY DEF Going, SendTransaction, Worthwhile
<1> DEFINE told == Told(request, position, plan.destAmount)
           funds == Only(told.token, told.amount)
           grown == NewPortfolio(position.supplies,
                        [b \in BorrowTokens |-> IF position.borrows[b] = 0 THEN 0
                                                ELSE position.borrows[b] + Interest])
           d == Draft(Pulls(funds) \o plan.logics, grown, Given(funds))
<1>1. pc = "planned" /\ plan.error = "none" /\ plan.logics # <<>> /\ step' = step /\ step = 0
  BY DEF SendTransaction, PlanServes
<1>2. Estimate(plan.logics) = funds
  <2>1. Tells(plan, funds)
    BY <1>1 DEF PlanTells, AsTold, ClosesInto
  <2>2. Asks(plan.logics, funds)
    BY <1>1, <2>1 DEF Tells
  <2> HIDE DEF funds
  <2> QED
    BY <2>2, AskedIsEstimated
<1>3. Served(plan.logics, told)
  BY <1>1 DEF PlanServes, PlanServed, Serves
<1>4. draft' = d
  <2> HIDE DEF funds, grown
  <2>1. draft' = Draft(Pulls(Estimate(plan.logics)) \o plan.logics, grown, Given(Estimate(plan.logics)))
    BY DEF SendTransaction, Pulls, Given, Receipts, grown
  <2> QED
    BY <1>2, <2>1
<1>5. Owing(grown)
  <2>1. position \in Portfolios /\ Interest \in Nat
    BY <1>1, RequestAssumption, MarketAssumption DEF PlanServes
  <2>2. position.borrows \in [BorrowTokens -> Nat]
    BY <2>1 DEF Portfolios
  <2> DEFINE borrows == [b \in BorrowTokens |-> IF position.borrows[b] = 0 THEN 0
                                                ELSE position.borrows[b] + Interest]
  <2>3. borrows \in [BorrowTokens -> Nat]
    BY <2>1, <2>2
  <2>4. grown.borrows = borrows /\ "borrows" \in DOMAIN grown
    BY DEF NewPortfolio
  <2> QED
    BY <2>3, <2>4 DEF Owing
<1> HIDE DEF grown
<1>6. Given(funds) \in Havings
  BY <1>3, PulledIn DEF Starts
<1>7. PICK x : Runs(Pulls(funds) \o plan.logics, x, Nothing) /\ Meets(Given(funds), 0, x)
  BY <1>3, PulledIn DEF Starts
<1> HIDE DEF funds
<1>8. PICK c : /\ Certifies(c, Pulls(funds) \o plan.logics) /\ c[0] = x
               /\ c[Len(Pulls(funds) \o plan.logics)] = Nothing
  BY <1>7 DEF Runs
<1>9. /\ IsDraft(d) /\ d.short = 0 /\ d.logics = Pulls(funds) \o plan.logics
      /\ d.agent = Given(funds) /\ d.owed = 0 /\ d.position = grown
  <2>1. Given(funds) = [t \in AgentTokens |-> Given(funds)[t]]
    BY DEF Given
  <2> QED
    BY <2>1 DEF Draft, IsDraft
<1> HIDE DEF d
<1>10. 0 \in 0..Len(d.logics)
  BY <1>8, <1>9 DEF Certifies, List
<1>11. Underway(d, 0)
  BY <1>5, <1>6, <1>7, <1>8, <1>9, <1>10 DEF Underway
<1> QED
  BY <1>1, <1>4, <1>11

LEMMA ExecuteGoes ==
    ASSUME Going, ExecuteLogic
    PROVE  Going'
<1> SUFFICES ASSUME request.op # "close", Worthwhile(request, position, plan)
             PROVE  Underway(draft, step)'
  BY DEF Going, ExecuteLogic, Worthwhile
<1> DEFINE l == draft.logics[step + 1]
           n == Len(draft.logics)
<1>1. Underway(draft, step) /\ step < n /\ step' = step + 1
  BY DEF Going, ExecuteLogic
<1>2. PICK d \in Outcomes(l) : draft' = d
  BY DEF ExecuteLogic
<1>3. IsDraft(draft) /\ draft.short \in Nat /\ step \in 0..n
  BY <1>1 DEF Underway
<1>4. PICK c : /\ Certifies(c, draft.logics) /\ c[n] = Nothing
               /\ draft.short <= SetAside => /\ draft.agent \in Havings /\ Owing(draft.position)
                                             /\ Meets(draft.agent, draft.owed, c[step])
  BY <1>1 DEF Underway
<1>5. n \in Nat /\ step + 1 \in 1..n /\ step + 1 \in 0..n /\ (step + 1) - 1 = step
  BY <1>1, <1>3, <1>4 DEF Certifies, List
<1>6. Safe(l, c[step], c[step + 1])
  BY <1>4, <1>5 DEF Certifies
<1> HIDE DEF l, n
<1>7. Passes(l, d)
  BY <1>2, <1>3, <1>6, OutcomePasses DEF Safe
<1>8. ASSUME d.short <= SetAside
      PROVE  d.agent \in Havings /\ Owing(d.position) /\ Meets(d.agent, d.owed, c[step + 1])
  <2>1. draft.short <= SetAside
    BY <1>3, <1>7, <1>8 DEF Passes, SetAside
  <2>2. draft.agent \in Havings /\ Owing(draft.position) /\ Meets(draft.agent, draft.owed, c[step])
    BY <1>4, <2>1
  <2>3. Owing(d.position) /\ Becomes(draft.agent, draft.owed, l, d.agent, d.owed)
    BY <1>7, <1>8, <2>2 DEF Passes, Certain
  <2> QED
    BY <1>6, <2>2, <2>3 DEF Safe
<1>9. IsDraft(d) /\ d.logics = draft.logics /\ d.short \in Nat
  BY <1>7 DEF Passes
<1>10. Underway(d, step + 1)
  BY <1>4, <1>5, <1>8, <1>9 DEF Underway, n
<1> QED
  BY <1>1, <1>2, <1>10

\* Whatever is asked, what is returned is planned.
LEMMA AskedIsPlanned ==
    ASSUME AskOperation
    PROVE  pc' = "planned"
<1>0. \A r, o : Ask(r, o) => pc' = "planned"
  BY DEF Ask
<1>1. ASSUME NEW w, NEW slippage, NEW net, AskClose(w, slippage, net) PROVE pc' = "planned"
  BY <1>0, <1>1 DEF AskClose
<1>2. ASSUME NEW pair, NEW n, NEW slippage, NEW net,
             \/ AskCollateralSwap(pair, n, slippage, net)
             \/ AskDebtSwap(pair, n, slippage, net)
             \/ AskLeverageByCollateral(pair, n, slippage, net)
             \/ AskLeverageByDebt(pair, n, slippage, net)
             \/ AskDeleverage(pair, n, slippage, net)
      PROVE  pc' = "planned"
  BY <1>0, <1>2 DEF AskCollateralSwap, AskDebtSwap, AskLeverageByCollateral, AskLeverageByDebt,
     AskDeleverage
<1>3. ASSUME NEW pair, NEW n, NEW slippage, NEW net,
             \/ AskZapSupply(pair, n, slippage, net)
             \/ AskZapWithdraw(pair, n, slippage, net)
             \/ AskZapBorrow(pair, n, slippage, net)
             \/ AskZapRepay(pair, n, slippage, net)
      PROVE  pc' = "planned"
  BY <1>0, <1>3 DEF AskZapSupply, AskZapWithdraw, AskZapBorrow, AskZapRepay
<1>4. ASSUME NEW pair, NEW n, NEW zap, NEW slippage, NEW net,
             \/ AskOpenByCollateral(pair, n, zap, slippage, net)
             \/ AskOpenByDebt(pair, n, zap, slippage, net)
      PROVE  pc' = "planned"
  BY <1>0, <1>4 DEF AskOpenByCollateral, AskOpenByDebt
<1> QED
  BY <1>1, <1>2, <1>3, <1>4 DEF AskOperation

LEMMA GoesOn == PlanTells /\ PlanServes /\ Going /\ [Next]_vars => Going'
<1> SUFFICES ASSUME PlanTells, PlanServes, Going, [Next]_vars PROVE Going'
  OBVIOUS
<1>1. CASE AskOperation
  BY <1>1, AskedIsPlanned DEF Going
<1>2. CASE SendTransaction
  BY <1>2, SendGoes
<1>3. CASE ExecuteLogic
  BY <1>3, ExecuteGoes
<1>4. CASE Revert \/ Commit
  BY <1>4 DEF Revert, Commit, Going
<1>5. CASE UNCHANGED vars
  BY <1>5 DEF vars, Going, Worthwhile, Underway
<1> QED
  BY <1>1, <1>2, <1>3, <1>4, <1>5 DEF Next

\* A list underway has the input its next logic takes, and owes nothing at its end.
LEMMA UnderwayMisses ==
    ASSUME Going
    PROVE  Worthwhile(request, position, plan) /\ request.op # "close" => NothingMissing
<1> SUFFICES ASSUME pc = "running", draft.short <= SetAside, Underway(draft, step)
             PROVE  IF step = Len(draft.logics) THEN draft.owed = 0
                    ELSE LET l == draft.logics[step + 1] IN
                         TakesInput(l) /\ ~l.bps => draft.agent[l.input.token] >= Owed(l)
  BY DEF Going, NothingMissing
<1> DEFINE n == Len(draft.logics)
<1>1. PICK c : /\ Certifies(c, draft.logics) /\ c[n] = Nothing
               /\ draft.agent \in Havings /\ Meets(draft.agent, draft.owed, c[step])
  BY DEF Underway
<1>2. step \in 0..n /\ n \in Nat
  BY <1>1 DEF Underway, Certifies, List
<1>3. CASE step = n
  BY <1>1, <1>3 DEF Meets, Nothing, Standing
<1>4. CASE step # n
  <2>1. step + 1 \in 1..n /\ (step + 1) - 1 = step
    BY <1>2, <1>4
  <2>2. Safe(draft.logics[step + 1], c[step], c[step + 1])
    BY <1>1, <2>1 DEF Certifies
  <2> QED
    BY <1>1, <1>4, <2>2 DEF Safe
<1> QED
  BY <1>3, <1>4

-----------------------------------------------------------------------------
(* What is at hand throughout a list whose estimate is nothing.              *)

\* The logics of a close are counted fairly.
LEMMA ClosingFair ==
    ASSUME NEW l, Closing(l)
    PROVE  Fair(l)
<1>1. /\ Ours(l) /\ l.bps \in BOOLEAN
      /\ l.input = NoAmount \/ IsAmount(l.input)
      /\ l.output = NoAmount \/ IsAmount(l.output)
  BY DEF Closing, Ours
<1>2. NoAmount.token = "none" /\ NoAmount.amount = 0 /\ NoAmount = TokenAmount("none", 0)
  BY DEF NoAmount, TokenAmount
<1>3. l.input.amount \in Nat /\ l.output.amount \in Nat
  BY <1>1, <1>2 DEF IsAmount
<1>4. Owed(l) \in Nat
  <2>1. l.kind = "loanRepay" => Due(l.input).amount \in Nat
    BY <1>1, FeesAgree DEF Ours, Underlies
  <2> QED
    BY <1>3, <2>1 DEF Owed
<1>5. l.kind = "swap" => Provided(l) \in Nat /\ IsAmount(Gift(l))
  <2> SUFFICES ASSUME l.kind = "swap" PROVE Provided(l) \in Nat /\ IsAmount(Gift(l))
    OBVIOUS
  <2>1. Underlies(l.input) /\ Underlies(l.output)
    BY <1>1 DEF Ours
  <2>2. Provided(l) \in Nat
    BY <2>1, SwapsDeliver DEF Underlies, Provided
  <2>3. l.output.token \in AgentTokens
    BY <2>1 DEF Underlies, AgentTokens
  <2> QED
    BY <2>2, <2>3 DEF Gift, IsAmount, TokenAmount
<1>6. l.kind # "swap" => Provided(l) \in Nat /\ Gift(l) = l.output
  <2>1. l.kind # "swap" => Provided(l) = l.output.amount
    BY DEF Provided
  <2>2. l.output = TokenAmount(l.output.token, l.output.amount)
    BY <1>1, <1>2 DEF IsAmount
  <2> QED
    BY <1>3, <2>1, <2>2 DEF Gift
<1>7. ASSUME TakesInput(l) PROVE IsAmount(Bill(l))
  <2>1. IsAmount(l.input)
    BY <1>1, <1>7 DEF TakesInput
  <2>2. Bill(l) = TokenAmount(l.input.token, Owed(l))
    BY <1>7 DEF Bill
  <2>3. Bill(l).token = l.input.token /\ Bill(l).amount = Owed(l)
    BY <2>2 DEF TokenAmount
  <2> QED
    BY <1>4, <2>1, <2>2, <2>3 DEF IsAmount
<1> QED
  BY <1>1, <1>4, <1>5, <1>6, <1>7 DEF Fair

-----------------------------------------------------------------------------
(* What an estimate of nothing says of every logic of the list.              *)

LEMMA ReachesOneOnly ==
    ASSUME NEW x, NEW l, NEW y, Reaches(x, <<l>>, y)
    PROVE  y = CountLogic(x, l)
<1>1. Len(<<l>>) = 1 /\ <<l>>[1] = l /\ 1 \in 1..1 /\ 1 - 1 = 0
  OBVIOUS
<1>2. PICK a : a[0] = x /\ a[1] = y /\ \A i \in 1..1 : a[i] = CountLogic(a[i - 1], <<l>>[i])
  BY <1>1 DEF Reaches
<1> QED
  BY <1>1, <1>2

\* Counting one logic adds to the funds, and adds nothing only if its bill is there.
Counts(f, h, l, more, rest) ==
    /\ more \in Havings /\ rest \in Havings
    /\ CountLogic(Count(f, h), l) = Count(Sum(f, more), rest)
    /\ more = NoFunds => Has(h, Bill(l)) /\ rest = After(h, l)

LEMMA OneCounts ==
    ASSUME NEW l, Fair(l), NEW f \in Havings, NEW h \in Havings
    PROVE  \E more, rest : Counts(f, h, l, more, rest)
<1>1. CASE Has(h, Bill(l))
  <2>1. Takes(h, <<l>>, After(h, l), NoFunds) /\ After(h, l) \in Havings
    BY <1>1, BillPaid DEF Pays
  <2>2. Reaches(Count(f, h), <<l>>, Count(Sum(f, NoFunds), After(h, l)))
    BY <2>1 DEF Takes
  <2>3. CountLogic(Count(f, h), l) = Count(Sum(f, NoFunds), After(h, l))
    BY <2>2, ReachesOneOnly
  <2>4. Counts(f, h, l, NoFunds, After(h, l))
    BY <1>1, <2>1, <2>3, HavingsTyped DEF Counts
  <2> QED
    BY <2>4
<1>2. CASE ~Has(h, Bill(l))
  <2> DEFINE u == l.input.token
             n == Owed(l)
             z == n - h[u]
             rest == More(Less(h, u, n - z), l.output.token, Provided(l))
  <2>1. TakesInput(l) /\ Bill(l) # NoAmount
    BY <1>2 DEF Has, Bill
  <2>2. IsAmount(Bill(l)) /\ Bill(l).token = u /\ Bill(l).amount = n
    BY <2>1 DEF Fair, Bill, TokenAmount
  <2>3. u \in AgentTokens /\ n \in Nat /\ h[u] \in Nat
    BY <2>2 DEF IsAmount, Havings
  <2>4. n > h[u]
    BY <1>2, <2>1, <2>2, <2>3 DEF Has
  <2>5. z \in Nat /\ z # 0
    BY <2>3, <2>4
  <2>6. \A t \in AgentTokens :
          (IF TakesInput(l) /\ t = u THEN Needed(l, h[t]) ELSE 0) = IF t = u THEN n ELSE 0
    BY <2>1, <2>3, <2>4 DEF Needed
  <2>7. (n # 0 => z = IF n > h[u] THEN n - h[u] ELSE 0) /\ (n = 0 => z = 0)
    BY <2>3, <2>4
  <2>8. Provided(l) \in Nat
    BY DEF Fair
  <2>9. Takes(h, <<l>>, rest, Only(u, z))
    <3> HIDE DEF n, z
    <3> QED
      BY <2>3, <2>5, <2>6, <2>7, <2>8, Counted
  <2>10. Only(u, z) # NoFunds
    BY <2>3, <2>5 DEF Only, NoFunds
  <2> HIDE DEF rest, z
  <2>11. rest \in Havings /\ Only(u, z) \in Havings
         /\ Reaches(Count(f, h), <<l>>, Count(Sum(f, Only(u, z)), rest))
    BY <2>9 DEF Takes
  <2>12. CountLogic(Count(f, h), l) = Count(Sum(f, Only(u, z)), rest)
    BY <2>11, ReachesOneOnly
  <2>13. Counts(f, h, l, Only(u, z), rest)
    BY <2>10, <2>11, <2>12 DEF Counts
  <2> QED
    BY <2>13
<1> QED
  BY <1>1, <1>2

\* c says what is at hand before and after every logic of s, each of them paid.
Paid(c, s) ==
    \A i \in 1..Len(s) : /\ c[i - 1] \in Havings /\ c[i] \in Havings
                         /\ Has(c[i - 1], Bill(s[i])) /\ c[i] = After(c[i - 1], s[i])

LEMMA PaidThroughout ==
    ASSUME NEW s, Asks(s, NoFunds), \A i \in 1..Len(s) : Fair(s[i])
    PROVE  \E c : c[0] = NoFunds /\ Paid(c, s)
<1> DEFINE n == Len(s)
<1>1. NoFunds \in Havings /\ Sum(NoFunds, NoFunds) = NoFunds
  BY HavingsTyped
<1>2. PICK rest \in Havings : Reaches(Count(NoFunds, NoFunds), s, Count(NoFunds, rest))
  BY <1>1 DEF Asks, Takes
<1>3. n \in Nat
  BY <1>2 DEF Reaches, List
<1>4. PICK a : /\ a[0] = Count(NoFunds, NoFunds) /\ a[n] = Count(NoFunds, rest)
               /\ \A i \in 1..n : a[i] = CountLogic(a[i - 1], s[i])
  BY <1>2 DEF Reaches
<1> HIDE DEF n
<1> DEFINE F(i) == a[i].funds
           H(i) == a[i].have
           Good(i) == F(i) \in Havings /\ H(i) \in Havings /\ a[i] = Count(F(i), H(i))
           P == {i \in 0..n : Good(i)}
<1>5. Good(0)
  BY <1>1, <1>4 DEF Count
<1>6. ASSUME NEW i \in 1..n, Good(i - 1)
      PROVE  /\ Good(i) /\ \A t \in AgentTokens : F(i)[t] >= F(i - 1)[t]
             /\ F(i) = NoFunds => /\ F(i - 1) = NoFunds
                                  /\ Has(H(i - 1), Bill(s[i])) /\ H(i) = After(H(i - 1), s[i])
  <2> DEFINE f == F(i - 1)
             h == H(i - 1)
  <2>1. f \in Havings /\ h \in Havings /\ a[i - 1] = Count(f, h)
    BY <1>6
  <2>2. Fair(s[i]) /\ a[i] = CountLogic(a[i - 1], s[i])
    BY <1>4, <1>6 DEF n
  <2> HIDE DEF f, h
  <2>3. PICK more, left : Counts(f, h, s[i], more, left)
    BY <2>1, <2>2, OneCounts
  <2>4. /\ a[i] = Count(Sum(f, more), left) /\ more \in Havings /\ left \in Havings
        /\ more = NoFunds => Has(h, Bill(s[i])) /\ left = After(h, s[i])
    BY <2>1, <2>2, <2>3 DEF Counts
  <2>5. F(i) = Sum(f, more) /\ H(i) = left
    BY <2>4 DEF Count
  <2>6. Sum(f, more) \in Havings
    BY <2>1, <2>4, HavingsTyped
  <2>7. \A t \in AgentTokens : Sum(f, more)[t] >= f[t]
    BY <2>1, <2>4 DEF Sum, Havings
  <2>8. ASSUME Sum(f, more) = NoFunds PROVE f = NoFunds /\ more = NoFunds
    <3>1. \A t \in AgentTokens : f[t] + more[t] = 0 /\ f[t] \in Nat /\ more[t] \in Nat
      BY <2>1, <2>4, <2>8 DEF Sum, Havings, NoFunds
    <3>2. \A t \in AgentTokens : f[t] = 0 /\ more[t] = 0
      BY <3>1
    <3> QED
      BY <2>1, <2>4, <3>2 DEF NoFunds, Havings
  <2> QED
    BY <2>4, <2>5, <2>6, <2>7, <2>8 DEF f, h
<1>7. \A i \in 0..n : Good(i)
  <2>1. 0 \in P
    BY <1>3, <1>5
  <2>2. ASSUME NEW i \in 1..n, i - 1 \in P PROVE i \in P
    <3> HIDE DEF Good, F, H
    <3>1. Good(i - 1) /\ i \in 0..n
      BY <1>3, <2>2
    <3>2. Good(i)
      BY <1>6, <3>1
    <3> QED
      BY <3>1, <3>2
  <2> HIDE DEF P, Good
  <2>3. \A i \in 0..n : i \in P
    BY <1>3, <2>1, <2>2, UpTo
  <2> QED
    BY <2>3 DEF P
<1> DEFINE Q == {i \in 0..n : F(n - i) = NoFunds}
<1>8. \A i \in 0..n : F(i) = NoFunds
  <2>1. 0 \in Q
    BY <1>3, <1>4 DEF Count
  <2>2. ASSUME NEW i \in 1..n, i - 1 \in Q PROVE i \in Q
    <3>1. F(n - (i - 1)) = NoFunds
      BY <2>2
    <3>2. n - (i - 1) \in 1..n /\ (n - (i - 1)) - 1 = n - i /\ n - i \in 0..n
      BY <1>3
    <3> HIDE DEF F, H
    <3>3. Good(n - i)
      BY <1>7, <3>2
    <3> HIDE DEF Good
    <3>4. F(n - i) = NoFunds
      BY <1>6, <3>1, <3>2, <3>3
    <3> QED
      BY <3>4
  <2> HIDE DEF Q
  <2>3. \A i \in 0..n : i \in Q
    BY <1>3, <2>1, <2>2, UpTo
  <2>4. \A i \in 0..n : n - i \in 0..n /\ n - (n - i) = i
    BY <1>3
  <2> HIDE DEF F
  <2> QED
    BY <2>3, <2>4 DEF Q
<1> DEFINE c == [i \in 0..n |-> H(i)]
<1>9. ASSUME NEW i \in 1..n
      PROVE  /\ c[i - 1] \in Havings /\ c[i] \in Havings
             /\ Has(c[i - 1], Bill(s[i])) /\ c[i] = After(c[i - 1], s[i])
  <2>1. i \in 0..n /\ i - 1 \in 0..n
    BY <1>3
  <2>2. c[i] = H(i) /\ c[i - 1] = H(i - 1)
    BY <2>1
  <2> HIDE DEF c
  <2> QED
    BY <1>6, <1>7, <1>8, <2>1, <2>2
<1>10. c[0] = NoFunds
  BY <1>3, <1>4 DEF Count
<1> HIDE DEF c
<1> QED
  BY <1>9, <1>10 DEF Paid, n

-----------------------------------------------------------------------------
(* With exact swaps a logic of a close gives what the estimate counts with.  *)

\* While every swap delivers what was quoted and no wei is lost, a logic gives at least
\* what the estimate counts with and takes no more.
Exactly(d) == d.exact /\ d.short = 0
Delivers(h, l, g) ==
    \E taken, given \in Nat :
      /\ g = More(Less(h, l.input.token, taken), l.output.token, given)
      /\ given >= Provided(l)
      /\ TakesInput(l) => taken <= h[l.input.token] /\ (l.bps \/ taken <= Owed(l))
      /\ ~TakesInput(l) => taken = 0
Able(l) == draft.agent \in Havings /\ Owing(draft.position) /\ Has(draft.agent, Bill(l))
Follows(l, d) == Exactly(d) => Exactly(draft) /\ (Able(l) => Delivers(draft.agent, l, d.agent))

\* A draft that is as exact and as short as another.
AsExact(d, e) == IsDraft(e) /\ e.exact = d.exact /\ e.short = d.short

LEMMA ExactIs ==
    ASSUME NEW d, IsDraft(d), NEW a
    PROVE  /\ AsExact(d, GiveAgent(d, a)) /\ GiveAgent(d, a).agent = More(d.agent, a.token, a.amount)
           /\ AsExact(d, TakeAgent(d, a)) /\ TakeAgent(d, a).agent = Less(d.agent, a.token, a.amount)
           /\ AsExact(d, WithPosition(d, a)) /\ WithPosition(d, a).agent = d.agent
           /\ AsExact(d, WithOwed(d, a)) /\ WithOwed(d, a).agent = d.agent
<1>1. /\ IsDraft(GiveAgent(d, a)) /\ GiveAgent(d, a).agent = More(d.agent, a.token, a.amount)
      /\ IsDraft(TakeAgent(d, a)) /\ TakeAgent(d, a).agent = Less(d.agent, a.token, a.amount)
  BY AgentIs DEF Alike
<1>2. GiveAgent(d, a).exact = d.exact /\ GiveAgent(d, a).short = d.short
  BY DEF GiveAgent, IsDraft
<1>3. TakeAgent(d, a).exact = d.exact /\ TakeAgent(d, a).short = d.short
  BY DEF TakeAgent, IsDraft
<1>4. /\ IsDraft(WithPosition(d, a)) /\ WithPosition(d, a).agent = d.agent
      /\ IsDraft(WithOwed(d, a)) /\ WithOwed(d, a).agent = d.agent
  BY DraftIs
<1>5. WithPosition(d, a).exact = d.exact /\ WithPosition(d, a).short = d.short
  BY DEF WithPosition, IsDraft
<1>6. WithOwed(d, a).exact = d.exact /\ WithOwed(d, a).short = d.short
  BY DEF WithOwed, IsDraft
<1> QED
  BY <1>1, <1>2, <1>3, <1>4, <1>5, <1>6 DEF AsExact

\* A draft's balances after it gives, after it takes, and after both.
LEMMA GiftDelivers ==
    ASSUME NEW l, ~TakesInput(l), NEW n \in Nat, n >= Provided(l), NEW d,
           AsExact(draft, d), draft.agent \in Havings => d.agent = More(draft.agent, l.output.token, n)
    PROVE  Follows(l, d)
<1>1. ASSUME draft.agent \in Havings PROVE Delivers(draft.agent, l, d.agent)
  <2>1. Less(draft.agent, l.input.token, 0) = draft.agent
    BY <1>1, ExchangedIs
  <2> QED
    BY <1>1, <2>1 DEF Delivers
<1> QED
  BY <1>1 DEF Follows, Able, AsExact, Exactly

LEMMA ExchangeDelivers ==
    ASSUME NEW l, NEW n, NEW m, NEW d, AsExact(draft, d),
           TakesInput(l), d.agent = More(Less(draft.agent, l.input.token, n), l.output.token, m),
           Able(l) => /\ n \in Nat /\ n <= draft.agent[l.input.token]
                      /\ l.bps \/ n <= Owed(l)
                      /\ m \in Nat /\ m >= Provided(l)
    PROVE  Follows(l, d)
<1>1. ASSUME Able(l) PROVE Delivers(draft.agent, l, d.agent)
  BY <1>1 DEF Delivers
<1> QED
  BY <1>1 DEF Follows, AsExact, Exactly

LEMMA SunkDelivers ==
    ASSUME NEW l, NEW n, NEW d, AsExact(draft, d),
           TakesInput(l), d.agent = Less(draft.agent, l.input.token, n), l.output = NoAmount,
           l.kind # "swap",
           Able(l) => n \in Nat /\ n <= draft.agent[l.input.token] /\ (l.bps \/ n <= Owed(l))
    PROVE  Follows(l, d)
<1>1. Provided(l) = 0
  BY NothingIsNone DEF Provided
<1>2. ASSUME Able(l) PROVE Delivers(draft.agent, l, d.agent)
  <2>1. draft.agent \in Havings /\ n \in Nat /\ n <= draft.agent[l.input.token]
        /\ (l.bps \/ n <= Owed(l))
    BY <1>2 DEF Able
  <2>2. More(Less(draft.agent, l.input.token, n), l.output.token, 0)
          = Less(draft.agent, l.input.token, n)
    BY <2>1, ExchangedIs
  <2>3. \E taken, given \in Nat :
          /\ d.agent = More(Less(draft.agent, l.input.token, taken), l.output.token, given)
          /\ given >= Provided(l)
          /\ taken <= draft.agent[l.input.token] /\ (l.bps \/ taken <= Owed(l))
    BY <1>1, <2>1, <2>2
  <2> QED
    BY <2>3 DEF Delivers
<1> QED
  BY <1>2 DEF Follows, AsExact, Exactly

LEMMA LoanFollows ==
    ASSUME NEW l, Closing(l), IsDraft(draft), l.kind = "loan", NEW d \in Outcomes(l)
    PROVE  Follows(l, d)
<1> DEFINE e == WithOwed(draft, draft.owed + Due(l.output).amount)
<1>1. d = GiveAgent(e, l.output)
  BY DEF Outcomes, WithOwed
<1>2. ~TakesInput(l) /\ l.output.amount \in Nat /\ Provided(l) = l.output.amount
  BY NothingIsNone DEF Closing, Ours, TakesInput, Provided, IsAmount
<1>3. AsExact(draft, e) /\ e.agent = draft.agent
  BY ExactIs
<1> HIDE DEF e
<1>4. AsExact(e, d) /\ d.agent = More(draft.agent, l.output.token, l.output.amount)
  <2>1. IsDraft(e)
    BY <1>3 DEF AsExact
  <2>2. AsExact(e, GiveAgent(e, l.output))
        /\ GiveAgent(e, l.output).agent = More(e.agent, l.output.token, l.output.amount)
    BY <2>1, ExactIs
  <2> QED
    BY <1>1, <1>3, <2>2
<1>5. AsExact(draft, d)
  BY <1>3, <1>4 DEF AsExact
<1> QED
  BY <1>2, <1>4, <1>5, GiftDelivers

LEMMA LoanRepayFollows ==
    ASSUME NEW l, Closing(l), IsDraft(draft), l.kind = "loanRepay", NEW d \in Outcomes(l)
    PROVE  Follows(l, d)
<1> DEFINE a == Due(l.input)
           e == WithOwed(draft, draft.owed - a.amount)
<1>1. d = TakeAgent(e, a) /\ AgentHas(a)
  BY DEF Outcomes, WithOwed
<1>2. TakesInput(l) /\ l.output = NoAmount /\ Owed(l) = a.amount /\ Underlies(l.input)
  BY DEF Closing, Ours, TakesInput, Owed
<1>3. a.token = l.input.token /\ a.amount \in Nat
  BY <1>2, FeesAgree DEF Underlies
<1>4. draft.agent \in Havings => a.amount <= draft.agent[l.input.token]
  BY <1>1, <1>2, <1>3 DEF AgentHas, Havings, Underlies, AgentTokens
<1> HIDE DEF a
<1>5. AsExact(draft, e) /\ e.agent = draft.agent
  BY ExactIs
<1> HIDE DEF e
<1>6. AsExact(e, d) /\ d.agent = Less(draft.agent, l.input.token, a.amount)
  <2>1. IsDraft(e)
    BY <1>5 DEF AsExact
  <2>2. AsExact(e, TakeAgent(e, a)) /\ TakeAgent(e, a).agent = Less(e.agent, a.token, a.amount)
    BY <2>1, ExactIs
  <2> QED
    BY <1>1, <1>3, <1>5, <2>2
<1>7. AsExact(draft, d)
  BY <1>5, <1>6 DEF AsExact
<1>8. Able(l) => a.amount <= draft.agent[l.input.token] /\ a.amount <= Owed(l)
  BY <1>2, <1>3, <1>4 DEF Able
<1> QED
  BY <1>2, <1>3, <1>6, <1>7, <1>8, SunkDelivers

LEMMA SwapFollows ==
    ASSUME NEW l, Closing(l), IsDraft(draft), l.kind = "swap", NEW d \in Outcomes(l)
    PROVE  Follows(l, d)
<1> DEFINE quoted == SwapOutput(l.input.token, l.output.token, l.input.amount)
           worst == CalcSlippage(quoted, l.slippage)
<1>1. /\ Ours(l) /\ l.bps = FALSE /\ l.input # NoAmount /\ Underlies(l.input) /\ Underlies(l.output)
  BY DEF Closing, Ours
<1>2. TakesInput(l) /\ Provided(l) = quoted /\ Owed(l) = l.input.amount
  BY <1>1 DEF TakesInput, Provided, Owed
<1>3. quoted \in Nat
  BY <1>1, SwapsDeliver DEF Underlies
<1>4. AgentHas(Taken(l)) /\ d \in Swapped(l)
  BY <1>2 DEF Outcomes
<1> HIDE DEF worst
<1>5. PICK n \in {quoted, worst} :
        d = [GiveAgent(TakeAgent(draft, l.input), TokenAmount(l.output.token, n))
               EXCEPT !.exact = @ /\ n = quoted]
  BY <1>4 DEF Swapped, worst
<1> HIDE DEF quoted
<1> DEFINE b == TokenAmount(l.output.token, n)
           c == TakeAgent(draft, l.input)
           e == GiveAgent(c, b)
<1>6. AsExact(draft, e)
      /\ e.agent = More(Less(draft.agent, l.input.token, l.input.amount), l.output.token, n)
  <2>1. AsExact(draft, c) /\ c.agent = Less(draft.agent, l.input.token, l.input.amount)
    BY ExactIs
  <2>2. b.token = l.output.token /\ b.amount = n
    BY DEF TokenAmount
  <2> HIDE DEF c, b
  <2>3. AsExact(c, e) /\ e.agent = More(c.agent, l.output.token, n)
    <3>1. IsDraft(c)
      BY <2>1 DEF AsExact
    <3>2. AsExact(c, e) /\ e.agent = More(c.agent, b.token, b.amount)
      BY <3>1, ExactIs
    <3> QED
      BY <2>2, <3>2
  <2> QED
    BY <2>1, <2>3 DEF AsExact
<1>7. d = [e EXCEPT !.exact = e.exact /\ n = quoted]
  BY <1>5
<1> HIDE DEF e
<1>8. d.short = draft.short /\ d.agent = e.agent /\ d.exact = (draft.exact /\ n = quoted)
  <2>1. d.short = e.short /\ d.agent = e.agent /\ d.exact = (e.exact /\ n = quoted)
    BY <1>6, <1>7 DEF AsExact, IsDraft
  <2> QED
    BY <1>6, <2>1 DEF AsExact
<1>9. ASSUME Exactly(d)
      PROVE  Exactly(draft) /\ n = quoted
  <2>1. d.exact /\ d.short = 0
    BY <1>9 DEF Exactly
  <2>2. draft.exact /\ n = quoted
    BY <1>8, <2>1, Zenon
  <2> QED
    BY <1>8, <2>1, <2>2 DEF Exactly
<1>10. ASSUME n = quoted, Able(l) PROVE Delivers(draft.agent, l, d.agent)
  <2>1. l.input.amount \in Nat /\ l.input.amount <= draft.agent[l.input.token]
    BY <1>1, <1>4, <1>10, TakenIs DEF Able
  <2>2. d.agent = More(Less(draft.agent, l.input.token, l.input.amount), l.output.token, quoted)
    BY <1>6, <1>8, <1>10
  <2> QED
    BY <1>2, <1>3, <2>1, <2>2 DEF Delivers
<1> QED
  BY <1>9, <1>10 DEF Follows

LEMMA WrapFollows ==
    ASSUME NEW l, Closing(l), IsDraft(draft), l.kind = "wrap", NEW d \in Outcomes(l)
    PROVE  Follows(l, d)
<1> DEFINE c == TakeAgent(draft, l.input)
<1>1. Ours(l) /\ l.bps = FALSE /\ l.input # NoAmount /\ l.output.amount \in Nat
  BY NothingIsNone DEF Closing, Ours, IsAmount
<1>2. TakesInput(l) /\ Provided(l) = l.output.amount /\ Owed(l) = l.input.amount
  BY <1>1 DEF TakesInput, Provided, Owed
<1>3. AgentHas(Taken(l)) /\ d = GiveAgent(c, l.output)
  BY <1>2 DEF Outcomes
<1>4. AsExact(draft, c) /\ c.agent = Less(draft.agent, l.input.token, l.input.amount)
  BY ExactIs
<1> HIDE DEF c
<1>5. AsExact(c, d) /\ d.agent = More(c.agent, l.output.token, l.output.amount)
  <2>1. IsDraft(c)
    BY <1>4 DEF AsExact
  <2>2. AsExact(c, GiveAgent(c, l.output))
        /\ GiveAgent(c, l.output).agent = More(c.agent, l.output.token, l.output.amount)
    BY <2>1, ExactIs
  <2> QED
    BY <1>3, <2>2
<1>6. AsExact(draft, d)
  BY <1>4, <1>5 DEF AsExact
<1>7. Able(l) => l.input.amount \in Nat /\ l.input.amount <= draft.agent[l.input.token]
  BY <1>1, <1>3, TakenIs DEF Able
<1>8. Able(l) => /\ l.input.amount \in Nat /\ l.input.amount <= draft.agent[l.input.token]
                 /\ l.bps \/ l.input.amount <= Owed(l)
                 /\ l.output.amount \in Nat /\ l.output.amount >= Provided(l)
  BY <1>1, <1>2, <1>7
<1> QED
  BY <1>2, <1>4, <1>5, <1>6, <1>8, ExchangeDelivers

-----------------------------------------------------------------------------
(* Every logic of a close follows its estimate.                              *)

\* The bill is there.
LEMMA BillThere ==
    ASSUME NEW l, Closing(l), TakesInput(l), Able(l)
    PROVE  Owed(l) <= draft.agent[l.input.token]
<1>1. Bill(l) = TokenAmount(l.input.token, Owed(l)) /\ IsAmount(Bill(l))
  BY ClosingFair DEF Bill, Fair
<1>2. Bill(l).token = l.input.token /\ Bill(l).amount = Owed(l)
  BY <1>1 DEF TokenAmount
<1>3. Bill(l) # NoAmount
  BY <1>1, <1>2, NoneIsNoToken, NothingIsNone DEF IsAmount
<1> QED
  BY <1>2, <1>3 DEF Able, Has

LEMMA ReceiptFollows ==
    ASSUME NEW l, Closing(l), IsDraft(draft), l.kind = "withdraw", TakesInput(l),
           NEW d \in Outcomes(l)
    PROVE  Follows(l, d)
<1> DEFINE a == Taken(l)
           b == TokenAmount(l.output.token, a.amount)
           c == TakeAgent(draft, a)
<1>1. /\ Ours(l) /\ l.input # NoAmount /\ l.input = Receipt(l.output)
      /\ l.output.token \in AssetTokenized /\ Underlies(l.output)
  BY DEF TakesInput, Closing, Ours
<1>2. Owed(l) = l.input.amount /\ Provided(l) = l.output.amount /\ l.input.amount = l.output.amount
      /\ l.input.amount \in Nat
  BY <1>1, AmountsAre DEF Owed, Provided, IsAmount
<1>3. AgentHas(a) /\ d = GiveAgent(c, b)
  BY <1>1 DEF Outcomes, Withdrawn
<1>4. a.token = l.input.token
  BY DEF Taken, TokenAmount
<1>5. ASSUME Able(l)
      PROVE  /\ a.amount \in Nat /\ a.amount <= draft.agent[l.input.token]
             /\ l.bps \/ a.amount <= Owed(l)
             /\ a.amount >= Provided(l)
  <2>1. /\ a.amount \in Nat /\ a.amount <= draft.agent[l.input.token]
        /\ a.amount = IF l.bps THEN draft.agent[l.input.token] ELSE l.input.amount
    BY <1>1, <1>3, <1>5, TakenIs DEF Able
  <2>2. Owed(l) <= draft.agent[l.input.token]
    BY <1>5, BillThere
  <2> HIDE DEF a
  <2>3. CASE l.bps
    BY <1>2, <2>1, <2>2, <2>3
  <2>4. CASE ~l.bps
    BY <1>2, <2>1, <2>4
  <2> QED
    BY <2>3, <2>4
<1> HIDE DEF a
<1>6. b.token = l.output.token /\ b.amount = a.amount
  BY DEF TokenAmount
<1> HIDE DEF b
<1>7. AsExact(draft, c) /\ c.agent = Less(draft.agent, l.input.token, a.amount)
  BY <1>4, ExactIs
<1> HIDE DEF c
<1>8. AsExact(c, d) /\ d.agent = More(c.agent, l.output.token, a.amount)
  <2>1. IsDraft(c)
    BY <1>7 DEF AsExact
  <2>2. AsExact(c, GiveAgent(c, b)) /\ GiveAgent(c, b).agent = More(c.agent, b.token, b.amount)
    BY <2>1, ExactIs
  <2> QED
    BY <1>3, <1>6, <2>2
<1>9. AsExact(draft, d)
  BY <1>7, <1>8 DEF AsExact
<1> QED
  BY <1>5, <1>7, <1>8, <1>9, ExchangeDelivers

LEMMA WithdrawFollows ==
    ASSUME NEW l, Closing(l), IsDraft(draft), l.kind = "withdraw", NEW d \in Outcomes(l)
    PROVE  Follows(l, d)
<1>1. CASE TakesInput(l)
  BY <1>1, ReceiptFollows
<1>2. CASE ~TakesInput(l)
  <2> DEFINE p == Withdraw(draft.position, l.output.token, l.output.amount)
             e == WithPosition(draft, p)
  <2>1. l.input # NoAmount /\ l.output.amount \in Nat
    BY AmountsAre DEF Closing, Ours, Underlies
  <2>2. l.output.token \notin AssetTokenized
    BY <1>2, <2>1 DEF TakesInput
  <2>3. d = GiveAgent(e, l.output)
    BY <1>2, <2>2 DEF Outcomes, Withdrawn, WithPosition
  <2>4. AsExact(draft, e) /\ e.agent = draft.agent
    BY ExactIs
  <2> HIDE DEF e
  <2>5. AsExact(e, d) /\ d.agent = More(e.agent, l.output.token, l.output.amount)
    <3>1. IsDraft(e)
      BY <2>4 DEF AsExact
    <3>2. AsExact(e, GiveAgent(e, l.output))
          /\ GiveAgent(e, l.output).agent = More(e.agent, l.output.token, l.output.amount)
      BY <3>1, ExactIs
    <3> QED
      BY <2>3, <3>2
  <2>6. AsExact(draft, d) /\ Provided(l) = l.output.amount
    BY <2>4, <2>5 DEF AsExact, Provided
  <2> QED
    BY <1>2, <2>1, <2>4, <2>5, <2>6, GiftDelivers
<1> QED
  BY <1>1, <1>2

LEMMA PullFollows ==
    ASSUME NEW l, Closing(l), IsDraft(draft), draft.short \in Nat, l.kind = "pull", NEW d \in Outcomes(l)
    PROVE  Follows(l, d)
<1> DEFINE p == Withdraw(draft.position, Underlying(l.output.token), l.output.amount)
<1>1. ~TakesInput(l) /\ Provided(l) = l.output.amount /\ l.output.amount \in Nat
  BY NothingIsNone DEF Closing, Ours, TakesInput, Provided, IsAmount
<1>2. d \in Pulled(l)
  BY <1>1 DEF Outcomes
<1>3. PICK short \in 0..MaxShort :
         d = [GiveAgent(draft, TokenAmount(l.output.token, l.output.amount - short))
                EXCEPT !.position = p, !.short = @ + short]
  BY <1>2 DEF Pulled
<1> DEFINE a == TokenAmount(l.output.token, l.output.amount - short)
           e == GiveAgent(draft, a)
<1>4. d = [e EXCEPT !.position = p, !.short = e.short + short]
  BY <1>3
<1>5. AsExact(draft, e) /\ e.agent = More(draft.agent, a.token, a.amount)
  BY ExactIs
<1>6. a.token = l.output.token /\ a.amount = l.output.amount - short
  BY DEF TokenAmount
<1> HIDE DEF e, a, p
<1>7. d.short = draft.short + short /\ d.exact = draft.exact /\ d.agent = e.agent
  BY <1>4, <1>5 DEF AsExact, IsDraft
<1>8. short \in Nat
  BY MarketAssumption
<1>9. ASSUME Exactly(d) PROVE Exactly(draft) /\ short = 0
  BY <1>7, <1>8, <1>9 DEF Exactly
<1>10. ASSUME short = 0, Able(l) PROVE Delivers(draft.agent, l, d.agent)
  <2>1. d.agent = More(draft.agent, l.output.token, l.output.amount)
    BY <1>1, <1>5, <1>6, <1>7, <1>10
  <2>2. Less(draft.agent, l.input.token, 0) = draft.agent
    BY <1>10, ExchangedIs DEF Able
  <2> QED
    BY <1>1, <2>1, <2>2 DEF Delivers
<1> QED
  BY <1>9, <1>10 DEF Follows

LEMMA RepayFollows ==
    ASSUME NEW l, Closing(l), IsDraft(draft), l.kind = "repay", NEW d \in Outcomes(l)
    PROVE  Follows(l, d)
<1> DEFINE b == Debt(l.input.token)
           debt == draft.position.borrows[b]
           n == SmallerOf(Taken(l).amount, debt)
           a == TokenAmount(l.input.token, n)
           e == WithPosition(draft, Repay(draft.position, b, n))
<1>1. /\ Ours(l) /\ l.input # NoAmount /\ l.output = NoAmount /\ TakesInput(l)
      /\ IsAmount(l.input) /\ b \in BorrowTokens /\ Owed(l) = l.input.amount
  <2>1. Ours(l) /\ l.input # NoAmount /\ l.output = NoAmount /\ IsDebt(l.input.token)
        /\ IsAmount(l.input)
    BY DEF Closing, Ours
  <2> QED
    BY <2>1 DEF TakesInput, Debt, IsDebt, Owed
<1>2. AgentHas(Taken(l)) /\ d = TakeAgent(e, a)
  <2>1. AgentHas(Taken(l)) /\ d \in Repaid(l)
    BY <1>1 DEF Outcomes
  <2> QED
    BY <2>1 DEF Repaid, WithPosition
<1>3. ASSUME Able(l)
      PROVE  n \in Nat /\ n <= draft.agent[l.input.token] /\ (l.bps \/ n <= Owed(l))
  <2>1. debt \in Nat
    BY <1>1, <1>3 DEF Able, Owing
  <2>2. /\ Taken(l).amount \in Nat /\ Taken(l).amount <= draft.agent[l.input.token]
        /\ Taken(l).amount = IF l.bps THEN draft.agent[l.input.token] ELSE l.input.amount
    BY <1>1, <1>2, <1>3, TakenIs DEF Able
  <2>3. draft.agent[l.input.token] \in Nat /\ l.input.amount \in Nat
    BY <1>1, <1>3 DEF Able, Havings, IsAmount
  <2> HIDE DEF debt
  <2>4. n \in Nat /\ n <= Taken(l).amount
    BY <2>1, <2>2 DEF SmallerOf
  <2> HIDE DEF n
  <2>5. n \in Nat /\ n <= draft.agent[l.input.token]
    BY <2>2, <2>3, <2>4
  <2>6. ~l.bps => n <= Owed(l)
    BY <1>1, <2>2, <2>4
  <2> QED
    BY <2>5, <2>6
<1> HIDE DEF n, b
<1>4. a.token = l.input.token /\ a.amount = n
  BY DEF TokenAmount
<1>5. AsExact(draft, e) /\ e.agent = draft.agent
  BY ExactIs
<1> HIDE DEF e, a
<1>6. AsExact(e, d) /\ d.agent = Less(e.agent, l.input.token, n)
  <2>1. IsDraft(e)
    BY <1>5 DEF AsExact
  <2>2. AsExact(e, TakeAgent(e, a)) /\ TakeAgent(e, a).agent = Less(e.agent, a.token, a.amount)
    BY <2>1, ExactIs
  <2> QED
    BY <1>2, <1>4, <2>2
<1>7. AsExact(draft, d)
  BY <1>5, <1>6 DEF AsExact
<1> QED
  BY <1>1, <1>3, <1>5, <1>6, <1>7, SunkDelivers

LEMMA OutcomeFollows ==
    ASSUME NEW l, Closing(l), IsDraft(draft), draft.short \in Nat, NEW d \in Outcomes(l)
    PROVE  Follows(l, d)
<1>1. l.kind \in ClosingKinds
  BY DEF Closing
<1> QED
  BY <1>1, LoanFollows, LoanRepayFollows, SwapFollows, WrapFollows, WithdrawFollows, PullFollows,
     RepayFollows DEF ClosingKinds

-----------------------------------------------------------------------------
\* An agent with more than is counted still has more when the logic is done.
AtLeast(h, have) == \A t \in AgentTokens : h[t] >= have[t]

LEMMA HasMore ==
    ASSUME NEW have \in Havings, NEW h \in Havings, AtLeast(h, have), NEW a, IsAmount(a) \/ a = NoAmount,
           Has(have, a)
    PROVE  Has(h, a)
  BY DEF Has, AtLeast, Havings, IsAmount

LEMMA MoreIsLeft ==
    ASSUME NEW l, Fair(l), NEW have \in Havings, NEW h \in Havings, AtLeast(h, have),
           Has(have, Bill(l)), NEW g, Delivers(h, l, g)
    PROVE  AtLeast(g, After(have, l))
<1> DEFINE u == l.input.token
           spent == Spent(have, l)
<1>1. PICK taken \in Nat, given \in Nat :
        /\ g = More(Less(h, u, taken), l.output.token, given)
        /\ given >= Provided(l)
        /\ TakesInput(l) => taken <= h[u] /\ (l.bps \/ taken <= Owed(l))
        /\ ~TakesInput(l) => taken = 0
  BY DEF Delivers
<1>2. Provided(l) \in Nat /\ Owed(l) \in Nat
  BY DEF Fair
<1>3. u \in AgentTokens => h[u] - taken >= have[u] - spent /\ h[u] - taken \in Int
                           /\ have[u] - spent \in Int
  <2> SUFFICES ASSUME u \in AgentTokens
               PROVE  h[u] - taken >= have[u] - spent /\ h[u] - taken \in Int
                      /\ have[u] - spent \in Int
    OBVIOUS
  <2>1. h[u] \in Nat /\ have[u] \in Nat /\ h[u] >= have[u]
    BY DEF Havings, AtLeast
  <2>2. CASE ~TakesInput(l)
    BY <1>1, <2>1, <2>2 DEF Spent
  <2>3. CASE TakesInput(l) /\ l.bps
    BY <1>1, <2>1, <2>3 DEF Spent
  <2>4. CASE TakesInput(l) /\ ~l.bps
    BY <1>1, <1>2, <2>1, <2>4 DEF Spent
  <2> QED
    BY <2>2, <2>3, <2>4
<1> HIDE DEF spent
<1>4. ASSUME NEW t \in AgentTokens
      PROVE  Less(h, u, taken)[t] >= Less(have, u, spent)[t] /\ Less(h, u, taken)[t] \in Int
             /\ Less(have, u, spent)[t] \in Int
  <2>1. h[t] \in Nat /\ have[t] \in Nat /\ h[t] >= have[t]
    BY DEF Havings, AtLeast
  <2> QED
    BY <1>3, <2>1 DEF Less
<1>5. ASSUME NEW t \in AgentTokens
      PROVE  g[t] >= More(Less(have, u, spent), l.output.token, Provided(l))[t]
  BY <1>1, <1>2, <1>4 DEF More
<1> QED
  BY <1>5 DEF AtLeast, After, spent

-----------------------------------------------------------------------------
(* Nothing is missing until the transaction ends.                            *)

\* A close runs: the balances are those its estimate counts with or more, and the loan is
\* what the logics so far have left of it, as long as every swap delivers what was quoted
\* and no wei is lost.
ClosingOn(d, k) ==
    /\ IsDraft(d) /\ d.short \in Nat /\ k \in 0..Len(d.logics)
    /\ \E c, m : /\ List(d.logics) /\ c[0] = NoFunds /\ Paid(c, d.logics)
                 /\ m[Len(d.logics)] = 0
                 /\ \A i \in 1..Len(d.logics) :
                      Closing(d.logics[i]) /\ m[i] = OwedAfter(m[i - 1], d.logics[i])
                 /\ Exactly(d) => /\ d.agent \in Havings /\ Owing(d.position)
                                  /\ AtLeast(d.agent, c[k]) /\ d.owed = m[k]

\* The closes that are planned right: worth more than their loan, into a token that is not
\* owed, and of accounts that owe nothing while they have nothing supplied.
AllCovered == \A p \in Positions : Covered(p)
ClosesWell(r, p, o) == AllCovered /\ r.op = "close" /\ Worthwhile(r, p, o) /\ ~ClosesInto(r, p)
Settling == pc = "running" /\ ClosesWell(request, position, plan) => ClosingOn(draft, step)

LEMMA NothingPulled == Pulls(NoFunds) = <<>> /\ Given(NoFunds) = NoFunds
<1>1. {r \in ReceiptTokens : NoFunds[r] > 0} = {}
  BY DEF NoFunds, AgentTokens
<1>2. Receipts(NoFunds) = <<>>
  BY <1>1, OneInTurn DEF Receipts
<1>3. Pulls(NoFunds) = <<>>
  BY <1>2 DEF Pulls
<1>4. Given(NoFunds) = NoFunds
  BY DEF Given, NoFunds
<1> QED
  BY <1>3, <1>4

\* The interest that comes onto the debts when the user signs.
Grown(p) == [b \in BorrowTokens |-> IF p.borrows[b] = 0 THEN 0 ELSE p.borrows[b] + Interest]

LEMMA GrownIs ==
    ASSUME NEW p \in Portfolios
    PROVE  LET q == NewPortfolio(p.supplies, Grown(p))
           IN  /\ Owing(q) /\ q.supplies = p.supplies
               /\ \A b \in BorrowTokens : p.borrows[b] > 0 <=> q.borrows[b] > 0
<1>1. Interest \in Nat /\ p.borrows \in [BorrowTokens -> Nat]
  BY MarketAssumption DEF Portfolios
<1>2. Grown(p) \in [BorrowTokens -> Nat]
  BY <1>1 DEF Grown
<1>3. \A b \in BorrowTokens : p.borrows[b] > 0 <=> Grown(p)[b] > 0
  BY <1>1 DEF Grown
<1> DEFINE q == NewPortfolio(p.supplies, Grown(p))
<1>4. q.supplies = p.supplies /\ q.borrows = Grown(p) /\ "borrows" \in DOMAIN q
  BY DEF NewPortfolio
<1> HIDE DEF q
<1>5. /\ Owing(q) /\ q.supplies = p.supplies
      /\ \A b \in BorrowTokens : p.borrows[b] > 0 <=> q.borrows[b] > 0
  BY <1>2, <1>3, <1>4 DEF Owing
<1> QED
  BY <1>5 DEF q

LEMMA SendSettles ==
    ASSUME PlanTells, PlanServes, SendTransaction
    PROVE  Settling'
<1> DEFINE grown == NewPortfolio(position.supplies, Grown(position))
           s == plan.logics
           d == Draft(s, grown, NoFunds)
<1>1. /\ pc = "planned" /\ plan.error = "none" /\ s # <<>> /\ step' = step /\ step = 0
      /\ position \in Positions /\ position' = grown /\ request' = request /\ plan' = plan
  BY DEF SendTransaction, PlanServes, Grown
<1>2. /\ Owing(grown) /\ grown.supplies = position.supplies
      /\ \A b \in BorrowTokens : position.borrows[b] > 0 <=> grown.borrows[b] > 0
  BY <1>1, GrownIs, RequestAssumption
<1>3. draft' = Draft(Pulls(Estimate(s)) \o s, grown, Given(Estimate(s)))
  BY DEF SendTransaction, Pulls, Given, Receipts, Grown
<1> HIDE DEF grown
<1> SUFFICES ASSUME AllCovered, request.op = "close", Worthwhile(request, grown, plan),
                    ~ClosesInto(request, grown)
             PROVE  ClosingOn(draft, step)'
  BY <1>1 DEF Settling, ClosesWell
<1>4. Worthwhile(request, position, plan) /\ ~ClosesInto(request, position) /\ Covered(position)
  BY <1>1, <1>2 DEF Worthwhile, ClosesInto, AllCovered
<1>5. Asks(s, NoFunds)
  <2> DEFINE told == Told(request, position, plan.destAmount)
  <2>1. Tells(plan, Only(told.token, told.amount))
    BY <1>1, <1>4 DEF PlanTells, AsTold
  <2>2. told = NoAmount
    BY ToldIs
  <2>3. Only(told.token, told.amount) = NoFunds
    BY <2>2, NothingIsNone, HavingsTyped
  <2> HIDE DEF told
  <2> QED
    BY <1>1, <2>1, <2>3 DEF Tells
<1>6. Settles(s, 0, 0)
  BY <1>1, <1>4 DEF PlanServes, PlanServed
<1>7. Estimate(s) = NoFunds
  BY <1>5, AskedIsEstimated
<1>8. List(s)
  BY <1>6 DEF Settles
<1>9. draft' = d
  <2>1. <<>> \o s = s
    BY <1>8, JoinNothing
  <2> QED
    BY <1>3, <1>7, <2>1, NothingPulled
<1>10. PICK m : /\ m[0] = 0 /\ m[Len(s)] = 0
                /\ \A i \in 1..Len(s) : Closing(s[i]) /\ m[i] = OwedAfter(m[i - 1], s[i])
  BY <1>6 DEF Settles
<1>11. PICK c : c[0] = NoFunds /\ Paid(c, s)
  <2>1. \A i \in 1..Len(s) : Fair(s[i])
    BY <1>10, ClosingFair
  <2> QED
    BY <1>5, <2>1, PaidThroughout
<1>12. /\ IsDraft(d) /\ d.short = 0 /\ d.logics = s /\ d.agent = NoFunds /\ d.owed = 0
       /\ d.position = grown
  BY DEF Draft, IsDraft, NoFunds
<1>13. NoFunds \in Havings /\ AtLeast(NoFunds, NoFunds) /\ 0 \in 0..Len(s)
  BY <1>8, HavingsTyped DEF AtLeast, NoFunds, List
<1> HIDE DEF d, s
<1>14. ClosingOn(d, 0)
  BY <1>2, <1>8, <1>10, <1>11, <1>12, <1>13 DEF ClosingOn
<1> QED
  BY <1>1, <1>9, <1>14

LEMMA ExecuteSettles ==
    ASSUME Settling, ExecuteLogic
    PROVE  Settling'
<1> SUFFICES ASSUME ClosesWell(request, position, plan)
             PROVE  ClosingOn(draft, step)'
  BY DEF Settling, ExecuteLogic, ClosesWell, Worthwhile
<1> DEFINE l == draft.logics[step + 1]
           s == draft.logics
           n == Len(s)
<1>1. ClosingOn(draft, step) /\ step < n /\ step' = step + 1
  BY DEF Settling, ExecuteLogic
<1>2. PICK d \in Outcomes(l) : draft' = d
  BY DEF ExecuteLogic
<1>3. IsDraft(draft) /\ draft.short \in Nat /\ step \in 0..n
  BY <1>1 DEF ClosingOn
<1>4. PICK c, m : /\ List(s) /\ c[0] = NoFunds /\ Paid(c, s)
                  /\ m[n] = 0
                  /\ \A i \in 1..n : Closing(s[i]) /\ m[i] = OwedAfter(m[i - 1], s[i])
                  /\ Exactly(draft) => /\ draft.agent \in Havings /\ Owing(draft.position)
                                       /\ AtLeast(draft.agent, c[step]) /\ draft.owed = m[step]
  BY <1>1 DEF ClosingOn
<1>5. n \in Nat /\ step + 1 \in 1..n /\ step + 1 \in 0..n /\ (step + 1) - 1 = step
  BY <1>1, <1>3, <1>4 DEF List
<1>6. Closing(l) /\ m[step + 1] = OwedAfter(m[step], l)
  BY <1>4, <1>5
<1>7. c[step] \in Havings /\ Has(c[step], Bill(l)) /\ c[step + 1] = After(c[step], l)
  BY <1>4, <1>5 DEF Paid
<1> HIDE DEF l, n, s
<1>8. Passes(l, d) /\ Follows(l, d) /\ Fair(l)
  BY <1>2, <1>3, <1>6, OutcomePasses, OutcomeFollows, ClosingFair DEF Closing
<1>9. IsDraft(d) /\ d.logics = s /\ d.short \in Nat
  BY <1>8 DEF Passes, s
<1>10. ASSUME Exactly(d)
       PROVE  /\ d.agent \in Havings /\ Owing(d.position)
              /\ AtLeast(d.agent, c[step + 1]) /\ d.owed = m[step + 1]
  <2>1. /\ draft.agent \in Havings /\ Owing(draft.position)
        /\ AtLeast(draft.agent, c[step]) /\ draft.owed = m[step]
    BY <1>4, <1>8, <1>10 DEF Follows
  <2>2. IsAmount(Bill(l)) \/ Bill(l) = NoAmount
    BY <1>8 DEF Fair, Bill
  <2>3. Has(draft.agent, Bill(l))
    BY <1>7, <2>1, <2>2, HasMore
  <2>4. Delivers(draft.agent, l, d.agent)
    BY <1>8, <1>10, <2>1, <2>3 DEF Follows, Able
  <2>5. AtLeast(d.agent, c[step + 1])
    BY <1>7, <1>8, <2>1, <2>4, MoreIsLeft
  <2>6. Certain(d)
    BY <1>10, <2>1 DEF Certain, Exactly, SetAside
  <2>7. Owing(d.position) /\ Becomes(draft.agent, draft.owed, l, d.agent, d.owed)
    BY <1>8, <2>6 DEF Passes
  <2>8. d.agent \in Havings
    BY <2>1, <2>7, BecomesHavings
  <2>9. d.owed = OwedAfter(draft.owed, l)
    BY <2>7 DEF Becomes
  <2> QED
    BY <1>6, <2>1, <2>5, <2>7, <2>8, <2>9
<1>11. ClosingOn(d, step + 1)
  <2> DEFINE k == step + 1
  <2>1. k \in 0..n
    BY <1>5
  <2>2. d.logics = s /\ n = Len(d.logics)
    BY <1>9 DEF n
  <2>3. /\ List(s) /\ c[0] = NoFunds /\ Paid(c, s) /\ m[n] = 0
        /\ \A i \in 1..n : Closing(s[i]) /\ m[i] = OwedAfter(m[i - 1], s[i])
    BY <1>4
  <2>4. Exactly(d) => /\ d.agent \in Havings /\ Owing(d.position)
                      /\ AtLeast(d.agent, c[k]) /\ d.owed = m[k]
    BY <1>10
  <2> HIDE DEF k
  <2>5. ClosingOn(d, k)
    BY <1>9, <2>1, <2>2, <2>3, <2>4 DEF ClosingOn
  <2> QED
    BY <2>5 DEF k
<1> QED
  BY <1>1, <1>2, <1>11

LEMMA SettlesOnward == PlanTells /\ PlanServes /\ Settling /\ [Next]_vars => Settling'
<1> SUFFICES ASSUME PlanTells, PlanServes, Settling, [Next]_vars PROVE Settling'
  OBVIOUS
<1>1. CASE AskOperation
  BY <1>1, AskedIsPlanned DEF Settling
<1>2. CASE SendTransaction
  BY <1>2, SendSettles
<1>3. CASE ExecuteLogic
  BY <1>3, ExecuteSettles
<1>4. CASE Revert \/ Commit
  BY <1>4 DEF Revert, Commit, Settling
<1>5. CASE UNCHANGED vars
  BY <1>5 DEF vars, Settling, ClosesWell, Worthwhile, ClosesInto, ClosingOn, Exactly
<1> QED
  BY <1>1, <1>2, <1>3, <1>4, <1>5 DEF Next

\* A close that settles has the input its next logic takes, and owes nothing at its end.
LEMMA SettlingMisses ==
    ASSUME Settling
    PROVE  AllCovered /\ request.op = "close" /\ Worthwhile(request, position, plan) => NothingMissing
<1> SUFFICES ASSUME AllCovered, request.op = "close", Worthwhile(request, position, plan),
                    pc = "running", draft.exact, draft.short = 0, ~ClosesIntoDebt
             PROVE  IF step = Len(draft.logics) THEN draft.owed = 0
                    ELSE LET l == draft.logics[step + 1] IN
                         TakesInput(l) /\ ~l.bps => draft.agent[l.input.token] >= Owed(l)
  BY DEF NothingMissing
<1> DEFINE s == draft.logics
           n == Len(s)
<1>1. ClosingOn(draft, step) /\ Exactly(draft)
  BY DEF Settling, ClosesWell, ClosesIntoDebt, Exactly
<1>2. PICK c, m : /\ List(s) /\ Paid(c, s) /\ m[n] = 0
                  /\ \A i \in 1..n : Closing(s[i])
                  /\ draft.agent \in Havings /\ Owing(draft.position)
                  /\ AtLeast(draft.agent, c[step]) /\ draft.owed = m[step]
  BY <1>1 DEF ClosingOn
<1>3. step \in 0..n /\ n \in Nat
  BY <1>1, <1>2 DEF ClosingOn, List
<1>4. CASE step = n
  BY <1>2, <1>4
<1>5. CASE step # n
  <2> DEFINE l == s[step + 1]
  <2>1. step + 1 \in 1..n /\ (step + 1) - 1 = step
    BY <1>3, <1>5
  <2>2. Closing(l) /\ c[step] \in Havings /\ Has(c[step], Bill(l))
    BY <1>2, <2>1 DEF Paid
  <2> HIDE DEF l, s, n
  <2>3. IsAmount(Bill(l)) \/ Bill(l) = NoAmount
    BY <2>2, ClosingFair DEF Fair, Bill
  <2>4. Able(l)
    BY <1>2, <2>2, <2>3, HasMore DEF Able
  <2>5. TakesInput(l) => Owed(l) <= draft.agent[l.input.token]
    BY <2>2, <2>4, BillThere
  <2>6. TakesInput(l) => draft.agent[l.input.token] >= Owed(l)
    <3>1. ASSUME TakesInput(l) PROVE draft.agent[l.input.token] \in Nat /\ Owed(l) \in Nat
      <4>1. IsAmount(Bill(l)) /\ Bill(l).token = l.input.token /\ Owed(l) \in Nat
        BY <2>2, <3>1, ClosingFair DEF Fair, Bill, TokenAmount
      <4> QED
        BY <1>2, <4>1 DEF IsAmount, Havings
    <3> QED
      BY <2>5, <3>1
  <2> QED
    BY <1>5, <2>6 DEF l, s, n
<1> QED
  BY <1>4, <1>5

\* Once sent, a list finds each input it takes in a fixed amount and repays its loan: for
\* every operation whatever its swaps deliver, and for a close when they deliver what was
\* quoted, if no account owes while it has nothing supplied.
THEOREM NothingIsMissing ==
    Spec => [](/\ Worthwhile(request, position, plan)
               /\ request.op = "close" => \A p \in Positions : Covered(p)
               => NothingMissing)
<1>1. Init => Going /\ Settling
  BY DEF Init, Going, Settling
<1>2. Going /\ Settling =>
        (/\ Worthwhile(request, position, plan)
         /\ request.op = "close" => \A p \in Positions : Covered(p)
         => NothingMissing)
  BY UnderwayMisses, SettlingMisses DEF AllCovered
<1> QED
  BY <1>1, <1>2, GoesOn, SettlesOnward, PlansTell, PlansServe, PTL DEF Spec
=============================================================================
