----------------------------- MODULE TokenMath -----------------------------
(***************************************************************************)
(* The integer arithmetic on amounts in smallest units: basis points, the  *)
(* fee of a flash loan and its reverse, slippage, and the head-room a full *)
(* repayment is given.  BigNumber.div truncates, and all operands here are *)
(* non-negative, so it is \div.                                            *)
(***************************************************************************)
EXTENDS Integers

BPS_BASE == 10000

CalcBps(numerator, denominator) == (numerator * BPS_BASE) \div denominator
ValidateBps(bps) == bps > 0 /\ bps <= BPS_BASE

FeeRoundingModes == {"floor", "round"}

\* The fee a lender asks for a loan of this amount.
CalcFee(amount, feeBps, mode) ==
    (amount * feeBps + (IF mode = "round" THEN BPS_BASE \div 2 ELSE 0)) \div BPS_BASE

\* The loan whose repayment, fee included, is the given amount.
ReverseAmountWithFee(amountWithFee, feeBps) ==
    (amountWithFee * BPS_BASE) \div (BPS_BASE + feeBps)

\* slippage in basis points; a negative one raises the amount.
CalcSlippage(amount, slippage) == (amount * (BPS_BASE - slippage)) \div BPS_BASE

\* What is sent to repay all of a debt that grows meanwhile.
ScaleRepayAmount(amount, scale) == CalcSlippage(amount, -scale)
=============================================================================
