-------------------------- MODULE CancellationPolicy --------------------------
(***************************************************************************)
(* CancellationPolicy.Evaluate: what a cancellation costs and gives back.  *)
(*                                                                         *)
(* Settled amounts and the percentage fee are whole minor units.  The      *)
(* configured non-refundable amount is a decimal nobody rounds: it is in   *)
(* tenths of a minor unit, and so is all that is computed from it.         *)
(***************************************************************************)
EXTENDS Integers

Tenths == 10
MinOf(a, b) == IF a <= b THEN a ELSE b
MaxOf(a, b) == IF a >= b THEN a ELSE b

(* Round(a / n, MidpointRounding.AwayFromZero), a >= 0; also what a numeric(18,2)
   column does with the decimal it is given. *)
RoundedAway(a, n) == (2 * a + n) \div (2 * n)

BasisPoints == 10000

Window == [minimumDays : Nat, feeBasisPoints : 0..BasisPoints, nonRefundable : Nat]

(* Validate *)
ValidWindows(ws) ==
  /\ ws # {} /\ ws \subseteq Window
  /\ \A v, w \in ws : v.minimumDays = w.minimumDays => v = w

(* The window with the highest threshold the notice still reaches *)
Reached(ws, days) == {w \in ws : days >= w.minimumDays}
Governing(ws, days) ==
  CHOOSE w \in Reached(ws, days) : \A v \in Reached(ws, days) : w.minimumDays >= v.minimumDays

PercentageFee(settled, w) ==
  MinOf(settled, RoundedAway(settled * w.feeBasisPoints, BasisPoints))

(* Mutant of NonRefundable: of the settled amount, fee or no fee. *)
NonRefundableOfAll(settled, w) == MinOf(settled * Tenths, w.nonRefundable)

NonRefundable(settled, w) ==
  MinOf(MaxOf(0, (settled - PercentageFee(settled, w)) * Tenths), w.nonRefundable)

Refundable(settled, w) ==
  MaxOf(0, (settled - PercentageFee(settled, w)) * Tenths - NonRefundable(settled, w))
=============================================================================
