---------------------------- MODULE MCBookingMoney ----------------------------
(* Small amounts, where rounding shows; two policies, one with a gap below its
   lower threshold and one that reaches to the day of departure. *)
EXTENDS BookingMoney

(* a window: threshold, basis points, non-refundable tenths of a minor unit *)
W(days, points, tenths) ==
  [minimumDays |-> days, feeBasisPoints |-> points, nonRefundable |-> tenths]

TwoPolicies == {{W(2, 1250, 20), W(1, 5000, 33)}, {W(0, 9999, 1000)}}
AroundDeparture == {-1, 0, 1, 3}
HalfUnitPolicy == {{W(1, 2500, 15)}}
=============================================================================
