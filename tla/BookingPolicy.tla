---------------------------- MODULE BookingPolicy ----------------------------
(***************************************************************************)
(* The states of a booking and the moves between them the domain allows.   *)
(* TryTransitionAsync asks CanTransition before every write; the           *)
(* confirmation service and the cancellation service write State directly. *)
(***************************************************************************)

BookingState ==
  {"PendingPayment", "PaymentInProgress", "PaymentSucceeded", "PaymentFailed",
   "PaymentCancelled", "PendingConfirmation", "Confirming", "Confirmed",
   "ConfirmationException", "Cancelled"}

BookingMoves ==
  ({"PendingPayment"} \X {"PaymentInProgress", "PaymentFailed", "PaymentCancelled"})
  \cup ({"PaymentInProgress"} \X {"PaymentSucceeded", "PaymentFailed", "PaymentCancelled"})
  \cup {<<"PaymentFailed", "PaymentInProgress">>,
        <<"PaymentSucceeded", "PendingConfirmation">>}
  \cup ({"PendingConfirmation"} \X {"Confirming", "ConfirmationException"})
  \cup ({"Confirming"} \X {"Confirmed", "ConfirmationException"})
  \cup {<<"ConfirmationException", "Confirming">>, <<"Confirmed", "Cancelled">>}

(* BookingPolicy.CanTransition *)
CanMoveBooking(current, next) ==
  <<current, next>> \in BookingMoves \/ current = next
=============================================================================
