---------------------------- MODULE BookingLedger ----------------------------
(***************************************************************************)
(* What the checkout of one booking promises, without requests, copies or  *)
(* transactions: one payment, the seat sold for it, the confirmation, the  *)
(* cancellation, the seat and then the money given back.  Each happens     *)
(* once, in one step, for the payment and the request it started with, and *)
(* nothing is taken back.  Only between payment and seat does the booking  *)
(* go back and forth: it is put aside as an exception and tried again.     *)
(***************************************************************************)
CONSTANTS Payments, Requests, Nobody

VARIABLES
  status,      \* "open", "exception", "confirmed" or "cancelled"
  paid,        \* payments that were settled
  sold,        \* the payment the seat was sold for
  endedBy,     \* the request that cancelled the booking
  returnedBy,  \* the request the seat was given back for
  refund       \* by request: "none", "notDue" or "due"

ledger == <<status, paid, sold, endedBy, returnedBy, refund>>

Opened ==
  /\ status = "open" /\ paid = {} /\ sold = Nobody
  /\ endedBy = Nobody /\ returnedBy = Nobody
  /\ refund = [c \in Requests |-> "none"]

Pay(a) ==
  /\ status = "open" /\ paid = {}
  /\ paid' = {a}
  /\ UNCHANGED <<status, sold, endedBy, returnedBy, refund>>

Sell(a) ==
  /\ status = "open" /\ sold = Nobody /\ a \in paid
  /\ sold' = a
  /\ UNCHANGED <<status, paid, endedBy, returnedBy, refund>>

Confirm ==
  /\ status = "open" /\ sold \in paid
  /\ status' = "confirmed"
  /\ UNCHANGED <<paid, sold, endedBy, returnedBy, refund>>

PutAside ==
  /\ status = "open" /\ paid # {} /\ sold = Nobody
  /\ status' = "exception"
  /\ UNCHANGED <<paid, sold, endedBy, returnedBy, refund>>

TryAgain ==
  /\ status = "exception"
  /\ status' = "open"
  /\ UNCHANGED <<paid, sold, endedBy, returnedBy, refund>>

Cancel(c) ==
  /\ status = "confirmed"
  /\ status' = "cancelled"
  /\ endedBy' = c
  /\ UNCHANGED <<paid, sold, returnedBy, refund>>

ReturnSeat ==
  /\ status = "cancelled" /\ returnedBy = Nobody
  /\ returnedBy' = endedBy
  /\ UNCHANGED <<status, paid, sold, endedBy, refund>>

GiveBack(c, due) ==
  /\ returnedBy = c /\ refund[c] = "none"
  /\ refund' = [refund EXCEPT ![c] = due]
  /\ UNCHANGED <<status, paid, sold, endedBy, returnedBy>>

Entry ==
  \/ \E a \in Payments : Pay(a) \/ Sell(a)
  \/ Confirm \/ PutAside \/ TryAgain \/ ReturnSeat
  \/ \E c \in Requests : Cancel(c) \/ \E due \in {"due", "notDue"} : GiveBack(c, due)

Ledger == Opened /\ [][Entry]_ledger
=============================================================================
