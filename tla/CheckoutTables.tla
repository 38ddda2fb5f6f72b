--------------------------- MODULE CheckoutTables ---------------------------
(***************************************************************************)
(* The rows the checkout of one booking shares, in three schemas that no   *)
(* transaction spans: the booking (booking.bookings), its payment attempts *)
(* (payments.payment_attempts, one per idempotency key) and its hold with  *)
(* the commitment made from it (schema inventory).  Bookings share no row, *)
(* so one booking is enough; the competition of holds for seats is the     *)
(* subject of InventoryHolds, and only what may happen to this one row is  *)
(* kept.                                                                   *)
(***************************************************************************)
EXTENDS BookingPolicy, PaymentPolicy

CONSTANTS
  Attempts,      \* payment attempts, named by their idempotency keys
  None,          \* SQL NULL
  MayCrash       \* whether requests may die between two transactions

(* When a payment was captured, against the hold's expiry *)
Settlement == {"inTime", "late"}

(* An order has at most one payment that is captured, "taken"; the payments
   that were declined before it have other ids, "declined". *)
ProviderPayment == {"taken", "declined"}

ASSUME NoneAssumption == None \notin Attempts \cup Settlement \cup ProviderPayment
ASSUME CrashAssumption == MayCrash \in BOOLEAN

VARIABLES
  bookingState,  \* bookings.State
  settled,       \* bookings.SettledPaymentAttemptId
  attemptState,  \* payment_attempts.State; "Absent" until inserted
  session,       \* attempts whose ProviderSessionId is the provider's order
  paymentId,     \* payment_attempts.ProviderPaymentId
  settledAt,     \* payment_attempts.SettledAtUtc, against the hold's expiry
  holdState,     \* inventory_holds.State
  lapsed,        \* the clock is past the hold's expiry
  staleGet,      \* a GET read the hold as active and may overwrite it
  commitment     \* attempt named by the inventory_commitments row

bookingVars == <<bookingState, settled>>
attemptVars == <<attemptState, session, paymentId, settledAt>>
holdVars == <<holdState, lapsed, staleGet, commitment>>
tables == <<bookingVars, attemptVars, holdVars>>

TablesInit ==
  /\ bookingState = "PendingPayment"
  /\ settled = None
  /\ attemptState = [a \in Attempts |-> "Absent"]
  /\ session = {}
  /\ paymentId = [a \in Attempts |-> None]
  /\ settledAt = [a \in Attempts |-> None]
  /\ holdState = "Active"
  /\ lapsed = FALSE
  /\ staleGet = FALSE
  /\ commitment = None

TablesTypeOK ==
  /\ bookingState \in BookingState
  /\ settled \in Attempts \cup {None}
  /\ attemptState \in [Attempts -> PaymentAttemptState \cup {"Absent"}]
  /\ session \subseteq Attempts
  /\ paymentId \in [Attempts -> ProviderPayment \cup {None}]
  /\ settledAt \in [Attempts -> Settlement \cup {None}]
  /\ holdState \in {"Active", "Released", "Expired", "Committed"}
  /\ lapsed \in BOOLEAN
  /\ staleGet \in BOOLEAN
  /\ commitment \in Attempts \cup {None}
-----------------------------------------------------------------------------
(* The clock passes the hold's expiry; no row changes. *)
HoldLapses ==
  /\ ~lapsed
  /\ lapsed' = TRUE
  /\ UNCHANGED <<bookingVars, attemptVars, holdState, staleGet, commitment>>

(* Another creation or a capacity save materialises the lapsed hold, or the
   customer releases it (InventoryHolds!CreateHold, SaveInventory and
   ReleaseHold, seen from this row). *)
HoldEnds ==
  /\ holdState = "Active"
  /\ holdState' = IF lapsed THEN "Expired" ELSE "Released"
  /\ UNCHANGED <<bookingVars, attemptVars, lapsed, staleGet, commitment>>

(* InventoryHolds!GetHoldRead and GetHoldWrite, seen from this row *)
HoldReadByGet ==
  /\ ~staleGet /\ holdState = "Active"
  /\ staleGet' = TRUE
  /\ UNCHANGED <<bookingVars, attemptVars, holdState, lapsed, commitment>>

HoldOverwrittenByGet ==
  /\ staleGet
  /\ staleGet' = FALSE
  /\ holdState' = IF lapsed THEN "Expired" ELSE holdState
  /\ UNCHANGED <<bookingVars, attemptVars, lapsed, commitment>>

HoldNext == HoldLapses \/ HoldEnds \/ HoldReadByGet \/ HoldOverwrittenByGet
=============================================================================
