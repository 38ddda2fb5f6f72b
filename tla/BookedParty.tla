----------------------------- MODULE BookedParty -----------------------------
(***************************************************************************)
(* The row of one confirmed booking as the departure's operators see it:   *)
(* its state, the travellers it carries and its Version, the column EF     *)
(* Core compares when an amendment is saved.  Accommodation, amendments,   *)
(* documents, visa cases and the handover all read this row without a      *)
(* lock.  Bookings share no row, so one booking is enough.                 *)
(*                                                                         *)
(* What is begun is bounded instead of what is computed: every operation   *)
(* that may be repeated without end spends one of its allowance `left'.    *)
(***************************************************************************)
EXTENDS Naturals, FiniteSets

CONSTANTS
  Travellers,    \* traveller ids, those an amendment may bring included
  None,          \* SQL NULL
  Covered        \* party sizes whose total the booking's payments cover

ASSUME TravellersAssumption == IsFiniteSet(Travellers) /\ None \notin Travellers

VARIABLES
  bookingState,  \* bookings.State
  party,         \* booking_travellers.TravellerId
  bookingVersion,\* bookings.Version
  left           \* how often each operation may still be begun

bookingRow == <<bookingState, party, bookingVersion>>

(* BookingPolicy.RequiredTravellerCount of Double, Triple and Quad *)
PartySizes == {2, 3, 4}
Parties == {P \in SUBSET Travellers : Cardinality(P) \in PartySizes}

Operations == {"load", "room", "assign", "unassign", "lock", "amend", "cancel",
               "open", "upload", "review", "visa", "handover", "leader"}

BookingInit(P) ==
  /\ bookingState = "Confirmed"
  /\ party = P
  /\ bookingVersion = 1

BookingTypeOK ==
  /\ bookingState \in {"Confirmed", "Cancelled"}
  /\ party \in SUBSET Travellers
  /\ bookingVersion \in Nat \ {0}
  /\ left \in [Operations -> Nat]

Spend(operation) ==
  /\ left[operation] > 0
  /\ left' = [left EXCEPT ![operation] = @ - 1]

(* CancellationRefund!CancelBooking, seen from this row: the state changes and
   the version does not. *)
CancelBooking ==
  /\ bookingState = "Confirmed"
  /\ Spend("cancel")
  /\ bookingState' = "Cancelled"
  /\ UNCHANGED <<party, bookingVersion>>
=============================================================================
