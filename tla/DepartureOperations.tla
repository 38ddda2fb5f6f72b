-------------------------- MODULE DepartureOperations --------------------------
(***************************************************************************)
(* Everything the operators of a departure and the customer do between a   *)
(* confirmed booking and the handover, composed over the tables they       *)
(* share.  A scenario says what was prepared and how often each operation  *)
(* may still be begun.                                                     *)
(***************************************************************************)
EXTENDS DepartureHandover, BookingAmendment

CONSTANT Scenarios   \* [party, prepared, visas, left]: see Init

ASSUME ScenariosAssumption ==
  \A s \in Scenarios :
    /\ s.party \in Parties
    /\ s.prepared \in {{}, s.party}
    /\ s.visas \in {"Processing", "Approved"}
    /\ s.left \in [Operations -> Nat]

vars == <<bookingRow, left, roomVars, amendVars, documentVars, visaVars, handoverVars>>

Init ==
  /\ \E s \in Scenarios :
       /\ BookingInit(s.party)
       /\ left = s.left
       /\ RoomsInit(s.prepared)
       /\ PapersInit(s.prepared, s.visas)
  /\ AmendInit
  /\ HandoverInit

CancellationStep ==
  CancelBooking /\ UNCHANGED <<roomVars, amendVars, documentVars, visaVars, handoverVars>>
AccommodationStep ==
  AccommodationNext /\ UNCHANGED <<bookingRow, amendVars, documentVars, visaVars, handoverVars>>
AmendmentStep ==
  AmendmentNext /\ UNCHANGED <<roomVars, documentVars, visaVars, handoverVars>>
PaperStep == PapersNext /\ UNCHANGED <<bookingRow, roomVars, amendVars, handoverVars>>
HandoverStep ==
  HandoverNext /\ UNCHANGED <<bookingRow, roomVars, amendVars, documentVars, visaVars>>

Next == CancellationStep \/ AccommodationStep \/ AmendmentStep \/ PaperStep \/ HandoverStep

Spec == Init /\ [][Next]_vars
-----------------------------------------------------------------------------
TypeOK ==
  /\ BookingTypeOK /\ RoomsTypeOK /\ AmendTypeOK /\ PapersTypeOK /\ HandoverTypeOK

(* VS-26-ROOM-ASSIGNMENT-ACCOMMODATION-OPERATIONS.md:23, "a room may never
   exceed its configured capacity", with any number of operators assigning,
   moving and removing at once, and the people an amendment took out of the
   party counted like the others. *)
RoomsWithinCapacity == \A r \in Rooms : Cardinality(In(placed, r)) <= Beds[r]

Rooming == INSTANCE RoomPlan

(* Whatever the requests read and when, every change of the rooms is one step
   of RoomPlan: into or out of a room that is unlocked at that moment. *)
ImplementsRoomPlan == Rooming!Plan

(* VS-26:24, "stale assignment versions are rejected rather than silently
   overwritten": when a page's request changes a room, nobody is in it whom the
   page does not show there, although the page read rooms and people in two
   queries and others went on meanwhile. *)
ChangesWhatTheOperatorSaw ==
  [][\A o \in Operators :
       LET r == ask[o].room IN
       /\ ask[o] # None /\ ask'[o] = None
       /\ ask[o].op # "create"
       /\ roomVersion'[r] # roomVersion[r]
       => In(placed, r) \subseteq In(seenPlaced[o], r)]_vars

(* VS-25-OPERATOR-BOOKING-AMENDMENTS-TRAVELLER-MANAGEMENT.md:65, "A stale
   version returns conflict and performs no partial mutation": an amendment
   replaces exactly the party its preview showed, by the party it proposed. *)
AmendsWhatWasPreviewed ==
  [][bookingVersion' # bookingVersion =>
       \E a \in Amenders :
         /\ amendAt[a] = "confirming"
         /\ envelope[a].shown = party /\ envelope[a].proposed = party']_vars

(* VS-13-VISA-PROCESSING-TRACKER.md:13, "Approved and Rejected cases cannot be
   silently reopened"; likewise a document that was reviewed is only ever
   superseded or deleted, whatever reviews, checks and uploads overlap. *)
VerdictsStand ==
  [][/\ \A q \in Requirements : \A i \in DOMAIN submissions[q] :
          submissions[q][i].state \in Verdicts =>
            submissions'[q][i].state \in {submissions[q][i].state} \cup Superseding
     /\ \A t \in Travellers :
          visa[t] \in {"Approved", "Rejected"} => visa'[t] = visa[t]]_vars

(* VS-28-FINAL-DEPARTURE-HANDOVER-READINESS.md:20, completed is a "read-only
   state": no second completion and no group leader that was being saved
   meanwhile changes the row any more. *)
CompletedIsFrozen == [][completed => UNCHANGED handoverRow]_vars

(* VS-28:12, "Final handover is blocked while unresolved payment, document,
   visa or accommodation blockers remain".  Of the four only the visa holds for
   good: everybody counted by the completing snapshot has an approved one,
   however old the snapshot was when it was saved. *)
HandedOverHaveVisas == completed => \A t \in handedOver : visa[t] = "Approved"
=============================================================================
