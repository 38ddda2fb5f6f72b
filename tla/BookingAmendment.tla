--------------------------- MODULE BookingAmendment ---------------------------
(***************************************************************************)
(* Amending a confirmed booking: a preview reads the booking and then its  *)
(* travellers, and hands out a protected envelope with the version it read *)
(* and the proposal; a confirmation reads the booking again, compares the  *)
(* version, and replaces the travellers under EF Core's comparison of      *)
(* bookings.Version.  The price of a party follows from its size and the   *)
(* booking's immutable price version, so a proposal is its party; the      *)
(* recalculated commercials and the fingerprint then agree whenever the    *)
(* versions do.                                                            *)
(***************************************************************************)
EXTENDS BookedParty

CONSTANT Amenders   \* operator pages amending this booking

VARIABLES
  amendAt,     \* what each page, or the request it sent, does next
  envelope     \* the preview a page holds, or the one being made

amendVars == <<amendAt, envelope>>

(* `shown' is the current party in the preview's answer *)
Envelope == [version : Nat, shown : SUBSET Travellers, proposed : SUBSET Travellers]

AmendInit ==
  /\ amendAt = [a \in Amenders |-> "editing"]
  /\ envelope = [a \in Amenders |-> None]

AmendTypeOK ==
  /\ amendAt \in [Amenders -> {"editing", "previewing", "preview", "confirming"}]
  /\ envelope \in [Amenders -> Envelope \cup {None}]
  /\ \A a \in Amenders : amendAt[a] # "editing" => envelope[a] \in Envelope

(* A preview is dropped when it is refused, used, expired or edited. *)
Drop(a) ==
  /\ amendAt' = [amendAt EXCEPT ![a] = "editing"]
  /\ envelope' = [envelope EXCEPT ![a] = None]

CanAmend == bookingState = "Confirmed"
-----------------------------------------------------------------------------
(* POST .../amendments/preview: the booking is read and the proposal valid *)
PreviewReadBooking(a, proposed) ==
  /\ amendAt[a] = "editing"
  /\ CanAmend
  /\ Spend("amend")
  /\ amendAt' = [amendAt EXCEPT ![a] = "previewing"]
  /\ envelope' = [envelope EXCEPT ![a] =
       [version |-> bookingVersion, shown |-> {}, proposed |-> proposed]]
  /\ UNCHANGED bookingRow

(* the current travellers are read, and the envelope handed out *)
PreviewReadTravellers(a) ==
  /\ amendAt[a] = "previewing"
  /\ amendAt' = [amendAt EXCEPT ![a] = "preview"]
  /\ envelope' = [envelope EXCEPT ![a].shown = party]
  /\ UNCHANGED <<left, bookingRow>>

PreviewExpires(a) ==
  /\ amendAt[a] = "preview"
  /\ Drop(a)
  /\ UNCHANGED <<left, bookingRow>>

(* POST .../amendments/confirm: the booking is read without a lock; a state or
   version that does not fit is a refusal, and the page drops the preview *)
ConfirmReadBooking(a) ==
  /\ amendAt[a] = "preview"
  /\ CanAmend
  /\ bookingVersion = envelope[a].version
  /\ amendAt' = [amendAt EXCEPT ![a] = "confirming"]
  /\ UNCHANGED <<left, bookingRow, envelope>>

(* Mutant of AmendmentSaves: bookings.Version is no concurrency token. *)
AmendmentSavesOver(a) == TRUE

AmendmentSaves(a) == bookingVersion = envelope[a].version

(* Travellers and instalments are replaced and the version counted up, with
   the booking's state as it is by now. *)
SaveAmendment(a) ==
  /\ amendAt[a] = "confirming"
  /\ IF AmendmentSaves(a)
       THEN /\ party' = envelope[a].proposed
            /\ bookingVersion' = bookingVersion + 1
       ELSE UNCHANGED <<party, bookingVersion>>
  /\ Drop(a)
  /\ UNCHANGED <<left, bookingState>>

AmendStep(a) ==
  \/ PreviewReadTravellers(a) \/ PreviewExpires(a)
  \/ ConfirmReadBooking(a) \/ SaveAmendment(a)
  \/ \E P \in Parties : PreviewReadBooking(a, P)

AmendmentNext == \E a \in Amenders : AmendStep(a)
=============================================================================
