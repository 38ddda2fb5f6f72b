--------------------------- MODULE DepartureHandover ---------------------------
(***************************************************************************)
(* Handing a departure over: completion builds a snapshot of the readiness *)
(* of every traveller out of five schemas, one unlocked query after        *)
(* another, then reads the handover row and saves; naming the group leader *)
(* writes the same row.  The row is saved under EF Core's comparison of    *)
(* its Version and the unique index on (operator, departure).              *)
(***************************************************************************)
EXTENDS Accommodation, TravelPapers

CONSTANTS
  Closers,       \* requests to complete the handover
  Leads,         \* requests to name the group leader
  Leaders        \* names of group leaders

ASSUME LeadersAssumption == None \notin Leaders

VARIABLES
  handoverVersion,  \* departure_handovers.Version; 0 while there is no row
  completed,        \* IsCompleted
  leader,           \* GroupLeaderName
  handedOver,       \* the travellers the completing snapshot counted
  closing,          \* the snapshot each completion has built so far
  naming            \* the leader each request is about to save

handoverRow == <<handoverVersion, completed, leader, handedOver>>
handoverVars == <<handoverRow, closing, naming>>

Snapshot == [at : {"travellers", "documents", "visas", "rooms", "row", "save"},
             paid : BOOLEAN, travellers : SUBSET Travellers, version : Nat]
Naming == [name : Leaders \cup {None}, version : Nat]

HandoverInit ==
  /\ handoverVersion = 0
  /\ completed = FALSE
  /\ leader = None
  /\ handedOver = {}
  /\ closing = [h \in Closers |-> None]
  /\ naming = [g \in Leads |-> None]

HandoverTypeOK ==
  /\ handoverVersion \in Nat
  /\ completed \in BOOLEAN
  /\ leader \in Leaders \cup {None}
  /\ handedOver \subseteq Travellers
  /\ closing \in [Closers -> Snapshot \cup {None}]
  /\ naming \in [Leads -> Naming \cup {None}]

(* sum of the succeeded payments >= booking.Total, by the size of the party *)
PaymentsCover == Cardinality(party) \in Covered
-----------------------------------------------------------------------------
(* POST .../handover/complete with the version the page shows: the departure's
   confirmed booking is read, with its total *)
BeginSnapshot(h) ==
  /\ closing[h] = None
  /\ bookingState = "Confirmed"
  /\ Spend("handover")
  /\ closing' = [closing EXCEPT ![h] =
       [at |-> "travellers", paid |-> PaymentsCover, travellers |-> {},
        version |-> handoverVersion]]
  /\ UNCHANGED <<handoverRow, naming>>

(* Each further query goes on with the snapshot, or finds somebody blocked and
   ends in a refusal. *)
Goes(h, from, to, ready) ==
  /\ closing[h] # None /\ closing[h].at = from
  /\ closing' = [closing EXCEPT ![h] = IF ready THEN [closing[h] EXCEPT !.at = to] ELSE None]
  /\ UNCHANGED <<left, handoverRow, naming>>

ReadTravellers(h) ==
  /\ closing[h] # None /\ closing[h].at = "travellers"
  /\ closing' = [closing EXCEPT ![h] =
       IF closing[h].paid /\ party # {}
         THEN [closing[h] EXCEPT !.at = "documents", !.travellers = party] ELSE None]
  /\ UNCHANGED <<left, handoverRow, naming>>

ReadDocuments(h) ==
  Goes(h, "documents", "visas", \A t \in closing[h].travellers : DocumentsReady(t))

(* Mutant of VisaReady: a traveller is blocked by a rejection only. *)
VisaNotRefused(t) == visa[t] # "Rejected"

VisaReady(t) == visa[t] = "Approved"

ReadVisas(h) ==
  Goes(h, "visas", "rooms", \A t \in closing[h].travellers : VisaReady(t))

ReadAssignments(h) ==
  Goes(h, "rooms", "row", \A t \in closing[h].travellers : PlacedInEveryStay(placed, t))

(* The row is read last; completed already, or of another version than the one
   the page shows, it is left alone. *)
ReadHandover(h) ==
  Goes(h, "row", "save", ~completed /\ handoverVersion = closing[h].version)

(* Mutant of RowAsRead: the UPDATE has no version in its WHERE clause. *)
RowAnyhow(version) == TRUE

(* The row is inserted when none was read, and otherwise updated. *)
RowAsRead(version) == handoverVersion = version

SaveCompletion(h) ==
  /\ closing[h] # None /\ closing[h].at = "save"
  /\ IF RowAsRead(closing[h].version)
       THEN /\ completed' = TRUE
            /\ handedOver' = closing[h].travellers
            /\ handoverVersion' = handoverVersion + 1
       ELSE UNCHANGED <<completed, handedOver, handoverVersion>>
  /\ closing' = [closing EXCEPT ![h] = None]
  /\ UNCHANGED <<left, leader, naming>>

(* PUT .../group-leader: the row is read, not completed, of the version shown *)
BeginNaming(g, name) ==
  /\ naming[g] = None
  /\ ~completed
  /\ handoverVersion = 0 => name # None
  /\ Spend("leader")
  /\ naming' = [naming EXCEPT ![g] = [name |-> name, version |-> handoverVersion]]
  /\ UNCHANGED <<handoverRow, closing>>

SaveNaming(g) ==
  /\ naming[g] # None
  /\ IF RowAsRead(naming[g].version)
       THEN /\ leader' = naming[g].name
            /\ handoverVersion' = handoverVersion + 1
       ELSE UNCHANGED <<leader, handoverVersion>>
  /\ naming' = [naming EXCEPT ![g] = None]
  /\ UNCHANGED <<left, completed, handedOver, closing>>

HandoverNext ==
  \/ \E h \in Closers :
       \/ BeginSnapshot(h) \/ ReadTravellers(h) \/ ReadDocuments(h) \/ ReadVisas(h)
       \/ ReadAssignments(h) \/ ReadHandover(h) \/ SaveCompletion(h)
  \/ \E g \in Leads :
       \/ SaveNaming(g)
       \/ \E name \in Leaders \cup {None} : BeginNaming(g, name)
=============================================================================
