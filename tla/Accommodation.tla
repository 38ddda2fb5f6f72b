---------------------------- MODULE Accommodation ----------------------------
(***************************************************************************)
(* The rooms of a booking, changed from several operator pages at once.    *)
(* A page shows the rooms and the people in them as two queries found them *)
(* and sends the version of a room with every change; the endpoint reads   *)
(* the room, then the people, then (for a move) the room left behind, and  *)
(* saves under EF Core's comparison of the rooms' Version columns and the  *)
(* unique index on (booking, stay, traveller).                             *)
(*                                                                         *)
(* A refused request changes nothing, so requests refused at their first   *)
(* read are left out.                                                      *)
(***************************************************************************)
EXTENDS BookedParty

CONSTANTS
  Operators,     \* operator pages showing this booking
  Rooms,         \* room labels
  StayOf,        \* the stay of each room, fixed when it is created
  TypeOf         \* the room type of each room, fixed when it is created

Stays == {"Makkah", "Madinah"}
RoomTypes == {"Double", "Triple", "Quad"}

ASSUME RoomsAssumption ==
  /\ None \notin Rooms
  /\ StayOf \in [Rooms -> Stays]
  /\ TypeOf \in [Rooms -> RoomTypes]

VARIABLES
  roomVersion,   \* accommodation_rooms.Version; 0 while there is no row
  locked,        \* rooms whose IsLocked is true
  placed,        \* accommodation_assignments as pairs <<traveller, room>>
  at,            \* what each page, or the request it sent, does next
  ask,           \* the request the page is waiting for
  seenVersion,   \* room versions the page shows; 0 for a room not shown
  seenPlaced     \* assignments the page shows

roomTables == <<roomVersion, locked, placed>>
pageVars == <<at, ask, seenVersion, seenPlaced>>
roomVars == <<roomTables, pageVars>>

Capacity(type) == CASE type = "Double" -> 2 [] type = "Triple" -> 3 [] type = "Quad" -> 4
Beds == [r \in Rooms |-> Capacity(TypeOf[r])]

open == {r \in Rooms : roomVersion[r] > 0}
In(rows, r) == {t \in Travellers : <<t, r>> \in rows}
SameStay(r) == {p \in Rooms : StayOf[p] = StayOf[r]}
(* rooms of r's stay in which rows put traveller t *)
RoomsOf(rows, t, r) == {p \in SameStay(r) : <<t, p>> \in rows}
PlacedInEveryStay(rows, t) ==
  \A stay \in Stays : \E r \in Rooms : StayOf[r] = stay /\ <<t, r>> \in rows

Request ==
  [op : {"create", "lock"}, room : Rooms, traveller : {None}, previous : {None}]
  \cup [op : {"assign", "unassign"}, room : Rooms, traveller : Travellers,
        previous : Rooms \cup {None}]

(* Rooms are empty, or in order: everyone of the party in a room of each stay
   as separate assignments left them. *)
RoomsInit(prepared) ==
  /\ locked = {}
  /\ placed \in SUBSET (prepared \X Rooms)
  /\ \A t \in prepared, r \in Rooms : Cardinality(RoomsOf(placed, t, r)) = 1
  /\ \A r \in Rooms : Cardinality(In(placed, r)) <= Beds[r]
  /\ roomVersion = [r \in Rooms |-> IF prepared = {} THEN 0 ELSE 1 + Cardinality(In(placed, r))]
  /\ at = [o \in Operators |-> "loading"]
  /\ ask = [o \in Operators |-> None]
  /\ seenVersion = [o \in Operators |-> [r \in Rooms |-> 0]]
  /\ seenPlaced = [o \in Operators |-> {}]

RoomsTypeOK ==
  /\ roomVersion \in [Rooms -> Nat]
  /\ locked \subseteq Rooms
  /\ placed \subseteq Travellers \X Rooms
  /\ at \in [Operators -> {"loading", "rooms", "ready", "rows", "previous", "save"}]
  /\ ask \in [Operators -> Request \cup {None}]
  /\ seenVersion \in [Operators -> [Rooms -> Nat]]
  /\ seenPlaced \in [Operators -> SUBSET (Travellers \X Rooms)]
  /\ \A o \in Operators :
       IF at[o] \in {"rows", "previous", "save"} THEN ask[o] \in Request ELSE ask[o] = None
-----------------------------------------------------------------------------
(* GET .../accommodation, asked for by the page: the rooms are read first *)
LoadRooms(o) ==
  /\ at[o] \in {"loading", "ready"}
  /\ Spend("load")
  /\ at' = [at EXCEPT ![o] = "rooms"]
  /\ seenVersion' = [seenVersion EXCEPT ![o] = roomVersion]
  /\ UNCHANGED <<roomTables, ask, seenPlaced>>

(* and the assignments afterwards *)
LoadRows(o) ==
  /\ at[o] = "rooms"
  /\ at' = [at EXCEPT ![o] = "ready"]
  /\ seenPlaced' = [seenPlaced EXCEPT ![o] = placed]
  /\ UNCHANGED <<left, roomTables, ask, seenVersion>>

(* The page sends a request and waits; `next' is the endpoint's next read. *)
Begin(o, op, r, t, next) ==
  /\ at[o] = "ready"
  /\ bookingState = "Confirmed"
  /\ at' = [at EXCEPT ![o] = next]
  /\ ask' = [ask EXCEPT ![o] = [op |-> op, room |-> r, traveller |-> t, previous |-> None]]
  /\ UNCHANGED <<roomTables, seenVersion, seenPlaced>>

(* Mutant of Answered: the page shows the answer and stays busy. *)
AnsweredStillBusy(o, pages) ==
  /\ \E page \in pages : at' = [at EXCEPT ![o] = page]
  /\ UNCHANGED <<ask, seenVersion, seenPlaced>>

(* The page gets its answer: it loads again after a success, and keeps what it
   shows after a refusal or when the answer is lost. *)
Answered(o, pages) ==
  /\ \E page \in pages : at' = [at EXCEPT ![o] = page]
  /\ ask' = [ask EXCEPT ![o] = None]
  /\ UNCHANGED <<seenVersion, seenPlaced>>
Refused == {"ready"}
Succeeded == {"loading", "ready"}

(* The expected version of an open room the page sent is the version read. *)
AsExpected(o, r) == r \in open /\ roomVersion[r] = seenVersion[o][r]

(* Mutant of TokenHolds: the UPDATE has no version in its WHERE clause. *)
TokenIgnored(o, r) == TRUE

(* UPDATE ... WHERE "Version" = the version read, which was the one expected *)
TokenHolds(o, r) == roomVersion[r] = seenVersion[o][r]
-----------------------------------------------------------------------------
(* POST .../rooms; the label is looked up first and unique in the table *)
BeginCreate(o, r) ==
  /\ r \notin open
  /\ Spend("room")
  /\ Begin(o, "create", r, None, "save")

SaveCreate(o) ==
  LET r == ask[o].room IN
  /\ at[o] = "save" /\ ask[o].op = "create"
  /\ IF r \in open
       THEN UNCHANGED roomVersion /\ Answered(o, Refused)
       ELSE roomVersion' = [roomVersion EXCEPT ![r] = 1] /\ Answered(o, Succeeded)
  /\ UNCHANGED <<left, locked, placed>>

(* POST .../rooms/{r}/assign: booking and room are read and pass *)
BeginAssign(o, t, r) ==
  /\ AsExpected(o, r) /\ r \notin locked
  /\ Spend("assign")
  /\ Begin(o, "assign", r, t, "rows")

(* Travellers and assignments are read: ValidateMutation. *)
AssignReadRows(o) ==
  LET r == ask[o].room
      t == ask[o].traveller
      current == RoomsOf(placed, t, r)
      allowed == t \in party /\ r \notin current /\ Cardinality(In(placed, r)) < Beds[r]
  IN
  /\ at[o] = "rows" /\ ask[o].op = "assign"
  /\ \/ /\ ~allowed
        /\ Answered(o, Refused)
     \/ /\ allowed /\ current = {}
        /\ at' = [at EXCEPT ![o] = "save"]
        /\ UNCHANGED <<ask, seenVersion, seenPlaced>>
     \/ /\ allowed
        /\ \E p \in current : ask' = [ask EXCEPT ![o].previous = p]
        /\ at' = [at EXCEPT ![o] = "previous"]
        /\ UNCHANGED <<seenVersion, seenPlaced>>
  /\ UNCHANGED <<left, roomTables>>

(* The version the page sent for the room it shows the traveller in is the
   version of p.  That p is the room shown is not compared. *)
PreviousAsExpected(o, p) ==
  \E shown \in RoomsOf(seenPlaced[o], ask[o].traveller, p) :
    roomVersion[p] = seenVersion[o][shown]

(* For a move the room left behind is read. *)
AssignReadPrevious(o) ==
  /\ at[o] = "previous"
  /\ IF PreviousAsExpected(o, ask[o].previous)
       THEN at' = [at EXCEPT ![o] = "save"] /\ UNCHANGED <<ask, seenVersion, seenPlaced>>
       ELSE Answered(o, Refused)
  /\ UNCHANGED <<left, roomTables>>

(* The traveller has an assignment in the stay.  An UPDATE or DELETE by the id
   read earlier finds it, in whatever room it is by now, or finds no row and
   fails; an INSERT fails on the unique index when it is there.  (A row that
   was deleted and inserted again has another id; it is let pass here.) *)
RowThere(t, r) == RoomsOf(placed, t, r) # {}
RowOf(t, r) == {t} \X SameStay(r)

(* Both rooms' versions are compared by the save. *)
AssignmentSaves(o) ==
  LET p == ask[o].previous IN
  /\ TokenHolds(o, ask[o].room)
  /\ RowThere(ask[o].traveller, ask[o].room) <=> p # None
  /\ p # None => PreviousAsExpected(o, p)

(* Mutant of CountedUp: the room moved into keeps its version. *)
CountedUpBehind(r, p) == [q \in Rooms |-> roomVersion[q] + (IF q = p THEN 1 ELSE 0)]

(* room.Version++ and, for a move, previousRoom.Version++ *)
CountedUp(r, p) == [q \in Rooms |-> roomVersion[q] + (IF q \in {r, p} THEN 1 ELSE 0)]

SaveAssign(o) ==
  LET r == ask[o].room
      t == ask[o].traveller
  IN
  /\ at[o] = "save" /\ ask[o].op = "assign"
  /\ IF AssignmentSaves(o)
       THEN /\ placed' = (placed \ RowOf(t, r)) \cup {<<t, r>>}
            /\ roomVersion' = CountedUp(r, ask[o].previous)
            /\ Answered(o, Succeeded)
       ELSE /\ UNCHANGED <<placed, roomVersion>>
            /\ Answered(o, Refused)
  /\ UNCHANGED <<left, locked>>

(* POST .../rooms/{r}/unassign *)
BeginUnassign(o, t, r) ==
  /\ AsExpected(o, r) /\ r \notin locked
  /\ Spend("unassign")
  /\ Begin(o, "unassign", r, t, "rows")

UnassignReadRows(o) ==
  /\ at[o] = "rows" /\ ask[o].op = "unassign"
  /\ IF ask[o].traveller \in In(placed, ask[o].room)
       THEN at' = [at EXCEPT ![o] = "save"] /\ UNCHANGED <<ask, seenVersion, seenPlaced>>
       ELSE Answered(o, Refused)
  /\ UNCHANGED <<left, roomTables>>

SaveUnassign(o) ==
  LET r == ask[o].room IN
  /\ at[o] = "save" /\ ask[o].op = "unassign"
  /\ IF TokenHolds(o, r) /\ RowThere(ask[o].traveller, r)
       THEN /\ placed' = placed \ RowOf(ask[o].traveller, r)
            /\ roomVersion' = [roomVersion EXCEPT ![r] = @ + 1]
            /\ Answered(o, Succeeded)
       ELSE /\ UNCHANGED <<placed, roomVersion>>
            /\ Answered(o, Refused)
  /\ UNCHANGED <<left, locked>>

(* POST .../rooms/{r}/lock; the page asks for the opposite of what it shows,
   which the version says is the state of the room *)
BeginLock(o, r) ==
  /\ AsExpected(o, r)
  /\ Spend("lock")
  /\ Begin(o, "lock", r, None, "save")

(* Mutant of SaveLock: the lock is written beside the version. *)
SaveLockQuietly(o) ==
  LET r == ask[o].room IN
  /\ at[o] = "save" /\ ask[o].op = "lock"
  /\ locked' = IF r \in locked THEN locked \ {r} ELSE locked \cup {r}
  /\ Answered(o, Succeeded)
  /\ UNCHANGED <<left, placed, roomVersion>>

SaveLock(o) ==
  LET r == ask[o].room IN
  /\ at[o] = "save" /\ ask[o].op = "lock"
  /\ IF TokenHolds(o, r)
       THEN /\ locked' = IF r \in locked THEN locked \ {r} ELSE locked \cup {r}
            /\ roomVersion' = [roomVersion EXCEPT ![r] = @ + 1]
            /\ Answered(o, Succeeded)
       ELSE /\ UNCHANGED <<locked, roomVersion>>
            /\ Answered(o, Refused)
  /\ UNCHANGED <<left, placed>>

RoomStep(o) ==
  \/ LoadRooms(o) \/ LoadRows(o)
  \/ AssignReadRows(o) \/ AssignReadPrevious(o) \/ UnassignReadRows(o)
  \/ SaveCreate(o) \/ SaveAssign(o) \/ SaveUnassign(o) \/ SaveLock(o)
  \/ \E r \in Rooms :
       \/ BeginCreate(o, r) \/ BeginLock(o, r)
       \/ \E t \in Travellers : BeginAssign(o, t, r) \/ BeginUnassign(o, t, r)

AccommodationNext == \E o \in Operators : RoomStep(o)
=============================================================================
