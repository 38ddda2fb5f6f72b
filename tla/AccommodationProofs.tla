-------------------------- MODULE AccommodationProofs --------------------------
(***************************************************************************)
(* Proofs about the rooms of DepartureOperations for every set of          *)
(* operators, travellers and rooms and every scenario.                     *)
(***************************************************************************)
EXTENDS DepartureOperations, FiniteSetTheorems, TLAPS

Busy == {"rows", "previous", "save"}

(* One traveller more or less in a finite room. *)
LEMMA OneMore ==
  ASSUME NEW S, IsFiniteSet(S), NEW T, NEW t, T \subseteq S \cup {t}
  PROVE  Cardinality(T) <= Cardinality(S) + 1
<1>1. IsFiniteSet(S \cup {t}) /\ Cardinality(S \cup {t}) <= Cardinality(S) + 1
  <2>1. Cardinality(S) \in Nat
    BY FS_CardinalityType
  <2>2. IsFiniteSet(S \cup {t})
        /\ (Cardinality(S \cup {t}) = Cardinality(S) \/ Cardinality(S \cup {t}) = Cardinality(S) + 1)
    BY FS_AddElement
  <2> QED
    BY <2>1, <2>2
<1>2. Cardinality(T) <= Cardinality(S \cup {t}) /\ Cardinality(T) \in Nat
  BY <1>1, FS_Subset, FS_CardinalityType
<1> QED
  BY <1>1, <1>2, FS_CardinalityType

(* The people in a room are finitely many, and fewer rows hold fewer people. *)
LEMMA PeopleInARoom ==
  ASSUME NEW rows, NEW r
  PROVE  /\ In(rows, r) \subseteq Travellers
         /\ IsFiniteSet(In(rows, r)) /\ Cardinality(In(rows, r)) \in Nat
<1>1. In(rows, r) \subseteq Travellers
  BY DEF In
<1> QED
  BY <1>1, TravellersAssumption, FS_Subset, FS_CardinalityType

LEMMA FewerPeople ==
  ASSUME NEW rows, NEW r, NEW fewer, NEW q, In(fewer, q) \subseteq In(rows, r)
  PROVE  Cardinality(In(fewer, q)) <= Cardinality(In(rows, r))
BY PeopleInARoom, FS_Subset

LEMMA Between ==
  ASSUME NEW before \in Nat, NEW after \in Nat, NEW shown \in Nat,
         shown <= before, before <= after, after = shown
  PROVE  after = before /\ before = shown
OBVIOUS

LEMMA BedsType == Beds \in [Rooms -> Nat]
BY RoomsAssumption DEF Beds, Capacity, RoomTypes
-----------------------------------------------------------------------------
(* The steps that touch the rooms or the pages are the operators' own. *)
LEMMA OthersLeaveRooms ==
  ASSUME [Next]_vars
  PROVE  AccommodationNext \/ UNCHANGED roomVars
BY DEF Next, vars, CancellationStep, AccommodationStep, AmendmentStep, PaperStep, HandoverStep

(* Types of the room tables and the pages are kept by every step. *)
LEMMA RoomTypesStep ==
  ASSUME RoomsTypeOK, [Next]_vars
  PROVE  RoomsTypeOK'
<1> USE DEF RoomsTypeOK, roomTables
<1>1. ASSUME NEW o \in Operators, LoadRooms(o) PROVE RoomsTypeOK'
  BY <1>1 DEF LoadRooms
<1>2. ASSUME NEW o \in Operators, LoadRows(o) PROVE RoomsTypeOK'
  BY <1>2 DEF LoadRows
<1>3. ASSUME NEW o \in Operators, AssignReadRows(o) PROVE RoomsTypeOK'
  <2> DEFINE r == ask[o].room
             t == ask[o].traveller
             current == RoomsOf(placed, t, r)
  <2>1. ask[o] \in Request /\ current \subseteq Rooms
    BY <1>3 DEF AssignReadRows, RoomsOf, SameStay
  <2>2. CASE Answered(o, Refused)
    BY <1>3, <2>1, <2>2 DEF AssignReadRows, Answered, Refused
  <2>3. CASE at' = [at EXCEPT ![o] = "save"] /\ UNCHANGED <<ask, seenVersion, seenPlaced>>
    BY <1>3, <2>1, <2>3 DEF AssignReadRows
  <2>4. ASSUME NEW p \in current, ask' = [ask EXCEPT ![o].previous = p],
               at' = [at EXCEPT ![o] = "previous"], UNCHANGED <<seenVersion, seenPlaced>>
        PROVE  RoomsTypeOK'
    <3>1. ask[o] \in [op : {"assign", "unassign"}, room : Rooms, traveller : Travellers,
                      previous : Rooms \cup {None}]
      BY <1>3, <2>1 DEF AssignReadRows, Request
    <3>2. [ask[o] EXCEPT !.previous = p] \in Request
      BY <2>1, <3>1 DEF Request
    <3>3. ask' = [ask EXCEPT ![o] = [ask[o] EXCEPT !.previous = p]]
      BY <2>4
    <3>4. ask' \in [Operators -> Request \cup {None}]
          /\ ask'[o] \in Request /\ \A x \in Operators \ {o} : ask'[x] = ask[x]
      BY <3>2, <3>3
    <3> QED
      BY <1>3, <2>4, <3>4 DEF AssignReadRows
  <2> QED
    BY <1>3, <2>2, <2>3, <2>4 DEF AssignReadRows
<1>4. ASSUME NEW o \in Operators, AssignReadPrevious(o) PROVE RoomsTypeOK'
  BY <1>4 DEF AssignReadPrevious, Answered, Refused
<1>5. ASSUME NEW o \in Operators, UnassignReadRows(o) PROVE RoomsTypeOK'
  BY <1>5 DEF UnassignReadRows, Answered, Refused
<1>6. ASSUME NEW o \in Operators, SaveCreate(o) PROVE RoomsTypeOK'
  <2>1. ask[o] \in Request /\ ask[o].room \in Rooms
    BY <1>6 DEF SaveCreate, Request
  <2>2. roomVersion' \in [Rooms -> Nat]
    BY <1>6, <2>1 DEF SaveCreate
  <2> QED
    BY <1>6, <2>2 DEF SaveCreate, Answered, Refused, Succeeded
<1>7. ASSUME NEW o \in Operators, SaveAssign(o) PROVE RoomsTypeOK'
  <2>1. ask[o] \in Request
    BY <1>7 DEF SaveAssign
  <2>2. CASE AssignmentSaves(o)
    <3>1. roomVersion' \in [Rooms -> Nat]
      BY <1>7, <2>2 DEF SaveAssign, CountedUp
    <3>2. placed' \subseteq Travellers \X Rooms
      BY <1>7, <2>1, <2>2 DEF SaveAssign, Request
    <3> QED
      BY <1>7, <2>1, <2>2, <3>1, <3>2 DEF SaveAssign, Answered, Succeeded
  <2>3. CASE ~AssignmentSaves(o)
    BY <1>7, <2>3 DEF SaveAssign, Answered, Refused
  <2> QED
    BY <2>2, <2>3
<1>8. ASSUME NEW o \in Operators, SaveUnassign(o) PROVE RoomsTypeOK'
  <2>1. ask[o] \in Request /\ ask[o].room \in Rooms
    BY <1>8 DEF SaveUnassign, Request
  <2>2. roomVersion' = roomVersion \/ roomVersion' = [roomVersion EXCEPT ![ask[o].room] = @ + 1]
    BY <1>8 DEF SaveUnassign
  <2>4. roomVersion' \in [Rooms -> Nat]
    BY <2>1, <2>2
  <2>3. placed' \subseteq placed
    BY <1>8 DEF SaveUnassign
  <2> QED
    BY <1>8, <2>4, <2>3 DEF SaveUnassign, Answered, Succeeded, Refused
<1>9. ASSUME NEW o \in Operators, SaveLock(o) PROVE RoomsTypeOK'
  <2>1. ask[o] \in Request
    BY <1>9 DEF SaveLock
  <2>2. roomVersion' \in [Rooms -> Nat] /\ locked' \subseteq Rooms
    BY <1>9, <2>1 DEF SaveLock, Request
  <2> QED
    BY <1>9, <2>2 DEF SaveLock, Answered, Succeeded, Refused
<1>10. ASSUME NEW o \in Operators, NEW r \in Rooms,
              \/ BeginCreate(o, r) \/ BeginLock(o, r)
              \/ \E t \in Travellers : BeginAssign(o, t, r) \/ BeginUnassign(o, t, r)
       PROVE  RoomsTypeOK'
  <2>1. PICK op \in {"create", "lock", "assign", "unassign"}, t \in Travellers \cup {None},
             next \in Busy :
          /\ Begin(o, op, r, t, next)
          /\ op \in {"create", "lock"} <=> t = None
    BY <1>10, TravellersAssumption DEF BeginCreate, BeginLock, BeginAssign, BeginUnassign, Busy
  <2>2. [op |-> op, room |-> r, traveller |-> t, previous |-> None] \in Request
    BY <2>1 DEF Request
  <2> QED
    BY <2>1, <2>2 DEF Begin, Busy
<1>11. CASE UNCHANGED roomVars
  BY <1>11 DEF roomVars, pageVars
<1> QED
  BY OthersLeaveRooms, <1>1, <1>2, <1>3, <1>4, <1>5, <1>6, <1>7, <1>8, <1>9, <1>10, <1>11
     DEF AccommodationNext, RoomStep
-----------------------------------------------------------------------------
(* What a page's request may rely on.  What the page shows is not newer than
   the tables, and a room whose version is still the one shown holds nobody
   the page does not show.  A request under way is for a room that was shown;
   the room it moves from exists; and as long as the version of its room is the
   one sent, what was checked when it was read still holds. *)
ShownIsTrue(o) ==
  /\ \A r \in Rooms : seenVersion[o][r] <= roomVersion[r]
  /\ at[o] \notin {"loading", "rooms"} =>
       \A r \in Rooms : TokenHolds(o, r) => In(placed, r) \subseteq In(seenPlaced[o], r)

RequestHolds(o) ==
  LET r == ask[o].room IN
  at[o] \in Busy /\ ask[o].op # "create" =>
    /\ seenVersion[o][r] > 0
    /\ ask[o].previous # None => ask[o].previous \in open
    /\ ask[o].op # "lock" /\ TokenHolds(o, r) => r \notin locked
    /\ ask[o].op = "assign" /\ at[o] # "rows" /\ TokenHolds(o, r) =>
         ask[o].traveller \notin In(placed, r) /\ Cardinality(In(placed, r)) < Beds[r]

PeopleInOpenRooms == placed \subseteq Travellers \X open

RoomsInv ==
  /\ RoomsTypeOK /\ PeopleInOpenRooms /\ RoomsWithinCapacity
  /\ \A o \in Operators : ShownIsTrue(o) /\ RequestHolds(o)
-----------------------------------------------------------------------------
(* A room whose version stays keeps its lock and receives nobody. *)
RoomKept(q) ==
  /\ roomVersion'[q] >= roomVersion[q]
  /\ roomVersion'[q] = roomVersion[q] =>
       In(placed', q) \subseteq In(placed, q) /\ (q \in locked' <=> q \in locked)

(* A page that waits while others act. *)
PageKept(o) ==
  /\ at'[o] = at[o] /\ ask'[o] = ask[o]
  /\ seenVersion'[o] = seenVersion[o] /\ seenPlaced'[o] = seenPlaced[o]

LEMMA OthersWait ==
  ASSUME RoomsTypeOK, NEW o \in Operators, RoomStep(o), NEW x \in Operators \ {o}
  PROVE  PageKept(x)
<1> USE DEF RoomsTypeOK, PageKept
<1>1. CASE LoadRooms(o) \/ LoadRows(o)
  BY <1>1 DEF LoadRooms, LoadRows
<1>2. CASE AssignReadRows(o) \/ AssignReadPrevious(o) \/ UnassignReadRows(o)
  BY <1>2 DEF AssignReadRows, AssignReadPrevious, UnassignReadRows, Answered
<1>3. CASE SaveCreate(o) \/ SaveAssign(o) \/ SaveUnassign(o) \/ SaveLock(o)
  BY <1>3 DEF SaveCreate, SaveAssign, SaveUnassign, SaveLock, Answered
<1>4. CASE \E r \in Rooms :
              \/ BeginCreate(o, r) \/ BeginLock(o, r)
              \/ \E t \in Travellers : BeginAssign(o, t, r) \/ BeginUnassign(o, t, r)
  BY <1>4 DEF BeginCreate, BeginLock, BeginAssign, BeginUnassign, Begin
<1> QED
  BY <1>1, <1>2, <1>3, <1>4 DEF RoomStep

(* Saving writes the room tables, everything else leaves them. *)
Saving(o) == SaveCreate(o) \/ SaveAssign(o) \/ SaveUnassign(o) \/ SaveLock(o)

LEMMA OnlySavesWrite ==
  ASSUME NEW o \in Operators, RoomStep(o), ~Saving(o)
  PROVE  UNCHANGED roomTables
BY DEF Saving, RoomStep, LoadRooms, LoadRows, AssignReadRows, AssignReadPrevious,
   UnassignReadRows, BeginCreate, BeginLock, BeginAssign, BeginUnassign, Begin

(* A save that goes through is a step of the room plan and counts up. *)
Creates(o) ==
  LET r == ask[o].room IN
  /\ r \notin open /\ roomVersion' = [roomVersion EXCEPT ![r] = 1]
  /\ UNCHANGED <<locked, placed>>

LEMMA SavesAreSafe ==
  ASSUME RoomsInv, NEW o \in Operators, Saving(o), NEW q \in Rooms
  PROVE  RoomKept(q)
<1> USE DEF RoomKept, RoomsInv, RoomsTypeOK
<1>1. ask[o] \in Request /\ ask[o].room \in Rooms
  BY DEF Saving, SaveCreate, SaveAssign, SaveUnassign, SaveLock, Request
<1>2. roomVersion[q] \in Nat
  OBVIOUS
<1>3. CASE SaveCreate(o)
  BY <1>1, <1>2, <1>3 DEF SaveCreate, open
<1>4. CASE SaveAssign(o)
  <2>1. CASE AssignmentSaves(o)
    <3>1. roomVersion'[q] = roomVersion[q] + (IF q \in {ask[o].room, ask[o].previous} THEN 1 ELSE 0)
      BY <1>4, <2>1 DEF SaveAssign, CountedUp
    <3>2. q # ask[o].room => In(placed', q) \subseteq In(placed, q)
      BY <1>4, <2>1 DEF SaveAssign, In
    <3> QED
      BY <1>2, <1>4, <3>1, <3>2 DEF SaveAssign
  <2> QED
    BY <1>2, <1>4, <2>1 DEF SaveAssign
<1>5. CASE SaveUnassign(o)
  <2>1. In(placed', q) \subseteq In(placed, q)
    BY <1>5 DEF SaveUnassign, In
  <2>2. locked' = locked
        /\ (roomVersion' = roomVersion \/ roomVersion' = [roomVersion EXCEPT ![ask[o].room] = @ + 1])
    BY <1>5 DEF SaveUnassign
  <2> QED
    BY <1>1, <1>2, <2>1, <2>2
<1>6. CASE SaveLock(o)
  BY <1>1, <1>2, <1>6 DEF SaveLock
<1> QED
  BY <1>3, <1>4, <1>5, <1>6 DEF Saving

(* so every step keeps every room *)
LEMMA EveryStepIsSafe ==
  ASSUME RoomsInv, [Next]_vars, NEW q \in Rooms
  PROVE  RoomKept(q)
<1>1. CASE UNCHANGED roomTables
  BY <1>1 DEF RoomKept, roomTables, RoomsInv, RoomsTypeOK
<1>2. CASE \E o \in Operators : Saving(o)
  BY <1>2, SavesAreSafe
<1> QED
  BY <1>1, <1>2, OthersLeaveRooms, OnlySavesWrite DEF AccommodationNext, roomVars

(* What a page shows stays as true as it was while the rooms are kept. *)
LEMMA ShownStaysTrue ==
  ASSUME RoomsInv, RoomsTypeOK', NEW o \in Operators, \A q \in Rooms : RoomKept(q),
         seenVersion'[o] = seenVersion[o], seenPlaced'[o] = seenPlaced[o],
         at'[o] \notin {"loading", "rooms"} => at[o] \notin {"loading", "rooms"}
  PROVE  /\ ShownIsTrue(o)'
         /\ \A r \in Rooms : roomVersion'[r] = seenVersion'[o][r] =>
              /\ roomVersion[r] = seenVersion[o][r]
              /\ In(placed', r) \subseteq In(placed, r)
              /\ r \in locked' <=> r \in locked
<1> USE DEF RoomsInv, RoomsTypeOK
<1>1. \A r \in Rooms : /\ roomVersion[r] \in Nat /\ roomVersion'[r] \in Nat
                       /\ seenVersion[o][r] \in Nat /\ seenVersion'[o][r] = seenVersion[o][r]
  OBVIOUS
<1>2. \A r \in Rooms : seenVersion[o][r] <= roomVersion[r]
  BY DEF ShownIsTrue
(* the version shown is still the version: so it was before *)
<1>3. \A r \in Rooms : roomVersion'[r] = seenVersion'[o][r] =>
        /\ roomVersion[r] = seenVersion[o][r]
        /\ In(placed', r) \subseteq In(placed, r)
        /\ r \in locked' <=> r \in locked
  <2> TAKE r \in Rooms
  <2>1. RoomKept(r)
    OBVIOUS
  <2>2. /\ roomVersion[r] \in Nat /\ roomVersion'[r] \in Nat /\ seenVersion[o][r] \in Nat
        /\ seenVersion'[o][r] = seenVersion[o][r] /\ seenVersion[o][r] <= roomVersion[r]
    BY <1>1, <1>2
  <2>3. roomVersion'[r] >= roomVersion[r]
    BY <2>1 DEF RoomKept
  <2>4. roomVersion'[r] = seenVersion'[o][r] =>
          roomVersion'[r] = roomVersion[r] /\ roomVersion[r] = seenVersion[o][r]
    <3> HAVE roomVersion'[r] = seenVersion'[o][r]
    <3>1. roomVersion'[r] = seenVersion[o][r]
      BY <2>2
    <3>2. roomVersion[r] <= roomVersion'[r]
      BY <2>2, <2>3
    <3> QED
      BY <2>2, <3>1, <3>2, Between
  <2> QED
    BY <2>1, <2>4 DEF RoomKept
<1>4. ShownIsTrue(o)'
  BY <1>1, <1>2, <1>3 DEF ShownIsTrue, RoomKept, TokenHolds, In
<1> QED
  BY <1>3, <1>4

(* What a waiting page may rely on survives a step that keeps the rooms. *)
LEMMA WaitingIsSafe ==
  ASSUME RoomsInv, RoomsTypeOK', NEW o \in Operators, PageKept(o), \A q \in Rooms : RoomKept(q)
  PROVE  ShownIsTrue(o)' /\ RequestHolds(o)'
<1> USE DEF PageKept, RoomsInv, RoomsTypeOK
<1>1. \A r \in Rooms : /\ roomVersion[r] \in Nat /\ roomVersion'[r] \in Nat
                       /\ seenVersion[o][r] \in Nat /\ seenVersion'[o][r] = seenVersion[o][r]
  OBVIOUS
<1>3. /\ ShownIsTrue(o)'
      /\ \A r \in Rooms : roomVersion'[r] = seenVersion'[o][r] =>
           /\ roomVersion[r] = seenVersion[o][r]
           /\ In(placed', r) \subseteq In(placed, r)
           /\ r \in locked' <=> r \in locked
  BY ShownStaysTrue
<1>5. open \subseteq open'
  BY <1>1 DEF open, RoomKept
<1>6. RequestHolds(o)'
  <2> DEFINE r == ask[o].room
  <2> SUFFICES ASSUME at[o] \in Busy, ask[o].op # "create"
               PROVE  RequestHolds(o)'
    BY DEF RequestHolds
  <2>1. r \in Rooms
    BY DEF Busy, Request
  <2>2. RequestHolds(o)
    OBVIOUS
  <2>3. TokenHolds(o, r)' => TokenHolds(o, r) /\ In(placed', r) \subseteq In(placed, r)
                             /\ (r \in locked' <=> r \in locked)
    BY <1>3, <2>1 DEF TokenHolds
  <2>4. Cardinality(In(placed', r)) \in Nat /\ Cardinality(In(placed, r)) \in Nat
        /\ Beds[r] \in Nat
    BY <2>1, PeopleInARoom, BedsType
  <2>5. In(placed', r) \subseteq In(placed, r) =>
          Cardinality(In(placed', r)) <= Cardinality(In(placed, r))
    BY FewerPeople
  <2>6. In(placed, r)' = In(placed', r) /\ Beds' = Beds
    BY DEF In, Beds
  <2>7. ask'[o] = ask[o] /\ at'[o] = at[o] /\ seenVersion'[o][r] = seenVersion[o][r]
    BY <1>1, <2>1
  <2>8. TokenHolds(o, r)' /\ ask[o].op = "assign" /\ at[o] # "rows" =>
          ask[o].traveller \notin In(placed', r) /\ Cardinality(In(placed', r)) < Beds[r]
    <3> SUFFICES ASSUME TokenHolds(o, r)', ask[o].op = "assign", at[o] # "rows"
                 PROVE  /\ ask[o].traveller \notin In(placed', r)
                        /\ Cardinality(In(placed', r)) < Beds[r]
      OBVIOUS
    <3>1. ask[o].traveller \notin In(placed, r) /\ Cardinality(In(placed, r)) < Beds[r]
      BY <2>2, <2>3 DEF RequestHolds
    <3>2. In(placed', r) \subseteq In(placed, r)
      BY <2>3
    <3>3. Cardinality(In(placed', r)) <= Cardinality(In(placed, r))
      BY <2>5, <3>2
    <3>4. Cardinality(In(placed', r)) < Beds[r]
      BY <2>4, <3>1, <3>3
    <3> QED
      BY <3>1, <3>2, <3>4
  <2>9. TokenHolds(o, r)' /\ ask[o].op # "lock" => r \notin locked'
    BY <2>2, <2>3 DEF RequestHolds
  <2>10. seenVersion[o][r] > 0 /\ (ask[o].previous # None => ask[o].previous \in open')
    BY <1>5, <2>2 DEF RequestHolds
  <2>11. TokenHolds(o, ask[o].room)' <=> TokenHolds(o, r)'
    BY <2>7 DEF TokenHolds
  <2> QED
    BY <2>6, <2>7, <2>8, <2>9, <2>10, <2>11 DEF RequestHolds
<1> QED
  BY <1>3, <1>6

(* An answered page relies on nothing but what it shows. *)
LEMMA AnsweredIsSafe ==
  ASSUME RoomsInv, RoomsTypeOK', NEW o \in Operators, \A q \in Rooms : RoomKept(q),
         at[o] \in Busy, Answered(o, Refused) \/ Answered(o, Succeeded)
  PROVE  ShownIsTrue(o)' /\ RequestHolds(o)'
<1>1. /\ at'[o] \in {"loading", "ready"}
      /\ seenVersion' = seenVersion /\ seenPlaced' = seenPlaced
  BY DEF Answered, Refused, Succeeded, RoomsInv, RoomsTypeOK
<1>2. ShownIsTrue(o)'
  BY <1>1, ShownStaysTrue DEF Busy
<1>3. RequestHolds(o)'
  BY <1>1 DEF RequestHolds, Busy
<1> QED
  BY <1>2, <1>3

(* The page of the operator who acts: it loads, checks its request against the
   tables as they are now, or is answered. *)
LEMMA ActingIsSafe ==
  ASSUME RoomsInv, RoomsTypeOK', NEW o \in Operators, RoomStep(o), \A q \in Rooms : RoomKept(q)
  PROVE  ShownIsTrue(o)' /\ RequestHolds(o)'
<1> USE DEF RoomsInv
<1>1. CASE LoadRooms(o)
  BY <1>1 DEF LoadRooms, roomTables, ShownIsTrue, RequestHolds, Busy, RoomsTypeOK
<1>2. CASE LoadRows(o)
  <2>1. at'[o] = "ready" /\ seenPlaced'[o] = placed /\ UNCHANGED <<roomTables, seenVersion>>
    BY <1>2 DEF LoadRows, RoomsTypeOK
  <2>2. RequestHolds(o)'
    BY <2>1 DEF RequestHolds, Busy
  <2>3. ShownIsTrue(o)'
    BY <2>1 DEF ShownIsTrue, roomTables, In, RoomsTypeOK
  <2> QED
    BY <2>2, <2>3
<1>3. CASE AssignReadRows(o)
  <2> DEFINE r == ask[o].room
             t == ask[o].traveller
             current == RoomsOf(placed, t, r)
  <2>1. at[o] = "rows" /\ ask[o] \in Request /\ r \in Rooms /\ t \in Travellers
        /\ ask[o].previous \in Rooms \cup {None} /\ ask[o].op = "assign"
    BY <1>3 DEF AssignReadRows, RoomsTypeOK, Request
  <2>2. CASE Answered(o, Refused)
    BY <2>1, <2>2, AnsweredIsSafe DEF Busy
  <2>3. ASSUME ~Answered(o, Refused)
        PROVE  /\ r \notin current /\ Cardinality(In(placed, r)) < Beds[r]
               /\ at'[o] \in {"save", "previous"}
               /\ UNCHANGED <<roomTables, seenVersion, seenPlaced>>
               /\ ask'[o] = ask[o] \/ \E p \in current : ask'[o] = [ask[o] EXCEPT !.previous = p]
    BY <1>3, <2>3 DEF AssignReadRows, RoomsTypeOK
  <2>4. CASE ~Answered(o, Refused)
    <3>1. ShownIsTrue(o)'
      BY <2>1, <2>3, <2>4, ShownStaysTrue
    <3>2. t \notin In(placed, r)
      BY <2>1, <2>3, <2>4 DEF In, RoomsOf, SameStay
    <3>3. RequestHolds(o)
      OBVIOUS
    <3>4. \A p \in current : p \in open
      BY DEF PeopleInOpenRooms, RoomsOf
    <3>5. ask'[o].room = r /\ ask'[o].traveller = t /\ ask'[o].op = "assign"
          /\ (ask'[o].previous = ask[o].previous \/ ask'[o].previous \in open)
      BY <2>1, <2>3, <2>4, <3>4 DEF Request
    <3>6. seenVersion[o][r] > 0 /\ (ask[o].previous # None => ask[o].previous \in open)
          /\ (TokenHolds(o, r) => r \notin locked)
      BY <2>1, <3>3 DEF RequestHolds, Busy
    <3>7. UNCHANGED <<roomVersion, locked, placed, open, seenVersion, In(placed, r), Beds>>
      BY <2>3, <2>4, <3>5 DEF roomTables, open, In, Beds
    <3>8. ask'[o].previous # None => ask'[o].previous \in open'
      BY <3>5, <3>6, <3>7
    <3>9. RequestHolds(o)'
      BY <2>3, <2>4, <3>2, <3>5, <3>6, <3>7, <3>8 DEF RequestHolds, TokenHolds
    <3> QED
      BY <3>1, <3>9
  <2> QED
    BY <2>2, <2>4

<1>4. CASE AssignReadPrevious(o) \/ UnassignReadRows(o)
  <2>1. at[o] \in {"rows", "previous"} /\ (at[o] = "rows" => ask[o].op = "unassign")
    BY <1>4 DEF AssignReadPrevious, UnassignReadRows, RoomsTypeOK, Request
  <2>2. CASE Answered(o, Refused)
    BY <2>1, <2>2, AnsweredIsSafe DEF Busy
  <2>3. CASE ~Answered(o, Refused)
    <3>1. /\ at'[o] = "save" /\ ask' = ask
          /\ UNCHANGED <<roomTables, seenVersion, seenPlaced>>
      BY <1>4, <2>3 DEF AssignReadPrevious, UnassignReadRows, RoomsTypeOK
    <3>2. ShownIsTrue(o)'
      BY <2>1, <3>1, ShownStaysTrue
    <3>3. RequestHolds(o)
      OBVIOUS
    <3>4. UNCHANGED <<open, In(placed, ask[o].room), Beds, TokenHolds(o, ask[o].room)>>
      BY <3>1 DEF roomTables, open, In, Beds, TokenHolds
    <3>5. RequestHolds(o)'
      BY <2>1, <3>1, <3>3, <3>4 DEF RequestHolds, Busy, roomTables
    <3> QED
      BY <3>2, <3>5
  <2> QED
    BY <2>2, <2>3
<1>5. CASE Saving(o)
  BY <1>5, AnsweredIsSafe DEF Saving, SaveCreate, SaveAssign, SaveUnassign, SaveLock, Busy
<1>6. ASSUME NEW r \in Rooms,
             \/ BeginCreate(o, r) \/ BeginLock(o, r)
             \/ \E t \in Travellers : BeginAssign(o, t, r) \/ BeginUnassign(o, t, r)
      PROVE  ShownIsTrue(o)' /\ RequestHolds(o)'
  <2>1. PICK op \in {"create", "lock", "assign", "unassign"}, t \in Travellers \cup {None},
             next \in Busy :
          /\ Begin(o, op, r, t, next)
          /\ op # "create" => AsExpected(o, r)
          /\ op \in {"assign", "unassign"} => r \notin locked /\ next = "rows"
    BY <1>6 DEF BeginCreate, BeginLock, BeginAssign, BeginUnassign, Busy
  <2>2. /\ at[o] = "ready" /\ at'[o] = next
        /\ ask'[o] = [op |-> op, room |-> r, traveller |-> t, previous |-> None]
        /\ UNCHANGED <<roomTables, seenVersion, seenPlaced>>
    BY <2>1 DEF Begin, RoomsTypeOK
  <2>3. ShownIsTrue(o)'
    BY <2>2, ShownStaysTrue
  <2>4. /\ ask'[o].op = op /\ ask'[o].room = r /\ ask'[o].previous = None
        /\ op # "create" => seenVersion'[o][r] > 0
        /\ op \in {"assign", "unassign"} => r \notin locked' /\ at'[o] = "rows"
    BY <2>1, <2>2 DEF AsExpected, open, roomTables, RoomsTypeOK
  <2>5. RequestHolds(o)'
    BY <2>1, <2>4 DEF RequestHolds
  <2> QED
    BY <2>3, <2>5
<1> QED
  BY <1>1, <1>2, <1>3, <1>4, <1>5, <1>6 DEF RoomStep, Saving

-----------------------------------------------------------------------------
(* The saves of an operator, each as what it does to the rooms. *)
AssignSaved(o) ==
  LET r == ask[o].room
      t == ask[o].traveller
  IN
  /\ r \in open \ locked /\ t \notin In(placed, r) /\ Cardinality(In(placed, r)) < Beds[r]
  /\ placed' = (placed \ RowOf(t, r)) \cup {<<t, r>>}
  /\ UNCHANGED <<locked, open>>

UnassignSaved(o) ==
  /\ ask[o].room \in open \ locked
  /\ placed' = placed \ RowOf(ask[o].traveller, ask[o].room)
  /\ UNCHANGED <<locked, open>>

LockSaved(o) ==
  /\ ask[o].room \in open
  /\ \E on \in BOOLEAN :
       locked' = IF on THEN locked \cup {ask[o].room} ELSE locked \ {ask[o].room}
  /\ UNCHANGED <<placed, open>>

CreateSaved(o) ==
  /\ ask[o].room \notin open /\ open' = open \cup {ask[o].room}
  /\ UNCHANGED <<placed, locked>>

RoomsAsTheyAre == UNCHANGED <<placed, locked, open>>

LEMMA WhatSavesDo ==
  ASSUME RoomsInv, NEW o \in Operators, Saving(o)
  PROVE  /\ ask[o].room \in Rooms
         /\ \/ RoomsAsTheyAre \/ CreateSaved(o) \/ LockSaved(o)
            \/ AssignSaved(o) /\ ask[o].traveller \in Travellers
            \/ UnassignSaved(o) /\ ask[o].traveller \in Travellers
<1> USE DEF RoomsInv, RoomsTypeOK
<1> DEFINE r == ask[o].room
<1>1. ask[o] \in Request /\ r \in Rooms /\ roomVersion[r] \in Nat /\ seenVersion[o][r] \in Nat
      /\ at[o] \in Busy /\ RequestHolds(o)
  BY DEF Saving, SaveCreate, SaveAssign, SaveUnassign, SaveLock, Request, Busy
<1>2. ask[o].op \in {"assign", "unassign"} => ask[o].traveller \in Travellers
  BY <1>1 DEF Request
<1>3. TokenHolds(o, r) /\ ask[o].op # "create" => r \in open
  BY <1>1 DEF TokenHolds, RequestHolds, open
<1>4. CASE SaveCreate(o)
  BY <1>1, <1>4 DEF SaveCreate, RoomsAsTheyAre, CreateSaved, open
<1>5. CASE SaveLock(o)
  <2>1. CASE TokenHolds(o, r)
    <3>2. roomVersion' = [roomVersion EXCEPT ![r] = @ + 1]
      BY <1>5, <2>1 DEF SaveLock
    <3>3. r \in open
      BY <1>1, <1>3, <1>5, <2>1 DEF SaveLock
    <3>1. open' = open
      BY <1>1, <3>2, <3>3 DEF open
    <3> QED
      BY <1>1, <1>3, <1>5, <2>1, <3>1 DEF SaveLock, LockSaved
  <2>2. CASE ~TokenHolds(o, r)
    BY <1>1, <1>5, <2>2 DEF SaveLock, RoomsAsTheyAre, open
  <2> QED
    BY <2>1, <2>2
<1>6. CASE SaveUnassign(o)
  <2>1. CASE TokenHolds(o, r) /\ RowThere(ask[o].traveller, r)
    <3>1. roomVersion' = [roomVersion EXCEPT ![r] = @ + 1]
          /\ placed' = placed \ RowOf(ask[o].traveller, r) /\ locked' = locked
          /\ ask[o].op = "unassign"
      BY <1>6, <2>1 DEF SaveUnassign
    <3>2. r \in open /\ open' = open
      BY <1>1, <1>3, <2>1, <3>1 DEF open
    <3>3. r \notin locked
      BY <1>1, <2>1, <3>1 DEF RequestHolds
    <3> QED
      BY <1>1, <1>2, <3>1, <3>2, <3>3 DEF UnassignSaved
  <2>2. CASE ~(TokenHolds(o, r) /\ RowThere(ask[o].traveller, r))
    BY <1>1, <1>6, <2>2 DEF SaveUnassign, RoomsAsTheyAre, open
  <2> QED
    BY <2>1, <2>2
<1>7. CASE SaveAssign(o)
  <2>1. CASE AssignmentSaves(o)
    <3> DEFINE p == ask[o].previous
               t == ask[o].traveller
    <3>1. /\ roomVersion' = CountedUp(r, p) /\ TokenHolds(o, r)
          /\ placed' = (placed \ RowOf(t, r)) \cup {<<t, r>>} /\ locked' = locked
          /\ ask[o].op = "assign" /\ at[o] = "save"
      BY <1>7, <2>1 DEF SaveAssign, AssignmentSaves
    <3>2. r \in open /\ (p # None => p \in open) /\ p \in Rooms \cup {None}
      BY <1>1, <1>3, <3>1 DEF RequestHolds, Request
    <3>3. \A q \in Rooms : roomVersion'[q] > 0 <=> roomVersion[q] > 0
      BY <3>1, <3>2, RoomsAssumption DEF CountedUp, open
    <3>6. open' = {q \in Rooms : roomVersion'[q] > 0} /\ open = {q \in Rooms : roomVersion[q] > 0}
      BY DEF open
    <3>4. open' = open
      BY <3>3, <3>6
    <3>5. r \notin locked /\ t \notin In(placed, r) /\ Cardinality(In(placed, r)) < Beds[r]
      BY <1>1, <3>1 DEF RequestHolds
    <3> QED
      BY <1>1, <1>2, <3>1, <3>2, <3>4, <3>5 DEF AssignSaved
  <2>2. CASE ~AssignmentSaves(o)
    BY <1>1, <1>7, <2>2 DEF SaveAssign, RoomsAsTheyAre, open
  <2> QED
    BY <2>1, <2>2
<1> QED
  BY <1>1, <1>4, <1>5, <1>6, <1>7 DEF Saving

(* Nobody is in a room that does not exist, and no room overflows. *)
LEMMA SavesFillNoRoom ==
  ASSUME RoomsInv, NEW o \in Operators, Saving(o)
  PROVE  PeopleInOpenRooms' /\ RoomsWithinCapacity'
<1> USE DEF RoomsInv
<1>1. ask[o].room \in Rooms
  BY WhatSavesDo
<1>2. Beds' = Beds /\ \A q \in Rooms : In(placed, q)' = In(placed', q)
  BY DEF Beds, In
<1>3. ASSUME placed' \subseteq placed, open \subseteq open'
      PROVE  PeopleInOpenRooms' /\ RoomsWithinCapacity'
  <2>1. PeopleInOpenRooms'
    BY <1>3 DEF PeopleInOpenRooms
  <2>2. ASSUME NEW q \in Rooms PROVE Cardinality(In(placed', q)) <= Beds[q]
    <3>1. In(placed', q) \subseteq In(placed, q)
      BY <1>3 DEF In
    <3>2. Cardinality(In(placed', q)) <= Cardinality(In(placed, q))
      BY <3>1, FewerPeople
    <3> QED
      BY <3>2, PeopleInARoom, BedsType DEF RoomsWithinCapacity
  <2> QED
    BY <1>2, <2>1, <2>2 DEF RoomsWithinCapacity
<1>4. CASE RoomsAsTheyAre \/ CreateSaved(o) \/ LockSaved(o) \/ UnassignSaved(o)
  BY <1>3, <1>4 DEF RoomsAsTheyAre, CreateSaved, LockSaved, UnassignSaved
<1>5. CASE AssignSaved(o) /\ ask[o].traveller \in Travellers
  <2> DEFINE r == ask[o].room
             t == ask[o].traveller
  <2>1. PeopleInOpenRooms'
    BY <1>5 DEF AssignSaved, PeopleInOpenRooms
  <2>2. ASSUME NEW q \in Rooms PROVE Cardinality(In(placed', q)) <= Beds[q]
    <3>1. CASE q = r
      <4>1. In(placed', r) \subseteq In(placed, r) \cup {t}
        BY <1>5 DEF AssignSaved, In
      <4>2. IsFiniteSet(In(placed, r)) /\ Cardinality(In(placed, r)) \in Nat
            /\ Cardinality(In(placed', r)) \in Nat
        BY PeopleInARoom
      <4>3. Cardinality(In(placed', r)) <= Cardinality(In(placed, r)) + 1
        BY <4>1, <4>2, OneMore
      <4>4. Cardinality(In(placed, r)) < Beds[r] /\ Beds[r] \in Nat
        BY <1>1, <1>5, BedsType DEF AssignSaved
      <4> QED
        BY <3>1, <4>2, <4>3, <4>4
    <3>2. CASE q # r
      <4>1. In(placed', q) \subseteq In(placed, q)
        BY <1>5, <3>2 DEF AssignSaved, In
      <4>2. Cardinality(In(placed', q)) <= Cardinality(In(placed, q))
        BY <4>1, FewerPeople
      <4> QED
        BY <4>2, PeopleInARoom, BedsType DEF RoomsWithinCapacity
    <3> QED
      BY <3>1, <3>2
  <2> QED
    BY <1>2, <2>1, <2>2 DEF RoomsWithinCapacity
<1> QED
  BY <1>4, <1>5, WhatSavesDo

-----------------------------------------------------------------------------
LEMMA RoomsInvInit == Init => RoomsInv
<1> SUFFICES ASSUME Init PROVE RoomsInv
  OBVIOUS
<1>1. PICK s \in Scenarios : RoomsInit(s.prepared) /\ s.prepared \subseteq Travellers
  BY ScenariosAssumption DEF Init, Parties
<1>2. \A r \in Rooms : Cardinality(In(placed, r)) \in Nat
  BY PeopleInARoom
<1>3. placed \subseteq Travellers \X Rooms /\ roomVersion \in [Rooms -> Nat]
  BY <1>1, <1>2 DEF RoomsInit
<1>4. RoomsTypeOK
  BY <1>1, <1>3 DEF RoomsInit, RoomsTypeOK
<1>5. PeopleInOpenRooms
  <2>1. CASE s.prepared = {}
    BY <1>1, <2>1 DEF RoomsInit, PeopleInOpenRooms
  <2>2. CASE s.prepared # {}
    <3>1. \A r \in Rooms : roomVersion[r] > 0
      BY <1>1, <1>2, <2>2 DEF RoomsInit
    <3> QED
      BY <1>3, <3>1 DEF PeopleInOpenRooms, open
  <2> QED
    BY <2>1, <2>2
<1>6. RoomsWithinCapacity
  BY <1>1 DEF RoomsInit, RoomsWithinCapacity
<1>7. \A o \in Operators : ShownIsTrue(o) /\ RequestHolds(o)
  BY <1>1, <1>3 DEF RoomsInit, ShownIsTrue, RequestHolds, Busy
<1> QED
  BY <1>4, <1>5, <1>6, <1>7 DEF RoomsInv

LEMMA RoomsInvStep == RoomsInv /\ [Next]_vars => RoomsInv'
<1> SUFFICES ASSUME RoomsInv, [Next]_vars PROVE RoomsInv'
  OBVIOUS
<1>1. RoomsTypeOK /\ RoomsTypeOK'
  BY RoomTypesStep DEF RoomsInv
<1>2. \A q \in Rooms : RoomKept(q)
  BY EveryStepIsSafe
<1>3. CASE UNCHANGED roomVars
  <2>1. \A o \in Operators : PageKept(o)
    BY <1>3 DEF PageKept, roomVars, pageVars
  <2>2. \A o \in Operators : ShownIsTrue(o)' /\ RequestHolds(o)'
    BY <1>1, <1>2, <2>1, WaitingIsSafe
  <2>3. PeopleInOpenRooms' /\ RoomsWithinCapacity'
    BY <1>3 DEF roomVars, roomTables, PeopleInOpenRooms, RoomsWithinCapacity, RoomsInv, open, In, Beds
  <2> QED
    BY <1>1, <2>2, <2>3 DEF RoomsInv
<1>4. ASSUME NEW o \in Operators, RoomStep(o) PROVE RoomsInv'
  <2>1. PeopleInOpenRooms' /\ RoomsWithinCapacity'
    <3>1. CASE UNCHANGED roomTables
      BY <3>1 DEF roomTables, PeopleInOpenRooms, RoomsWithinCapacity, RoomsInv, open, In, Beds
    <3>2. CASE Saving(o)
      BY <3>2, SavesFillNoRoom
    <3> QED
      BY <1>4, <3>1, <3>2, OnlySavesWrite
  <2>2. \A x \in Operators \ {o} : PageKept(x)
    BY <1>1, <1>4, OthersWait
  <2>3. \A x \in Operators \ {o} : ShownIsTrue(x)' /\ RequestHolds(x)'
    BY <1>1, <1>2, <2>2, WaitingIsSafe
  <2>4. ShownIsTrue(o)' /\ RequestHolds(o)'
    BY <1>1, <1>2, <1>4, ActingIsSafe
  <2>5. \A x \in Operators : ShownIsTrue(x)' /\ RequestHolds(x)'
    BY <2>3, <2>4
  <2> QED
    BY <1>1, <2>1, <2>5 DEF RoomsInv
<1> QED
  BY <1>3, <1>4, OthersLeaveRooms DEF AccommodationNext

(* The rooms' tables and the pages' requests stay well-formed, and what a
   request checked still holds when its room's version is the one it sent. *)
THEOREM RoomsInvariant == Spec => []RoomsInv
BY RoomsInvInit, RoomsInvStep, PTL DEF Spec

(* VS-26:23: no room ever holds more people than it has beds, for any number
   of operators, rooms and travellers: whoever is put into a room is put there
   by a save that compares the version under which the beds were counted. *)
THEOREM CapacityTheorem == Spec => []RoomsWithinCapacity
<1>1. RoomsInv => RoomsWithinCapacity
  BY DEF RoomsInv
<1> QED
  BY <1>1, RoomsInvariant, PTL

-----------------------------------------------------------------------------
(* A step that leaves the three tables of the room plan is a stutter of it. *)
LEMMA SavesFollowThePlan ==
  ASSUME RoomsInv, NEW o \in Operators, Saving(o)
  PROVE  [Rooming!Change]_(Rooming!plan)
<1> DEFINE r == ask[o].room
           t == ask[o].traveller
<1>1. r \in Rooms
  BY WhatSavesDo
<1>2. \A q \in Rooms : Rooming!InRoom(q) = In(placed, q)
  BY DEF Rooming!InRoom, In
<1>3. RowOf(t, r) = {t} \X Rooming!SameStay(r)
  BY DEF RowOf, SameStay, Rooming!SameStay
<1>9. \A S : Rooming!Cardinality(S) = Cardinality(S)
  BY DEF Rooming!Cardinality, Cardinality
<1>4. CASE RoomsAsTheyAre
  BY <1>4 DEF RoomsAsTheyAre, Rooming!plan
<1>5. CASE CreateSaved(o)
  BY <1>1, <1>5 DEF CreateSaved, Rooming!OpenRoom, Rooming!Change
<1>6. CASE LockSaved(o)
  BY <1>1, <1>6 DEF LockSaved, Rooming!SetLock, Rooming!Change
<1>7. CASE AssignSaved(o) /\ t \in Travellers
  <2>2. r \in open \ locked /\ t \notin Rooming!InRoom(r)
        /\ placed' = (placed \ RowOf(t, r)) \cup {<<t, r>>} /\ UNCHANGED <<open, locked>>
    BY <1>1, <1>2, <1>7 DEF AssignSaved
  <2>3. Cardinality(Rooming!InRoom(r)) < Beds[r]
    BY <1>1, <1>2, <1>7 DEF AssignSaved
  <2>1. Rooming!Place(t, r)
    BY <1>3, <1>9, <2>2, <2>3 DEF Rooming!Place
  <2> QED
    BY <1>1, <1>7, <2>1 DEF Rooming!Change
<1>8. CASE UnassignSaved(o) /\ t \in Travellers
  <2>1. Rooming!Remove(t, r)
    BY <1>1, <1>2, <1>3, <1>8 DEF UnassignSaved, Rooming!Remove
  <2> QED
    BY <1>1, <1>8, <2>1 DEF Rooming!Change
<1> QED
  BY <1>4, <1>5, <1>6, <1>7, <1>8, WhatSavesDo

(* VS-26's accommodation implements the room plan: every save of an operator,
   whatever was read and when, is one change of the plan or leaves it. *)
THEOREM RoomPlanTheorem == Spec => ImplementsRoomPlan
<1>1. Init => Rooming!Start
  <2>1. RoomsInv /\ Init => Rooming!Start
    BY DEF RoomsInv, PeopleInOpenRooms, Init, RoomsInit, open, Rooming!Start
  <2> QED
    BY <2>1, RoomsInvInit
<1>2. RoomsInv /\ [Next]_vars => [Rooming!Change]_(Rooming!plan)
  <2> SUFFICES ASSUME RoomsInv, [Next]_vars PROVE [Rooming!Change]_(Rooming!plan)
    OBVIOUS
  <2>1. CASE UNCHANGED roomTables
    BY <2>1 DEF roomTables, open, Rooming!plan
  <2>2. CASE \E o \in Operators : Saving(o)
    BY <2>2, SavesFollowThePlan
  <2> QED
    BY <2>1, <2>2, OthersLeaveRooms, OnlySavesWrite DEF AccommodationNext, roomVars
<1> QED
  BY <1>1, <1>2, RoomsInvariant, PTL DEF Spec, ImplementsRoomPlan, Rooming!Plan

(* VS-26:24: a request that changes a room changes one whose people its page
   shows, for any number of operators and whatever they do between the page's
   two reads and the save. *)
THEOREM SeenRoomsTheorem == Spec => ChangesWhatTheOperatorSaw
<1> DEFINE Seen == \A o \in Operators :
             LET r == ask[o].room IN
             /\ ask[o] # None /\ ask'[o] = None
             /\ ask[o].op # "create"
             /\ roomVersion'[r] # roomVersion[r]
             => In(placed, r) \subseteq In(seenPlaced[o], r)
<1>1. RoomsInv /\ [Next]_vars => Seen
  <2> SUFFICES ASSUME RoomsInv, [Next]_vars, NEW x \in Operators,
                      ask[x] # None, ask'[x] = None, ask[x].op # "create",
                      roomVersion'[ask[x].room] # roomVersion[ask[x].room]
               PROVE  In(placed, ask[x].room) \subseteq In(seenPlaced[x], ask[x].room)
    OBVIOUS
  <2> USE DEF RoomsInv
  <2>1. PICK o \in Operators : RoomStep(o) /\ Saving(o)
    BY OthersLeaveRooms, OnlySavesWrite DEF AccommodationNext, roomVars, roomTables, pageVars
  <2>2. x = o
    BY <2>1, OthersWait DEF PageKept
  <2>3. at[o] = "save" /\ ask[o].room \in Rooms
    BY <2>1, WhatSavesDo DEF Saving, SaveCreate, SaveAssign, SaveUnassign, SaveLock
  <2>4. TokenHolds(o, ask[o].room)
    BY <2>1, <2>2
       DEF Saving, SaveCreate, SaveAssign, SaveUnassign, SaveLock, AssignmentSaves
  <2> QED
    BY <2>2, <2>3, <2>4 DEF ShownIsTrue
<1> QED
  BY <1>1, RoomsInvariant, PTL DEF Spec, ChangesWhatTheOperatorSaw

=============================================================================
