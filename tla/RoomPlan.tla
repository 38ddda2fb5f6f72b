------------------------------- MODULE RoomPlan -------------------------------
(***************************************************************************)
(* What accommodation promises, without requests or versions: rooms are    *)
(* set up, locked and unlocked, and one traveller at a time is put into a  *)
(* room, moved into it from another one of the same stay, or taken out.    *)
(* A change happens in one step, to an unlocked room, and never puts more  *)
(* people into a room than it has beds for.  A removal is from an unlocked  *)
(* room too; who was moved to another room of the stay at the same moment  *)
(* is removed from there.                                                  *)
(***************************************************************************)
EXTENDS Naturals, FiniteSets

CONSTANTS Travellers, Rooms, StayOf, Beds

VARIABLES
  open,     \* rooms that exist
  locked,   \* rooms that are locked
  placed    \* pairs <<traveller, room>>

plan == <<open, locked, placed>>

InRoom(r) == {t \in Travellers : <<t, r>> \in placed}
SameStay(r) == {p \in Rooms : StayOf[p] = StayOf[r]}

Start == open \subseteq Rooms /\ locked = {} /\ placed \subseteq Travellers \X open

OpenRoom(r) == r \notin open /\ open' = open \cup {r} /\ UNCHANGED <<locked, placed>>

Place(t, r) ==
  /\ r \in open \ locked
  /\ t \notin InRoom(r)
  /\ Cardinality(InRoom(r)) < Beds[r]
  /\ placed' = (placed \ ({t} \X SameStay(r))) \cup {<<t, r>>}
  /\ UNCHANGED <<open, locked>>

Remove(t, r) ==
  /\ r \in open \ locked
  /\ placed' = placed \ ({t} \X SameStay(r))
  /\ UNCHANGED <<open, locked>>

SetLock(r, on) ==
  /\ r \in open
  /\ locked' = IF on THEN locked \cup {r} ELSE locked \ {r}
  /\ UNCHANGED <<open, placed>>

Change ==
  \E r \in Rooms :
    \/ OpenRoom(r)
    \/ \E t \in Travellers : Place(t, r) \/ Remove(t, r)
    \/ \E on \in BOOLEAN : SetLock(r, on)

Plan == Start /\ [][Change]_plan
=============================================================================
