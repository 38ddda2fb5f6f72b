------------------------ MODULE InventoryHoldsProofs ------------------------
(***************************************************************************)
(* Proofs about InventoryHolds for every set of pools, quotes, keys, hold  *)
(* identities and concurrent readers.                                      *)
(***************************************************************************)
EXTENDS InventoryHolds, FiniteSetTheorems, TLAPS

USE DEF HoldState

(* A hold created while its quote is valid expires at a natural number. *)
LEMMA ExpiryType ==
  ASSUME NEW t \in Nat, NEW q \in Quotes
  PROVE  CalculateExpiry(t, Quote[q].expires) \in Nat
BY QuoteAssumption, LifetimeAssumption DEF CalculateExpiry

(* The columns CreateHold inserts form a typed row. *)
LEMMA InsertedRowType ==
  ASSUME TypeOK, NEW q \in Quotes, NEW k \in Keys
  PROVE  [quote |-> q, key |-> k,
          expires |-> CalculateExpiry(now, Quote[q].expires)] \in HoldRow
BY TimeAssumption, ExpiryType DEF TypeOK, HoldRow

(* Materialising expiry only moves lapsed active rows to Expired. *)
LEMMA MaterializedStates ==
  ASSUME TypeOK, NEW rows \in SUBSET HoldIds, NEW t
  PROVE  /\ Materialized(rows, t) \in [HoldIds -> HoldState \cup {"Absent"}]
         /\ \A h \in HoldIds :
              \/ Materialized(rows, t)[h] = state[h] /\ h \notin Lapsed(rows, t)
              \/ /\ h \in Lapsed(rows, t)
                 /\ state[h] = "Active"
                 /\ Materialized(rows, t)[h] = "Expired"
BY DEF Materialized, Lapsed, TypeOK
-----------------------------------------------------------------------------
(* Every action keeps the types, and a row once present stays present. *)
LEMMA TypeStep ==
  ASSUME TypeOK, ReadersHoldRows, [Next]_vars
  PROVE  TypeOK' /\ ReadersHoldRows' /\ Rows \subseteq Rows'
<1> USE TimeAssumption DEF TypeOK, ReadersHoldRows, Rows
<1>1. ASSUME NEW q \in Quotes, NEW k \in Keys, NEW h \in HoldIds, CreateHold(q, k, h)
      PROVE  TypeOK' /\ ReadersHoldRows' /\ Rows \subseteq Rows'
  <2> DEFINE m == Materialized(RowsOf(Quote[q].pool), now)
             r == [quote |-> q, key |-> k,
                   expires |-> CalculateExpiry(now, Quote[q].expires)]
  <2>1. RowsOf(Quote[q].pool) \in SUBSET HoldIds
    BY DEF RowsOf
  <2>2. /\ m \in [HoldIds -> HoldState \cup {"Absent"}]
        /\ \A x \in HoldIds : m[x] = "Absent" => state[x] = "Absent"
        /\ \A x \in HoldIds : state[x] = "Absent" => m[x] = "Absent"
    BY <2>1, MaterializedStates
  <2>3. r \in HoldRow
    BY InsertedRowType
  <2>4. state' = [m EXCEPT ![h] = "Active"] /\ row' = [row EXCEPT ![h] = r]
    BY <1>1 DEF CreateHold
  <2> HIDE DEF m, r
  <2>5. state' \in [HoldIds -> HoldState \cup {"Absent"}] /\ Rows' = Rows \cup {h}
    BY <2>2, <2>4
  <2>6. /\ row' \in [HoldIds -> HoldRow \cup {NoRow}]
        /\ \A x \in Rows' : row'[x] \in HoldRow
    BY <2>3, <2>4, <2>5
  <2> QED
    BY <1>1, <2>5, <2>6 DEF CreateHold
<1>2. ASSUME NEW q \in Quotes, NEW k \in Keys, ReplayHold(q, k)
      PROVE  TypeOK' /\ ReadersHoldRows' /\ Rows \subseteq Rows'
  <2>1. RowsOf(Quote[q].pool) \in SUBSET HoldIds
    BY DEF RowsOf
  <2>2. /\ state' \in [HoldIds -> HoldState \cup {"Absent"}]
        /\ \A x \in HoldIds : state'[x] = "Absent" <=> state[x] = "Absent"
    BY <1>2, <2>1, MaterializedStates DEF ReplayHold
  <2> QED
    BY <1>2, <2>2 DEF ReplayHold
<1>3. ASSUME NEW r \in Readers, NEW h \in HoldIds, GetHoldRead(r, h)
      PROVE  TypeOK' /\ ReadersHoldRows' /\ Rows \subseteq Rows'
  BY <1>3 DEF GetHoldRead
<1>4. ASSUME NEW r \in Readers, GetHoldWrite(r)
      PROVE  TypeOK' /\ ReadersHoldRows' /\ Rows \subseteq Rows'
  BY <1>4, NothingAssumption DEF GetHoldWrite
<1>5. ASSUME NEW h \in HoldIds, ReleaseHold(h)
      PROVE  TypeOK' /\ ReadersHoldRows' /\ Rows \subseteq Rows'
  BY <1>5 DEF ReleaseHold
<1>6. ASSUME NEW new \in [Pools -> Capacities], NEW t \in 0..MaxTime, SaveInventory(new, t)
      PROVE  TypeOK' /\ ReadersHoldRows' /\ Rows \subseteq Rows'
  <2>1. /\ state' \in [HoldIds -> HoldState \cup {"Absent"}]
        /\ \A x \in HoldIds : state'[x] = "Absent" <=> state[x] = "Absent"
    BY <1>6, MaterializedStates DEF SaveInventory
  <2> QED
    BY <1>6, <2>1 DEF SaveInventory
<1>7. ASSUME NEW h \in HoldIds, NEW s \in 0..MaxTime, CommitHold(h, s)
      PROVE  TypeOK' /\ ReadersHoldRows' /\ Rows \subseteq Rows'
  BY <1>7 DEF CommitHold
<1>8. ASSUME NEW h \in HoldIds, ReleaseCommitment(h)
      PROVE  TypeOK' /\ ReadersHoldRows' /\ Rows \subseteq Rows'
  BY <1>8 DEF ReleaseCommitment
<1>9. CASE Tick
  BY <1>9 DEF Tick
<1>10. CASE UNCHANGED vars
  BY <1>10 DEF vars
<1> QED
  BY <1>1, <1>2, <1>3, <1>4, <1>5, <1>6, <1>7, <1>8, <1>9, <1>10 DEF Next
-----------------------------------------------------------------------------
(* Sets of holds are finite, so their cardinalities can be compared. *)
LEMMA HoldSetsFinite ==
  ASSUME NEW S \in SUBSET HoldIds
  PROVE  IsFiniteSet(S) /\ Cardinality(S) \in Nat
BY FiniteAssumption, FS_Subset, FS_CardinalityType

(* A smaller set of seats fits wherever the larger one does. *)
LEMMA FewerSeats ==
  ASSUME NEW T \in SUBSET HoldIds, NEW S \in SUBSET T
  PROVE  Cardinality(S) <= Cardinality(T)
BY HoldSetsFinite, FS_Subset

(* A step that inserts no row and lets no hold back onto a seat. *)
NoNewClaim ==
  /\ UNCHANGED <<row, capacity>>
  /\ Rows' = Rows
  /\ \A h \in HoldIds :
       /\ state'[h] = "Active" => state[h] = "Active"
       /\ state'[h] = "Committed" => state[h] \in {"Active", "Committed"}

(* Such a step keeps every invariant on the table of holds. *)
LEMMA NoNewClaimStep ==
  ASSUME TypeOK, TypeOK', SeatsWithinCapacity, OneActiveHold, NoNewClaim
  PROVE  SeatsWithinCapacity' /\ OneActiveHold'
<1> USE DEF NoNewClaim
<1>1. ASSUME NEW p \in Pools
      PROVE  /\ Occupying(p)' \subseteq Occupying(p)
             /\ Occupying(p) \subseteq HoldIds
  BY DEF Occupying, RowsOf, PoolOf, Rows
<1>2. SeatsWithinCapacity'
  <2> SUFFICES ASSUME NEW p \in Pools
               PROVE  Cardinality(Occupying(p)') <= capacity'[p]
    BY DEF SeatsWithinCapacity
  <2>1. Cardinality(Occupying(p)') <= Cardinality(Occupying(p))
    BY <1>1, FewerSeats
  <2>2. Cardinality(Occupying(p)) <= capacity[p] /\ capacity[p] \in Nat
    BY CapacityAssumption DEF SeatsWithinCapacity, TypeOK
  <2>3. Cardinality(Occupying(p)) \in Nat /\ Cardinality(Occupying(p)') \in Nat
    BY <1>1, HoldSetsFinite
  <2> QED
    BY <2>1, <2>2, <2>3
<1>3. OneActiveHold'
  BY <1>1 DEF OneActiveHold, AccountOf, Occupying, Rows, RowsOf
<1> QED
  BY <1>2, <1>3

(* CreateHold adds one seat to those that still count at `now', and only when
   one is free. *)
LEMMA CreateHoldStep ==
  ASSUME TypeOK, TypeOK', SeatsWithinCapacity, OneActiveHold,
         NEW q \in Quotes, NEW k \in Keys, NEW h \in HoldIds, CreateHold(q, k, h)
  PROVE  SeatsWithinCapacity' /\ OneActiveHold'
<1> DEFINE pool == Quote[q].pool
           counted == {x \in RowsOf(pool) : Counts(x, now)}
<1>0. pool \in Pools
  BY QuoteAssumption
<1>1. /\ \A x \in HoldIds \ {h} :
           /\ row'[x] = row[x]
           /\ \/ state'[x] = state[x] /\ x \notin Lapsed(RowsOf(pool), now)
              \/ x \in Lapsed(RowsOf(pool), now) /\ state'[x] = "Expired"
      /\ state[h] = "Absent" /\ state'[h] = "Active"
      /\ row'[h].quote = q /\ row'[h].key = k
  <2>1. /\ Materialized(RowsOf(pool), now) \in [HoldIds -> HoldState \cup {"Absent"}]
        /\ \A x \in HoldIds :
             \/ /\ Materialized(RowsOf(pool), now)[x] = state[x]
                /\ x \notin Lapsed(RowsOf(pool), now)
             \/ /\ x \in Lapsed(RowsOf(pool), now)
                /\ Materialized(RowsOf(pool), now)[x] = "Expired"
    BY MaterializedStates DEF RowsOf, Rows
  <2> QED
    BY <2>1 DEF CreateHold, TypeOK
<1>2. capacity' = capacity
  BY DEF CreateHold
<1>3. Rows' = Rows \cup {h}
  BY <1>1 DEF Rows, Lapsed, RowsOf
<1>4. Occupying(pool)' \subseteq counted \cup {h}
  <2> SUFFICES ASSUME NEW x \in Occupying(pool)', x # h
               PROVE  x \in counted
    OBVIOUS
  <2>1. x \in Rows /\ PoolOf(x) = pool /\ row'[x] = row[x]
    BY <1>1, <1>3 DEF Occupying, RowsOf, PoolOf, Rows
  <2>2. state'[x] = state[x] /\ x \notin Lapsed(RowsOf(pool), now)
    BY <1>1, <2>1 DEF Occupying, RowsOf, Rows
  <2>3. row[x].expires \in Nat /\ now \in Nat
    BY <2>1, TimeAssumption DEF TypeOK, HoldRow
  <2> QED
    BY <2>1, <2>2, <2>3 DEF Occupying, RowsOf, Counts, Lapsed
<1>5. \A p \in Pools \ {pool} : Occupying(p)' \subseteq Occupying(p)
  BY <1>1, <1>3 DEF Occupying, RowsOf, PoolOf, Rows
<1>6. \A p \in Pools : Occupying(p) \subseteq HoldIds
  BY DEF Occupying, RowsOf, Rows
<1>7. SeatsWithinCapacity'
  <2> SUFFICES ASSUME NEW p \in Pools
               PROVE  Cardinality(Occupying(p)') <= capacity[p]
    BY <1>2 DEF SeatsWithinCapacity
  <2>0. capacity[p] \in Nat /\ Cardinality(Occupying(p)') \in Nat
    <3>1. Occupying(p)' \subseteq HoldIds
      BY DEF Occupying, RowsOf, Rows
    <3> QED
      BY <3>1, HoldSetsFinite, CapacityAssumption DEF TypeOK
  <2>1. CASE p # pool
    BY <1>5, <1>6, <2>0, <2>1, FewerSeats, HoldSetsFinite DEF SeatsWithinCapacity
  <2>2. CASE p = pool
    <3>1. counted \in SUBSET HoldIds /\ h \notin counted
      BY <1>1 DEF RowsOf, Rows
    <3>2. /\ Cardinality(counted \cup {h}) = Cardinality(counted) + 1
          /\ Cardinality(counted) \in Nat
      BY <3>1, HoldSetsFinite, FS_AddElement
    <3>3. Cardinality(Occupying(p)') <= Cardinality(counted \cup {h})
      BY <1>4, <2>2, <3>1, FewerSeats
    <3>4. capacity[p] - Cardinality(counted) >= 1
      BY <2>2 DEF CreateHold, CommittedQuantity
    <3> QED
      BY <2>0, <3>2, <3>3, <3>4
  <2> QED
    BY <2>1, <2>2
<1>8. OneActiveHold'
  <2>1. \A x \in HoldIds \ {h} :
          state'[x] = "Active" => state[x] = "Active" /\ x \in Rows
    BY <1>1 DEF Rows
  <2>2. ASSUME NEW x \in Occupying(pool)', state'[x] = "Active", x # h
        PROVE  AccountOf(x) # Quote[q].account
    BY <1>4, <2>1, <2>2 DEF CreateHold, Counts, Occupying, RowsOf, Rows
  <2>3. \A x \in HoldIds \ {h} : AccountOf(x)' = AccountOf(x)
    BY <1>1 DEF AccountOf
  <2>4. AccountOf(h)' = Quote[q].account /\ PoolOf(h)' = pool
    BY <1>1 DEF AccountOf, PoolOf
  <2>6. ASSUME NEW p \in Pools, NEW x \in Occupying(p)', x # h, state'[x] = "Active"
        PROVE  x \in Occupying(p) /\ state[x] = "Active"
    <3>1. x \in HoldIds \ {h} /\ PoolOf(x)' = p
      BY <2>6 DEF Occupying, RowsOf, Rows
    <3>2. state[x] = "Active" /\ x \in Rows /\ PoolOf(x) = p
      BY <1>1, <2>1, <2>6, <3>1 DEF PoolOf
    <3> QED
      BY <3>2 DEF Occupying, RowsOf
  <2>7. \A p \in Pools : h \in Occupying(p)' => p = pool
    BY <2>4 DEF Occupying, RowsOf
  <2> QED
    BY <2>2, <2>3, <2>4, <2>6, <2>7 DEF OneActiveHold
<1> QED
  BY <1>7, <1>8

(* A capacity save counts every seat that stands after materialising. *)
LEMMA SaveInventoryStep ==
  ASSUME TypeOK, TypeOK', SeatsWithinCapacity, OneActiveHold,
         NEW new \in [Pools -> Capacities], NEW t \in 0..MaxTime, SaveInventory(new, t)
  PROVE  SeatsWithinCapacity' /\ OneActiveHold'
<1>1. /\ row' = row /\ capacity' = new
      /\ \A x \in HoldIds :
           \/ state'[x] = state[x] /\ x \notin Lapsed(Rows, t)
           \/ x \in Lapsed(Rows, t) /\ state'[x] = "Expired" /\ state[x] = "Active"
  BY MaterializedStates DEF SaveInventory, Rows
<1>2. Rows' = Rows
  BY <1>1 DEF Rows
<1>3. ASSUME NEW p \in Pools
      PROVE  /\ Occupying(p)' \subseteq {x \in RowsOf(p) : Counts(x, t)}
             /\ Occupying(p)' \subseteq Occupying(p)
             /\ RowsOf(p) \subseteq HoldIds
  <2> SUFFICES ASSUME NEW x \in Occupying(p)'
               PROVE  x \in RowsOf(p) /\ Counts(x, t) /\ x \in Occupying(p)
    BY DEF RowsOf, Rows
  <2>1. x \in RowsOf(p) /\ x \in Rows /\ x \in HoldIds
    BY <1>1, <1>2 DEF Occupying, RowsOf, PoolOf, Rows
  <2>2. state'[x] = state[x] /\ x \notin Lapsed(Rows, t)
    BY <1>1, <2>1 DEF Occupying
  <2>3. row[x].expires \in Nat /\ t \in Nat
    BY <2>1, TimeAssumption DEF TypeOK, HoldRow
  <2> QED
    BY <2>1, <2>2, <2>3 DEF Occupying, Counts, Lapsed
<1>4. SeatsWithinCapacity'
  <2> SUFFICES ASSUME NEW p \in Pools
               PROVE  Cardinality(Occupying(p)') <= new[p]
    BY <1>1 DEF SeatsWithinCapacity
  <2> DEFINE counted == {x \in RowsOf(p) : Counts(x, t)}
  <2>1. counted \in SUBSET HoldIds
    BY <1>3
  <2>2. Cardinality(Occupying(p)') <= Cardinality(counted)
    BY <1>3, <2>1, FewerSeats
  <2>3. new[p] >= Cardinality(counted) /\ new[p] \in Nat
    BY CapacityAssumption DEF SaveInventory, CommittedQuantity
  <2>4. Occupying(p)' \in SUBSET HoldIds
    BY <1>3
  <2>5. Cardinality(counted) \in Nat /\ Cardinality(Occupying(p)') \in Nat
    BY <2>1, <2>4, HoldSetsFinite
  <2> QED
    BY <2>2, <2>3, <2>5
<1>5. OneActiveHold'
  <2>1. \A x \in HoldIds : /\ state'[x] = "Active" => state[x] = "Active"
                           /\ AccountOf(x)' = AccountOf(x)
    BY <1>1 DEF AccountOf
  <2> QED
    BY <1>3, <2>1 DEF OneActiveHold
<1> QED
  BY <1>4, <1>5
-----------------------------------------------------------------------------
(* Materialising never touches a committed hold. *)
LEMMA CommittedStep ==
  ASSUME TypeOK, CommittedHoldHasCommitment, NEW rows \in SUBSET HoldIds, NEW t
  PROVE  \A h \in HoldIds :
           Materialized(rows, t)[h] = "Committed" => commitment[h] = "Committed"
BY MaterializedStates DEF CommittedHoldHasCommitment, Rows

(* The inductive invariant holds initially. *)
LEMMA IInvInit ==
  ASSUME Init
  PROVE  IInv
<1> USE DEF Init
<1>1. Rows = {}
  BY DEF Rows
<1>2. TypeOK /\ ReadersHoldRows
  BY <1>1, TimeAssumption DEF TypeOK, ReadersHoldRows
<1>3. \A p \in Pools : Occupying(p) = {}
  BY <1>1 DEF Occupying, RowsOf
<1>4. SeatsWithinCapacity
  <2>1. Cardinality({}) = 0
    BY FS_EmptySet
  <2>2. \A p \in Pools : capacity[p] \in Nat
    BY CapacityAssumption
  <2> QED
    BY <1>3, <2>1, <2>2 DEF SeatsWithinCapacity
<1> QED
  BY <1>1, <1>2, <1>3, <1>4
  DEF IInv, OneActiveHold, CommittedHoldHasCommitment

(* Every step keeps it: the steps that insert no row and put no hold back onto
   a seat share one argument, the other two have their own. *)
LEMMA IInvStep ==
  ASSUME IInv, [Next]_vars
  PROVE  IInv'
<1>1. /\ TypeOK /\ ReadersHoldRows /\ SeatsWithinCapacity /\ OneActiveHold
      /\ CommittedHoldHasCommitment
  BY DEF IInv
<1>2. TypeOK' /\ ReadersHoldRows'
  BY <1>1, TypeStep
<1> DEFINE Table == SeatsWithinCapacity /\ OneActiveHold
           Sound == CommittedHoldHasCommitment
<1>3. ASSUME NoNewClaim PROVE Table'
  BY <1>1, <1>2, <1>3, NoNewClaimStep
<1>4. ASSUME NEW q \in Quotes, NEW k \in Keys, NEW h \in HoldIds, CreateHold(q, k, h)
      PROVE  Table' /\ Sound'
  <2>1. Table'
    BY <1>1, <1>2, <1>4, CreateHoldStep
  <2>2. Sound'
    <3>1. RowsOf(Quote[q].pool) \in SUBSET HoldIds
      BY DEF RowsOf, Rows
    <3>2. \A x \in HoldIds : state'[x] = "Committed" => commitment'[x] = "Committed"
      BY <1>1, <1>4, <3>1, CommittedStep, MaterializedStates DEF CreateHold
    <3> QED
      BY <3>2 DEF CommittedHoldHasCommitment, Rows
  <2> QED
    BY <2>1, <2>2
<1>5. ASSUME NEW q \in Quotes, NEW k \in Keys, ReplayHold(q, k)
      PROVE  Table' /\ Sound'
  <2>1. RowsOf(Quote[q].pool) \in SUBSET HoldIds
    BY DEF RowsOf, Rows
  <2>2. NoNewClaim
    BY <1>1, <1>5, <2>1, MaterializedStates DEF ReplayHold, NoNewClaim, Rows
  <2>3. Sound'
    BY <1>1, <1>5, <2>1, CommittedStep DEF ReplayHold, CommittedHoldHasCommitment, Rows
  <2> QED
    BY <1>3, <2>2, <2>3
<1>6. ASSUME NEW r \in Readers, NEW h \in HoldIds, GetHoldRead(r, h)
      PROVE  Table' /\ Sound'
  BY <1>1, <1>3, <1>6
  DEF GetHoldRead, NoNewClaim, CommittedHoldHasCommitment, Rows
<1>7. ASSUME NEW r \in Readers, GetHoldWrite(r)
      PROVE  Table' /\ Sound'
  <2>1. reading[r] \in Rows
    BY <1>1, <1>7 DEF GetHoldWrite, ReadersHoldRows
  <2>2. NoNewClaim
    BY <1>1, <1>7, <2>1 DEF GetHoldWrite, NoNewClaim, Rows, TypeOK
  <2>3. Sound'
    BY <1>1, <1>7, <2>1 DEF GetHoldWrite, CommittedHoldHasCommitment, Rows, TypeOK
  <2> QED
    BY <1>3, <2>2, <2>3
<1>8. ASSUME NEW h \in HoldIds, ReleaseHold(h)
      PROVE  Table' /\ Sound'
  <2>1. NoNewClaim
    BY <1>1, <1>8 DEF ReleaseHold, NoNewClaim, Rows, TypeOK
  <2>2. Sound'
    BY <1>1, <1>8 DEF ReleaseHold, CommittedHoldHasCommitment, Rows, TypeOK
  <2> QED
    BY <1>3, <2>1, <2>2
<1>9. ASSUME NEW new \in [Pools -> Capacities], NEW t \in 0..MaxTime, SaveInventory(new, t)
      PROVE  Table' /\ Sound'
  <2>1. Table'
    BY <1>1, <1>2, <1>9, SaveInventoryStep
  <2>2. Rows \in SUBSET HoldIds
    BY DEF Rows
  <2>3. Sound'
    BY <1>1, <1>9, <2>2, CommittedStep DEF SaveInventory, CommittedHoldHasCommitment, Rows
  <2> QED
    BY <2>1, <2>3
<1>10. ASSUME NEW h \in HoldIds, NEW s \in 0..MaxTime, CommitHold(h, s)
       PROVE  Table' /\ Sound'
  <2>1. NoNewClaim
    BY <1>1, <1>10 DEF CommitHold, NoNewClaim, Rows, TypeOK
  <2>2. Sound'
    BY <1>1, <1>10 DEF CommitHold, CommittedHoldHasCommitment, Rows, TypeOK
  <2> QED
    BY <1>3, <2>1, <2>2
<1>11. ASSUME NEW h \in HoldIds, ReleaseCommitment(h)
       PROVE  Table' /\ Sound'
  <2>1. NoNewClaim
    BY <1>1, <1>11 DEF ReleaseCommitment, NoNewClaim, Rows, TypeOK
  <2>2. Sound'
    BY <1>1, <1>11 DEF ReleaseCommitment, CommittedHoldHasCommitment, Rows, TypeOK
  <2> QED
    BY <1>3, <2>1, <2>2
<1>12. ASSUME Tick \/ UNCHANGED vars
       PROVE  Table' /\ Sound'
  BY <1>1, <1>3, <1>12 DEF Tick, vars, NoNewClaim, CommittedHoldHasCommitment, Rows
<1>13. Table' /\ Sound'
  BY <1>4, <1>5, <1>6, <1>7, <1>8, <1>9, <1>10, <1>11, <1>12 DEF Next
<1> QED
  BY <1>2, <1>13 DEF IInv

(* The inductive invariant, for every value of the constants. *)
THEOREM InductiveInvariant == Spec => []IInv
<1>1. Init => IInv
  BY IInvInit
<1>2. IInv /\ [Next]_vars => IInv'
  BY IInvStep
<1> QED
  BY <1>1, <1>2, PTL DEF Spec

(* Types of the tables and of the requests' local state. *)
THEOREM TypeInvariant == Spec => []TypeOK
BY InductiveInvariant, PTL DEF IInv

(* The holds standing on a pool never exceed its capacity, however creations,
   replays, commits of lapsed holds, capacity saves and unlocked GETs
   interleave. *)
THEOREM NoOverbooking == Spec => []SeatsWithinCapacity
BY InductiveInvariant, PTL DEF IInv

(* Materialising under the pool lock keeps one active row per account and
   pool without help from the database's unique index. *)
THEOREM ActiveHoldUnique == Spec => []OneActiveHold
BY InductiveInvariant, PTL DEF IInv

(* A hold in state Committed has a commitment that was not released. *)
THEOREM CommittedHoldsAreSold == Spec => []CommittedHoldHasCommitment
BY InductiveInvariant, PTL DEF IInv
-----------------------------------------------------------------------------
(* The seats given back by a step, and the rows that gave theirs back. *)
Leaving ==
  {h \in Rows : state[h] \in {"Active", "Committed"} /\ state'[h] \notin {"Active", "Committed"}}
Spent == {h \in Rows : state[h] \in {"Released", "Expired"}}

(* A step that keeps the rows it finds, and puts none of them back onto a
   seat, takes exactly the leaving seats out of every pool. *)
LEMMA SeatsLeave ==
  ASSUME TypeOK, TypeOK', Rows \subseteq Rows',
         \A h \in Rows : row'[h] = row[h],
         \A h \in Rows : state'[h] \in {"Active", "Committed"}
                           => state[h] \in {"Active", "Committed"}
  PROVE  /\ Leaving \in SUBSET Pool!Held
         /\ \A p \in Pools : Occupying(p)' \cap Rows = Occupying(p) \ Leaving
         /\ Spent' \cap Rows = Spent \cup Leaving
<1>1. \A h \in Rows : PoolOf(h) \in Pools /\ PoolOf(h)' = PoolOf(h)
  BY QuoteAssumption DEF PoolOf, TypeOK, HoldRow
<1>2. Leaving \in SUBSET Pool!Held
  BY <1>1 DEF Leaving, Pool!Held, Occupying, RowsOf
<1>3. ASSUME NEW p \in Pools
      PROVE  Occupying(p)' \cap Rows = Occupying(p) \ Leaving
  BY <1>1 DEF Occupying, RowsOf, Leaving
<1>4. \A h \in Rows : state[h] \in HoldState /\ state'[h] \in HoldState
  BY DEF Rows, TypeOK
<1>5. Spent' \cap Rows = Spent \cup Leaving
  BY <1>4 DEF Spent, Leaving
<1> QED
  BY <1>2, <1>3, <1>5

(* Steps that insert no row and save no capacity give back what leaves. *)
LEMMA NoNewClaimRefines ==
  ASSUME TypeOK, TypeOK', NoNewClaim
  PROVE  Pool!Next
<1>1. /\ Leaving \in SUBSET Pool!Held
      /\ \A p \in Pools : Occupying(p)' \cap Rows = Occupying(p) \ Leaving
      /\ Spent' \cap Rows = Spent \cup Leaving
  BY SeatsLeave DEF NoNewClaim, Rows
<1>2. \A p \in Pools : Occupying(p)' = Occupying(p) \ Leaving
  BY <1>1 DEF NoNewClaim, Occupying, RowsOf
<1>3. Spent' = Spent \cup Leaving
  BY <1>1 DEF NoNewClaim, Spent
<1>4. PICK S : S = Leaving
  OBVIOUS
<1>5. Pool!GiveBack(S)
  BY <1>2, <1>3, <1>4 DEF Pool!GiveBack, NoNewClaim, Spent
<1> QED
  BY <1>1, <1>4, <1>5 DEF Pool!Next

(* CreateHold takes one seat after the pool's lapsed holds leave. *)
LEMMA CreateHoldRefines ==
  ASSUME TypeOK, TypeOK', NEW q \in Quotes, NEW k \in Keys, NEW h \in HoldIds,
         CreateHold(q, k, h)
  PROVE  Pool!Next
<1> DEFINE pool == Quote[q].pool
<1>0. pool \in Pools
  BY QuoteAssumption
<1>1. /\ \A x \in HoldIds \ {h} :
           /\ row'[x] = row[x]
           /\ \/ state'[x] = state[x] /\ x \notin Lapsed(RowsOf(pool), now)
              \/ /\ x \in Lapsed(RowsOf(pool), now)
                 /\ state'[x] = "Expired" /\ state[x] = "Active"
      /\ state[h] = "Absent" /\ state'[h] = "Active" /\ row'[h].quote = q
  <2>1. /\ Materialized(RowsOf(pool), now) \in [HoldIds -> HoldState \cup {"Absent"}]
        /\ \A x \in HoldIds :
             \/ /\ Materialized(RowsOf(pool), now)[x] = state[x]
                /\ x \notin Lapsed(RowsOf(pool), now)
             \/ /\ x \in Lapsed(RowsOf(pool), now) /\ state[x] = "Active"
                /\ Materialized(RowsOf(pool), now)[x] = "Expired"
    BY MaterializedStates DEF RowsOf, Rows
  <2> QED
    BY <2>1 DEF CreateHold, TypeOK
<1>2. Rows' = Rows \cup {h} /\ h \notin Rows
  BY <1>1 DEF Rows, Lapsed, RowsOf
<1>3. /\ Leaving \in SUBSET Pool!Held
      /\ \A p \in Pools : Occupying(p)' \cap Rows = Occupying(p) \ Leaving
      /\ Spent' \cap Rows = Spent \cup Leaving
  <2>1. \A x \in Rows : row'[x] = row[x]
    BY <1>1, <1>2 DEF Rows
  <2>2. \A x \in Rows : state'[x] \in {"Active", "Committed"}
                          => state[x] \in {"Active", "Committed"}
    BY <1>1, <1>2 DEF Rows
  <2> QED
    BY <1>2, <2>1, <2>2, SeatsLeave
<1>4. PoolOf(h)' = pool
  BY <1>1 DEF PoolOf
<1>5. \A p \in Pools : Occupying(p)' = (Occupying(p) \ Leaving)
                                         \cup (IF p = pool THEN {h} ELSE {})
  BY <1>1, <1>2, <1>3, <1>4 DEF Occupying, RowsOf
<1>6. Spent' = Spent \cup Leaving
  BY <1>1, <1>2, <1>3 DEF Spent
<1>7. h \notin Pool!Held \cup Spent
  BY <1>2 DEF Pool!Held, Occupying, RowsOf, Spent
<1>8. Cardinality(Occupying(pool) \ Leaving) < capacity[pool]
  <2> DEFINE counted == {x \in RowsOf(pool) : Counts(x, now)}
             left == Occupying(pool) \ Leaving
  <2>1. counted \in SUBSET HoldIds /\ left \in SUBSET HoldIds
    BY DEF RowsOf, Rows, Occupying
  <2>2. left \subseteq counted
    <3> SUFFICES ASSUME NEW x \in left
                 PROVE  x \in counted
      OBVIOUS
    <3>1. /\ x \in RowsOf(pool) /\ x \in Rows /\ x \in HoldIds \ {h}
          /\ state[x] \in {"Active", "Committed"}
          /\ state'[x] \in {"Active", "Committed"}
      BY <1>2 DEF Occupying, RowsOf, Leaving, Rows
    <3>2. x \notin Lapsed(RowsOf(pool), now)
      BY <1>1, <3>1
    <3>3. row[x].expires \in Nat /\ now \in Nat
      BY <3>1, TimeAssumption DEF TypeOK, HoldRow
    <3> QED
      BY <3>1, <3>2, <3>3 DEF Counts, Lapsed
  <2>3. Cardinality(left) <= Cardinality(counted)
    BY <2>1, <2>2, FewerSeats
  <2>4. Cardinality(left) \in Nat /\ Cardinality(counted) \in Nat
    BY <2>1, HoldSetsFinite
  <2>5. capacity[pool] - Cardinality(counted) >= 1 /\ capacity[pool] \in Nat
    BY <1>0, CapacityAssumption DEF CreateHold, CommittedQuantity, TypeOK
  <2> QED
    BY <2>3, <2>4, <2>5
<1>9. capacity' = capacity
  BY DEF CreateHold
<1>10. PICK S : S = Leaving
  OBVIOUS
<1>11. Pool!Take(pool, h, S)
  BY <1>0, <1>5, <1>6, <1>7, <1>8, <1>9, <1>10
  DEF Pool!Take, Spent, Pool!Cardinality, Cardinality
<1> QED
  BY <1>0, <1>3, <1>10, <1>11 DEF Pool!Next

(* SaveInventory resizes every pool after the lapsed holds leave. *)
LEMMA SaveInventoryRefines ==
  ASSUME TypeOK, TypeOK', SeatsWithinCapacity', 
         NEW new \in [Pools -> Capacities], NEW t \in 0..MaxTime, SaveInventory(new, t)
  PROVE  Pool!Next
<1>1. /\ row' = row /\ capacity' = new
      /\ \A x \in HoldIds :
           state'[x] = state[x] \/ (state'[x] = "Expired" /\ state[x] = "Active")
  BY MaterializedStates DEF SaveInventory, Rows
<1>2. Rows' = Rows
  BY <1>1 DEF Rows
<1>3. /\ Leaving \in SUBSET Pool!Held
      /\ \A p \in Pools : Occupying(p)' \cap Rows = Occupying(p) \ Leaving
      /\ Spent' \cap Rows = Spent \cup Leaving
  BY <1>1, <1>2, SeatsLeave DEF Rows
<1>4. \A p \in Pools : Occupying(p)' = Occupying(p) \ Leaving
  BY <1>2, <1>3 DEF Occupying, RowsOf
<1>5. Spent' = Spent \cup Leaving
  BY <1>2, <1>3 DEF Spent
<1>6. \A p \in Pools : Cardinality(Occupying(p) \ Leaving) <= new[p]
  BY <1>1, <1>4 DEF SeatsWithinCapacity
<1>7. PICK S : S = Leaving
  OBVIOUS
<1>8. Pool!Resize(new, S)
  BY <1>1, <1>4, <1>5, <1>6, <1>7
  DEF Pool!Resize, Spent, Pool!Cardinality, Cardinality
<1> QED
  BY <1>3, <1>7, <1>8 DEF Pool!Next

(* Every step of the holds is a step of the abstract pool. *)
LEMMA StepRefines ==
  ASSUME IInv, IInv', [Next]_vars
  PROVE  [Pool!Next]_(Pool!vars)
<1>1. TypeOK /\ TypeOK' /\ ReadersHoldRows /\ SeatsWithinCapacity'
  BY DEF IInv
<1>2. ASSUME NEW q \in Quotes, NEW k \in Keys, NEW h \in HoldIds, CreateHold(q, k, h)
      PROVE  Pool!Next
  BY <1>1, <1>2, CreateHoldRefines
<1>3. ASSUME NEW new \in [Pools -> Capacities], NEW t \in 0..MaxTime, SaveInventory(new, t)
      PROVE  Pool!Next
  BY <1>1, <1>3, SaveInventoryRefines
<1>4. ASSUME NEW q \in Quotes, NEW k \in Keys, ReplayHold(q, k)
      PROVE  Pool!Next
  <2>1. RowsOf(Quote[q].pool) \in SUBSET HoldIds
    BY DEF RowsOf, Rows
  <2>2. NoNewClaim
    BY <1>1, <1>4, <2>1, MaterializedStates DEF ReplayHold, NoNewClaim, Rows
  <2> QED
    BY <1>1, <2>2, NoNewClaimRefines
<1>5. ASSUME NEW r \in Readers, GetHoldWrite(r)
      PROVE  Pool!Next
  <2>1. reading[r] \in Rows
    BY <1>1, <1>5 DEF GetHoldWrite, ReadersHoldRows
  <2>2. NoNewClaim
    BY <1>1, <1>5, <2>1 DEF GetHoldWrite, NoNewClaim, Rows, TypeOK
  <2> QED
    BY <1>1, <2>2, NoNewClaimRefines
<1>6. ASSUME NEW h \in HoldIds,
             \/ ReleaseHold(h)
             \/ \E s \in 0..MaxTime : CommitHold(h, s)
             \/ ReleaseCommitment(h)
      PROVE  Pool!Next
  <2>1. NoNewClaim
    BY <1>1, <1>6
    DEF ReleaseHold, CommitHold, ReleaseCommitment, NoNewClaim, Rows, TypeOK
  <2> QED
    BY <1>1, <2>1, NoNewClaimRefines
<1>7. ASSUME \/ \E r \in Readers, h \in HoldIds : GetHoldRead(r, h)
             \/ Tick
             \/ UNCHANGED vars
      PROVE  Pool!Next
  <2>1. NoNewClaim
    BY <1>7 DEF GetHoldRead, Tick, vars, NoNewClaim, Rows
  <2> QED
    BY <1>1, <2>1, NoNewClaimRefines
<1> QED
  BY <1>2, <1>3, <1>4, <1>5, <1>6, <1>7 DEF Next

(* The holds implement the abstract pool of seats. *)
THEOREM Refinement == Spec => ImplementsSeatPool
<1>1. Init => Pool!Init
  <2> SUFFICES ASSUME Init
               PROVE  Pool!Init
    OBVIOUS
  <2>1. Rows = {}
    BY DEF Init, Rows
  <2>2. \A p \in Pools : Occupying(p) = {}
    BY <2>1 DEF Occupying, RowsOf
  <2> QED
    BY <2>1, <2>2 DEF Init, Pool!Init
<1>2. IInv /\ IInv' /\ [Next]_vars => [Pool!Next]_(Pool!vars)
  BY StepRefines
<1> QED
  BY <1>1, <1>2, InductiveInvariant, PTL DEF Spec, ImplementsSeatPool, Pool!Spec
-----------------------------------------------------------------------------
(* With no unlocked GET in flight a sold seat stays counted.  An id no row was
   inserted with has no commitment. *)
SoldInv == SoldSeatStaysCounted /\ \A h \in HoldIds : commitment[h] # "None" => h \in Rows

LEMMA SoldStep ==
  ASSUME Readers = {}, IInv, SoldInv, [Next]_vars
  PROVE  SoldInv'
<1>1. TypeOK /\ ReadersHoldRows
  BY DEF IInv
<1>2. Rows \subseteq Rows'
  BY <1>1, TypeStep
<1> USE DEF SoldInv, SoldSeatStaysCounted
<1>3. ASSUME commitment' = commitment,
             \A h \in HoldIds : /\ state[h] = "Committed" => state'[h] = "Committed"
      PROVE  SoldInv'
  BY <1>2, <1>3 DEF Rows
<1>4. ASSUME NEW q \in Quotes, NEW k \in Keys, NEW h \in HoldIds, CreateHold(q, k, h)
      PROVE  SoldInv'
  <2>1. /\ Materialized(RowsOf(Quote[q].pool), now) \in [HoldIds -> HoldState \cup {"Absent"}]
        /\ \A x \in HoldIds : state[x] = "Committed"
             => Materialized(RowsOf(Quote[q].pool), now)[x] = "Committed"
    BY <1>1, MaterializedStates DEF RowsOf, Rows
  <2>2. \A x \in HoldIds : state[x] = "Committed" => state'[x] = "Committed"
    BY <1>1, <1>4, <2>1 DEF CreateHold, TypeOK
  <2> QED
    BY <1>3, <1>4, <2>2 DEF CreateHold
<1>5. ASSUME NEW q \in Quotes, NEW k \in Keys, ReplayHold(q, k)
      PROVE  SoldInv'
  <2>1. \A x \in HoldIds : state[x] = "Committed" => state'[x] = "Committed"
    BY <1>1, <1>5, MaterializedStates DEF ReplayHold, RowsOf, Rows
  <2> QED
    BY <1>3, <1>5, <2>1 DEF ReplayHold
<1>6. ASSUME NEW new \in [Pools -> Capacities], NEW t \in 0..MaxTime, SaveInventory(new, t)
      PROVE  SoldInv'
  <2>1. \A x \in HoldIds : state[x] = "Committed" => state'[x] = "Committed"
    BY <1>1, <1>6, MaterializedStates DEF SaveInventory, Rows
  <2> QED
    BY <1>3, <1>6, <2>1 DEF SaveInventory
<1>7. ASSUME NEW h \in HoldIds, ReleaseHold(h)
      PROVE  SoldInv'
  BY <1>1, <1>3, <1>7 DEF ReleaseHold, TypeOK
<1>8. ASSUME NEW h \in HoldIds,
             ReleaseCommitment(h) \/ \E s \in 0..MaxTime : CommitHold(h, s)
      PROVE  SoldInv'
  BY <1>1, <1>2, <1>8 DEF ReleaseCommitment, CommitHold, TypeOK, Rows
<1>9. ASSUME Tick \/ UNCHANGED vars
      PROVE  SoldInv'
  BY <1>3, <1>9 DEF Tick, vars
<1> QED
  BY <1>4, <1>5, <1>6, <1>7, <1>8, <1>9 DEF Next

(* A sold seat that is counted stands on its pool, so sold seats are bounded
   by the seats standing. *)
LEMMA SoldBound ==
  ASSUME IInv, SoldInv
  PROVE  SoldSeatsWithinCapacity
<1> SUFFICES ASSUME NEW p \in Pools
             PROVE  Cardinality(Sold(p)) <= capacity[p]
  BY DEF SoldSeatsWithinCapacity
<1>1. Sold(p) \subseteq Occupying(p) /\ Occupying(p) \in SUBSET HoldIds
  BY DEF Sold, Occupying, SoldInv, SoldSeatStaysCounted, RowsOf, Rows
<1>2. Cardinality(Sold(p)) <= Cardinality(Occupying(p))
  BY <1>1, FewerSeats
<1>3. Cardinality(Occupying(p)) <= capacity[p] /\ capacity[p] \in Nat
  BY CapacityAssumption DEF IInv, SeatsWithinCapacity, TypeOK
<1>4. Sold(p) \in SUBSET HoldIds
  BY <1>1
<1>5. Cardinality(Sold(p)) \in Nat /\ Cardinality(Occupying(p)) \in Nat
  BY <1>1, <1>4, HoldSetsFinite
<1> QED
  BY <1>2, <1>3, <1>5

(* Without unlocked GETs a pool is never sold beyond its capacity: the lost
   update of GetHoldAsync is the only way to break BUSINESS-RULES.md:121. *)
THEOREM NoOversellWithoutUnlockedReads ==
  ASSUME Readers = {}
  PROVE  Spec => []SoldSeatsWithinCapacity
<1>1. Init => SoldInv
  BY DEF Init, SoldInv, SoldSeatStaysCounted, Rows
<1>2. IInv /\ SoldInv /\ [Next]_vars => SoldInv'
  BY SoldStep
<1>3. IInv /\ SoldInv => SoldSeatsWithinCapacity
  BY SoldBound
<1> QED
  BY <1>1, <1>2, <1>3, InductiveInvariant, PTL DEF Spec
=============================================================================
