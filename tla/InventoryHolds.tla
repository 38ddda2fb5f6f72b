--------------------------- MODULE InventoryHolds ---------------------------
(***************************************************************************)
(* The Inventory module: saleable pools, the temporary holds customers     *)
(* take on them, and the durable commitments a confirmed booking leaves    *)
(* behind.                                                                 *)
(*                                                                         *)
(* Every handler runs on its own database connection at READ COMMITTED.    *)
(* CreateHold and SaveInventory serialise on the pool row (FOR UPDATE),    *)
(* ReleaseHold, CommitHold and ReleaseCommitment on the hold row; each of  *)
(* those transactions is one action.  GetHold takes no lock: it reads the  *)
(* row, looks at the clock, and may write the row it read back, so it is   *)
(* two actions with `reading' as its local state in between.               *)
(*                                                                         *)
(* A quote names its account, its pool (departure and occupancy) and its   *)
(* expiry.  A hold always has quantity 1, so sums of quantities are        *)
(* cardinalities.  Time is a counter that stops at MaxTime.                *)
(***************************************************************************)
EXTENDS Integers, FiniteSets

CONSTANTS
  Pools,          \* inventory pools of one configuration
  Quotes,         \* priced quotes
  Quote,          \* Quote[q] = [account |-> _, pool |-> _, expires |-> _]
  Keys,           \* idempotency keys a client may send
  HoldIds,        \* identities hold rows may take
  Readers,        \* concurrent GET requests
  Nothing,        \* a reader that has read no row
  NoRow,          \* the columns of an id no row was inserted with
  Lifetime,       \* InventoryHoldOptions.Lifetime
  Capacities,     \* capacities an operator may save for a pool
  MaxTime         \* the clock stops here

Accounts == {Quote[q].account : q \in Quotes}

ASSUME QuoteAssumption ==
  \A q \in Quotes : Quote[q].pool \in Pools /\ Quote[q].expires \in Nat
ASSUME LifetimeAssumption == Lifetime \in Nat \ {0}
ASSUME CapacityAssumption == Capacities \subseteq Nat
ASSUME TimeAssumption == MaxTime \in Nat
ASSUME FiniteAssumption == IsFiniteSet(HoldIds)
ASSUME NothingAssumption == Nothing \notin HoldIds

VARIABLES
  now,            \* the wall clock
  capacity,       \* inventory_pools.Capacity
  state,          \* inventory_holds.State by id; "Absent" until inserted
  row,            \* the columns of inventory_holds that never change
  commitment,     \* inventory_commitments and inventory_releases, by HoldId
  reading         \* the hold row each GET request has in memory

vars == <<now, capacity, state, row, commitment, reading>>

HoldState == {"Active", "Released", "Expired", "Committed"}
HoldRow == [quote : Quotes, key : Keys, expires : Nat]

PoolOf(h) == Quote[row[h].quote].pool
AccountOf(h) == Quote[row[h].quote].account

Rows == {h \in HoldIds : state[h] # "Absent"}
RowsOf(p) == {h \in Rows : PoolOf(h) = p}

(* Mutant of CalculateExpiry: time left, not the moment. *)
TimeLeft(created, quoteExpires) == quoteExpires - created - Lifetime

(* InventoryHoldPolicy.CalculateExpiry *)
CalculateExpiry(created, quoteExpires) ==
  IF created + Lifetime <= quoteExpires THEN created + Lifetime ELSE quoteExpires

(* Mutants of Counts: confirmed seats forgotten; expiry not looked at. *)
CountsUnsoldOnly(h, t) == state[h] = "Active" /\ row[h].expires > t
CountsForEver(h, t) == state[h] \in {"Active", "Committed"}

(* A hold counts against its pool while it is committed, or active and
   unexpired at t. *)
Counts(h, t) ==
  \/ state[h] = "Active" /\ row[h].expires > t
  \/ state[h] = "Committed"

(* GetCommittedQuantityAsync *)
CommittedQuantity(p, t) == Cardinality({h \in RowsOf(p) : Counts(h, t)})

(* Mutants of Lapsed: the boundary instant missed; sold holds swept too. *)
LapsedStrictly(rows, t) == {h \in rows : state[h] = "Active" /\ row[h].expires < t}
LapsedOrSold(rows, t) ==
  {h \in rows : state[h] \in {"Active", "Committed"} /\ row[h].expires <= t}

(* MaterializeExpiredAsync: the rows the set-based UPDATE touches at t *)
Lapsed(rows, t) == {h \in rows : state[h] = "Active" /\ row[h].expires <= t}
Materialized(rows, t) ==
  [h \in HoldIds |-> IF h \in Lapsed(rows, t) THEN "Expired" ELSE state[h]]
-----------------------------------------------------------------------------
Init ==
  /\ now = 0
  /\ capacity \in [Pools -> Capacities]
  /\ state = [h \in HoldIds |-> "Absent"]
  /\ row = [h \in HoldIds |-> NoRow]
  /\ commitment = [h \in HoldIds |-> "None"]
  /\ reading = [r \in Readers |-> Nothing]

(* POST /quotes/{q}/holds.  The clock is read after the pool lock is granted,
   and lapsed holds of the pool are materialised before anything is counted.
   Every refusal rolls the transaction back, materialisation included, so it
   is no step; so is a refusal by the saleability checks made before it. *)
CreateHold(q, k, h) ==
  LET p == Quote[q].pool
      a == Quote[q].account
      byKey == {x \in Rows : AccountOf(x) = a /\ row[x].key = k}
      active == {x \in RowsOf(p) : AccountOf(x) = a /\ state[x] = "Active"
                                   /\ row[x].expires > now}
  IN  /\ now < Quote[q].expires
      /\ state[h] = "Absent"
      /\ byKey = {}
      /\ active = {}
      /\ capacity[p] - CommittedQuantity(p, now) >= 1
      /\ state' = [Materialized(RowsOf(p), now) EXCEPT ![h] = "Active"]
      /\ row' = [row EXCEPT ![h] =
                   [quote |-> q, key |-> k,
                    expires |-> CalculateExpiry(now, Quote[q].expires)]]
      /\ UNCHANGED <<now, capacity, commitment, reading>>

(* The same request replayed with a key already used for the same quote: the
   transaction commits, so the materialisation stays. *)
ReplayHold(q, k) ==
  LET p == Quote[q].pool IN
  /\ now < Quote[q].expires
  /\ \E x \in Rows : row[x].key = k /\ row[x].quote = q
  /\ state' = Materialized(RowsOf(p), now)
  /\ UNCHANGED <<now, capacity, row, commitment, reading>>

(* GET /inventory-holds/{h}: the row is read without a lock ... *)
GetHoldRead(r, h) ==
  /\ reading[r] = Nothing
  /\ state[h] = "Active"
  /\ reading' = [reading EXCEPT ![r] = h]
  /\ UNCHANGED <<now, capacity, state, row, commitment>>

(* ... and if it was active when read and its expiry is past when the handler
   looks at the clock, State is written by primary key alone: no concurrency
   token, so the row's present state does not matter. *)
GetHoldWrite(r) ==
  LET h == reading[r] IN
  /\ h # Nothing
  /\ IF row[h].expires <= now
     THEN state' = [state EXCEPT ![h] = "Expired"]
     ELSE UNCHANGED state
  /\ reading' = [reading EXCEPT ![r] = Nothing]
  /\ UNCHANGED <<now, capacity, row, commitment>>

(* POST /inventory-holds/{h}/release, under the hold row lock *)
ReleaseHold(h) ==
  /\ state[h] = "Active"
  /\ state' = [state EXCEPT ![h] =
                IF row[h].expires <= now THEN "Expired" ELSE "Released"]
  /\ UNCHANGED <<now, capacity, row, commitment, reading>>

(* The operator's capacity save.  `t' is the clock reading taken before the
   pool locks were requested, so it may be old.  Every pool of the
   configuration is saved at once, and lapsed holds of all pools are
   materialised.  The optimistic version check only rejects requests. *)
SaveInventory(new, t) ==
  /\ t <= now
  /\ \A p \in Pools : new[p] >= CommittedQuantity(p, t)
  /\ capacity' = new
  /\ state' = Materialized(Rows, t)
  /\ UNCHANGED <<now, row, commitment, reading>>

(* Mutant of CommitHold: the hold's state is not looked at. *)
CommitAnyHold(h, settledAt) ==
  /\ settledAt <= now
  /\ commitment[h] = "None"
  /\ h \in Rows /\ row[h].expires > settledAt
  /\ commitment' = [commitment EXCEPT ![h] = "Committed"]
  /\ state' = [state EXCEPT ![h] = "Committed"]
  /\ UNCHANGED <<now, capacity, row, reading>>

(* ConfirmationService, inventory transaction: a hold that is still active in
   the table and outlived the moment the provider settled the payment becomes
   a commitment, even when its expiry is past by now. *)
CommitHold(h, settledAt) ==
  /\ settledAt <= now
  /\ commitment[h] = "None"
  /\ state[h] = "Active"
  /\ row[h].expires > settledAt
  /\ commitment' = [commitment EXCEPT ![h] = "Committed"]
  /\ state' = [state EXCEPT ![h] = "Committed"]
  /\ UNCHANGED <<now, capacity, row, reading>>

(* Mutant of ReleaseCommitment: only the release is recorded. *)
ReleaseRecordOnly(h) ==
  /\ commitment[h] = "Committed"
  /\ commitment' = [commitment EXCEPT ![h] = "Released"]
  /\ UNCHANGED <<now, capacity, state, row, reading>>

(* CancellationRefundService.ReleaseInventoryAsync.  A committed hold whose
   row was meanwhile overwritten makes the release throw: no action. *)
ReleaseCommitment(h) ==
  /\ commitment[h] = "Committed"
  /\ state[h] \in {"Committed", "Released"}
  /\ commitment' = [commitment EXCEPT ![h] = "Released"]
  /\ state' = [state EXCEPT ![h] = "Released"]
  /\ UNCHANGED <<now, capacity, row, reading>>

Tick ==
  /\ now < MaxTime
  /\ now' = now + 1
  /\ UNCHANGED <<capacity, state, row, commitment, reading>>

Next ==
  \/ \E q \in Quotes, k \in Keys, h \in HoldIds : CreateHold(q, k, h)
  \/ \E q \in Quotes, k \in Keys : ReplayHold(q, k)
  \/ \E r \in Readers, h \in HoldIds : GetHoldRead(r, h)
  \/ \E r \in Readers : GetHoldWrite(r)
  \/ \E h \in HoldIds : ReleaseHold(h)
  \/ \E new \in [Pools -> Capacities], t \in 0..MaxTime : SaveInventory(new, t)
  \/ \E h \in HoldIds, settledAt \in 0..MaxTime : CommitHold(h, settledAt)
  \/ \E h \in HoldIds : ReleaseCommitment(h)
  \/ Tick

Spec == Init /\ [][Next]_vars
FairSpec == Spec /\ WF_vars(Tick)
-----------------------------------------------------------------------------
(* Types of the tables and of each request's local state. *)
TypeOK ==
  /\ now \in 0..MaxTime
  /\ capacity \in [Pools -> Capacities]
  /\ state \in [HoldIds -> HoldState \cup {"Absent"}]
  /\ row \in [HoldIds -> HoldRow \cup {NoRow}]
  /\ \A h \in Rows : row[h] \in HoldRow
  /\ commitment \in [HoldIds -> {"None", "Committed", "Released"}]
  /\ reading \in [Readers -> HoldIds \cup {Nothing}]

(* A GET request in flight holds a row that exists. *)
ReadersHoldRows == \A r \in Readers : reading[r] # Nothing => reading[r] \in Rows

(* Holds of p that the table still says stand on a seat, lapsed or not. *)
Occupying(p) == {h \in RowsOf(p) : state[h] \in {"Active", "Committed"}}

(* Under every interleaving of creations, commits of long-lapsed holds,
   capacity saves with an old clock reading, releases and unlocked reads, the
   holds standing on a pool never exceed its capacity: CreateHold
   (InventoryHoldEndpoints.cs:83-152) and SaveInventory
   (CommercialAuthoringEndpoints.cs:266-291) count after materialising. *)
SeatsWithinCapacity ==
  \A p \in Pools : Cardinality(Occupying(p)) <= capacity[p]

(* The partial unique index on active holds (InventoryDbContext.cs:97-102) is
   never what stops a creation: materialising lapsed holds under the pool lock
   leaves an account at most one row in state Active per pool. *)
OneActiveHold ==
  \A p \in Pools, x, y \in HoldIds :
    (/\ x \in Occupying(p) /\ state[x] = "Active"
     /\ y \in Occupying(p) /\ state[y] = "Active"
     /\ AccountOf(x) = AccountOf(y)) => x = y

(* A hold in state Committed always has a commitment that was not released. *)
CommittedHoldHasCommitment ==
  \A h \in Rows : state[h] = "Committed" => commitment[h] = "Committed"

(* Seats sold: commitments that were not released by a cancellation. *)
Sold(p) == {h \in RowsOf(p) : commitment[h] = "Committed"}

(* BUSINESS-RULES.md:121, "Confirmed reservations for a controlled inventory
   pool must not exceed its sellable capacity through normal system
   operations."  Broken by GetHoldWrite, which can put a committed hold back
   to Expired so that its seat is sold again; true when no GET is in flight. *)
SoldSeatsWithinCapacity ==
  \A p \in Pools : Cardinality(Sold(p)) <= capacity[p]

(* A sold seat keeps being counted: its hold stays Committed until the
   commitment is released.  Like SoldSeatsWithinCapacity it needs that no
   unlocked GET writes. *)
SoldSeatStaysCounted ==
  \A h \in Rows : commitment[h] = "Committed" => state[h] = "Committed"

(* An abandoned hold gives its seat back with no job running: it stops
   counting against its pool once the clock passes its expiry. *)
AbandonedSeatReturns ==
  \A h \in HoldIds :
    state[h] = "Active" ~> (state[h] = "Committed" \/ ~Counts(h, now))

(* The inductive invariant the proofs use. *)
IInv ==
  /\ TypeOK
  /\ ReadersHoldRows
  /\ SeatsWithinCapacity
  /\ OneActiveHold
  /\ CommittedHoldHasCommitment

(* The seats the table hands out, seen as the abstract pool. *)
Pool == INSTANCE SeatPool WITH
  Claims <- HoldIds,
  Sizes <- Capacities,
  size <- capacity,
  taken <- [p \in Pools |-> Occupying(p)],
  spent <- {h \in Rows : state[h] \in {"Released", "Expired"}}

(* The holds implement the abstract pool: never more seats than the size, no
   size below the seats handed out, and no claim revived. *)
ImplementsSeatPool == Pool!Spec
=============================================================================
