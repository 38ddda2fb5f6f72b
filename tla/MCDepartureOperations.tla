------------------------ MODULE MCDepartureOperations ------------------------
(* Small instances of DepartureOperations: three travellers, two doubles in
   Makkah and a quad in Madinah, and one mix of operations per scenario. *)
EXTENDS DepartureOperations, TLC

CONSTANTS t1, t2, t3, makkah1, makkah2, madinah1

MCStayOf == [r \in Rooms |-> IF r = madinah1 THEN "Madinah" ELSE "Makkah"]
MCTypeOf == [r \in Rooms |-> IF r = madinah1 THEN "Quad" ELSE "Double"]

(* nothing but the given operations may be begun *)
Only(given) ==
  [op \in Operations |-> IF op \in DOMAIN given THEN given[op] ELSE 0]

Fresh(who, given) ==
  [party |-> who, prepared |-> {}, visas |-> "Processing", left |-> Only(given)]
Prepared(who, status, given) ==
  [party |-> who, prepared |-> who, visas |-> status, left |-> Only(given)]

MCScenarios == {
  (* rooms from the beginning, up to the race for the last bed *)
  Fresh({t1, t2, t3}, [load |-> 4, room |-> 1, assign |-> 3]),
  (* moving, removing and locking at once *)
  Fresh({t1, t2}, [load |-> 3, room |-> 2, lock |-> 1]),
  Prepared({t1, t2, t3}, "Approved", [load |-> 2, assign |-> 2, lock |-> 1]),
  Prepared({t1, t2}, "Approved", [load |-> 3, assign |-> 2, unassign |-> 1]),
  (* the party changes and the booking ends while rooms are assigned *)
  Prepared({t1, t2}, "Approved", [load |-> 1, assign |-> 1, amend |-> 1, cancel |-> 1]),
  Fresh({t1, t2}, [amend |-> 4, cancel |-> 1]),
  (* documents and visas from the beginning *)
  Fresh({t1, t2}, [open |-> 1, upload |-> 3, review |-> 3]),
  Fresh({t1, t2}, [open |-> 2, upload |-> 1, review |-> 1, visa |-> 6]),
  (* visas are decided, documents renewed and beds taken back while two people
     complete the handover *)
  Prepared({t1, t2}, "Processing", [visa |-> 3, handover |-> 2]),
  Prepared({t1, t2}, "Approved", [amend |-> 1, cancel |-> 1, handover |-> 2, leader |-> 2]),
  Prepared({t1, t2}, "Approved",
           [load |-> 1, unassign |-> 1, upload |-> 1, handover |-> 1, leader |-> 1])}

Symmetry == Permutations(Operators) \cup Permutations(Amenders)
            \cup Permutations(Uploaders) \cup Permutations(Reviewers)
            \cup Permutations(Officers) \cup Permutations(Closers)
            \cup Permutations(Leads) \cup Permutations(Leaders)
=============================================================================
