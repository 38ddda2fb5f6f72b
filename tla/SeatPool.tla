------------------------------ MODULE SeatPool ------------------------------
(***************************************************************************)
(* What the inventory promises: a pool never hands out more seats than its *)
(* size, a size is never saved below what is handed out, and a seat claim  *)
(* that was given back is spent for ever.  Claims may lapse at any moment, *)
(* alone or together with another step, which is how lazily materialised   *)
(* expiry looks from outside.                                              *)
(***************************************************************************)
EXTENDS Integers, FiniteSets

CONSTANTS Pools, Claims, Sizes

VARIABLES
  size,     \* seats each pool may hand out
  taken,    \* claims that hold a seat, by pool
  spent     \* claims that gave their seat back

vars == <<size, taken, spent>>

Held == UNION {taken[p] : p \in Pools}

Init ==
  /\ size \in [Pools -> Sizes]
  /\ taken = [p \in Pools |-> {}]
  /\ spent = {}

(* the claims of S give their seats back *)
GiveBack(S) ==
  /\ taken' = [p \in Pools |-> taken[p] \ S]
  /\ spent' = spent \cup S
  /\ UNCHANGED size

(* claim c takes a seat of pool p, after the claims of S lapsed *)
Take(p, c, S) ==
  /\ c \notin Held \cup spent
  /\ Cardinality(taken[p] \ S) < size[p]
  /\ taken' = [x \in Pools |-> (taken[x] \ S) \cup (IF x = p THEN {c} ELSE {})]
  /\ spent' = spent \cup S
  /\ UNCHANGED size

Resize(new, S) ==
  /\ \A p \in Pools : Cardinality(taken[p] \ S) <= new[p]
  /\ size' = new
  /\ taken' = [p \in Pools |-> taken[p] \ S]
  /\ spent' = spent \cup S

Next ==
  \E S \in SUBSET Held :
    \/ GiveBack(S)
    \/ \E p \in Pools, c \in Claims : Take(p, c, S)
    \/ \E new \in [Pools -> Sizes] : Resize(new, S)

Spec == Init /\ [][Next]_vars
=============================================================================
