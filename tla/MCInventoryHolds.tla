-------------------------- MODULE MCInventoryHolds --------------------------
(* Small instances of InventoryHolds: two accounts, three quotes over one or
   two pools.  Quotes q1 and q2 belong to one account, q3 to the other; a quote
   that expires at 3 outlives a hold taken on it at once. *)
EXTENDS InventoryHolds, TLC

CONSTANTS q1, q2, q3, ann, ben, quad, twin

OnePoolQuote == (q1 :> [account |-> ann, pool |-> quad, expires |-> 2])
             @@ (q2 :> [account |-> ann, pool |-> quad, expires |-> 3])
             @@ (q3 :> [account |-> ben, pool |-> quad, expires |-> 3])

TwoPoolQuote == (q1 :> [account |-> ann, pool |-> quad, expires |-> 3])
             @@ (q2 :> [account |-> ann, pool |-> twin, expires |-> 3])
             @@ (q3 :> [account |-> ben, pool |-> quad, expires |-> 2])
=============================================================================
