---------------------------- MODULE MCCheckoutSaga ----------------------------
(* Small instances of CheckoutSaga; the configurations choose how many of each
   kind of request run at once. *)
EXTENDS CheckoutSaga, TLC

Symmetry == Permutations(Attempts) \cup Permutations(Initiators)
            \cup Permutations(Webhooks) \cup Permutations(Retries)
            \cup Permutations(Cancellations) \cup Permutations(Approvers)
            \cup Permutations(Requesters) \cup Permutations(Executors)
=============================================================================
