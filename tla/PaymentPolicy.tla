---------------------------- MODULE PaymentPolicy ----------------------------
(***************************************************************************)
(* The states of a payment attempt, the moves between them, and the        *)
(* judgement on a provider event: apply it, ignore it, or reject it.       *)
(***************************************************************************)

PaymentAttemptState ==
  {"Created", "ProviderPending", "RequiresAction", "Succeeded", "Failed", "Cancelled"}

ProviderEventOutcome == {"Applied", "Duplicate", "IgnoredOutOfOrder", "Rejected"}

IsTerminal(s) == s \in {"Succeeded", "Cancelled"}

PaymentMoves ==
  ({"Created"} \X {"ProviderPending", "RequiresAction", "Failed", "Cancelled"})
  \cup ({"ProviderPending"} \X {"RequiresAction", "Succeeded", "Failed", "Cancelled"})
  \cup ({"RequiresAction"} \X {"ProviderPending", "Succeeded", "Failed", "Cancelled"})
  \cup ({"Failed"} \X {"ProviderPending", "RequiresAction"})

(* PaymentPolicy.CanTransition *)
CanMovePayment(current, next) ==
  <<current, next>> \in PaymentMoves \/ current = next

(* Mutants of EvaluateProviderEvent: the policy is not asked; it is asked
   before the event is compared with the state. *)
EvaluateTrusting(current, requested) ==
  IF current = requested THEN "Duplicate" ELSE "Applied"
EvaluatePolicyFirst(current, requested) ==
  CASE CanMovePayment(current, requested) -> "Applied"
    [] ~CanMovePayment(current, requested) /\ IsTerminal(current) -> "IgnoredOutOfOrder"
    [] OTHER -> "Rejected"

(* PaymentPolicy.EvaluateProviderEvent *)
EvaluateProviderEvent(current, requested) ==
  CASE current = requested -> "Duplicate"
    [] current # requested /\ IsTerminal(current) -> "IgnoredOutOfOrder"
    [] current # requested /\ ~IsTerminal(current) /\ CanMovePayment(current, requested) -> "Applied"
    [] OTHER -> "Rejected"
=============================================================================
