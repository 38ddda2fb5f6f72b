--------------------------- MODULE PaymentCheckout ---------------------------
(***************************************************************************)
(* The payment endpoints: initiation, the checkout callback and the        *)
(* provider's webhooks, with the provider as their environment.            *)
(*                                                                         *)
(* An initiation reads the booking, the attempts and the hold without      *)
(* locks, inserts (or finds) the attempt of its idempotency key, calls the *)
(* provider, and then writes the attempt and the booking in turn.  Each    *)
(* statement that can be overtaken is an action; `initAt' is the next one. *)
(* payment_attempts has no concurrency token: except in a webhook's        *)
(* transaction, which locks the row, State is written by primary key over  *)
(* whatever the row has become.                                            *)
(***************************************************************************)
EXTENDS Confirmation

CONSTANTS
  Initiators,    \* concurrent initiation requests
  Callbacks,     \* concurrent checkout callback requests
  Subscribed     \* event types the provider account delivers

VARIABLES
  initAt,        \* the step each initiation is about to make
  initAttempt,   \* the attempt of its idempotency key
  tracked,       \* its change tracker holds the attempt, as Created
  hookAt,        \* "Idle", or "Project": the attempt is saved, the booking not
  hookEvent,     \* the event each webhook request carries
  callbackOf,    \* attempt a callback has read and is about to write
  order,         \* the provider's order: none, open, or captured (in time?)
  sent,          \* events the provider has emitted
  seen           \* provider_events: events recorded, applied or not

initVars == <<initAt, initAttempt, tracked>>
hookVars == <<hookAt, hookEvent>>
providerVars == <<order, sent, seen>>
payVars == <<initVars, hookVars, callbackOf, providerVars>>

(* RazorpayPaymentProvider.VerifyAsync: event types and what they request *)
Requested(kind) ==
  CASE kind = "payment.authorized" -> "ProviderPending"
    [] kind \in {"payment.captured", "order.paid"} -> "Succeeded"
    [] kind = "payment.failed" -> "Failed"
PaymentOf(kind) == IF kind = "payment.failed" THEN "declined" ELSE "taken"

EventKind == {"payment.authorized", "payment.captured", "order.paid", "payment.failed"}
Event == [attempt : Attempts, kind : EventKind]
Events(a, kinds) == {[attempt |-> a, kind |-> k] : k \in kinds \cap Subscribed}

ASSUME SubscriptionAssumption == Subscribed \subseteq EventKind

(* Mutant of Live: an attempt at the provider is overlooked. *)
LiveBeforeProvider == {"Created", "RequiresAction", "Succeeded"}

(* an attempt that stands in the way of another one *)
Live == {"Created", "ProviderPending", "RequiresAction", "Succeeded"}
OtherLive(a) == {b \in Attempts \ {a} : attemptState[b] \in Live}

PayInit ==
  /\ initAt = [i \in Initiators |-> "Idle"]
  /\ initAttempt = [i \in Initiators |-> None]
  /\ tracked = [i \in Initiators |-> FALSE]
  /\ hookAt = [w \in Webhooks |-> "Idle"]
  /\ hookEvent = [w \in Webhooks |-> None]
  /\ callbackOf = [c \in Callbacks |-> None]
  /\ order = [a \in Attempts |-> "none"]
  /\ sent = {}
  /\ seen = {}

InitStep == {"Idle", "Check", "Find", "Insert", "Gateway", "FailRead", "FailWrite",
             "FailProject", "Read", "Write", "Project"}

PayTypeOK ==
  /\ initAt \in [Initiators -> InitStep]
  /\ initAttempt \in [Initiators -> Attempts \cup {None}]
  /\ tracked \in [Initiators -> BOOLEAN]
  /\ hookAt \in [Webhooks -> {"Idle", "Project"}]
  /\ hookEvent \in [Webhooks -> Event \cup {None}]
  /\ callbackOf \in [Callbacks -> Attempts \cup {None}]
  /\ order \in [Attempts -> {"none", "open"} \cup Settlement]
  /\ sent \subseteq Event
  /\ seen \subseteq sent

(* Mutant of TransitionAllowed: the policy is not asked. *)
TransitionUnchecked(next) == next \in BookingState

(* TryTransitionAsync, under the booking row lock *)
TransitionAllowed(next) == CanMoveBooking(bookingState, next)
TryTransition(next) ==
  /\ bookingState' = IF TransitionAllowed(next) THEN next ELSE bookingState
  /\ UNCHANGED settled

GoTo(i, step) == initAt' = [initAt EXCEPT ![i] = step]
Done(i) ==
  /\ GoTo(i, "Idle")
  /\ initAttempt' = [initAttempt EXCEPT ![i] = None]
  /\ tracked' = [tracked EXCEPT ![i] = FALSE]
-----------------------------------------------------------------------------
(* POST .../payments with the key of attempt a: the booking is read.  What a
   request reads of a booking that is not payable leads to no write. *)
InitiateReadBooking(i, a) ==
  /\ initAt[i] = "Idle"
  /\ bookingState \in {"PendingPayment", "PaymentFailed"}
  /\ GoTo(i, "Check")
  /\ initAttempt' = [initAttempt EXCEPT ![i] = a]
  /\ UNCHANGED <<tracked, hookVars, callbackOf, providerVars, tables, runVars>>

(* The endpoint's first look at the attempts and the hold.  A replay of an
   attempt past Created returns it, a live attempt of another key is named in
   the refusal, a hold that is not active refuses: nothing is written. *)
InitiateCheck(i) ==
  LET a == initAttempt[i]
      payable == /\ attemptState[a] \in {"Absent", "Created"} /\ OtherLive(a) = {}
                 /\ holdState = "Active" /\ ~lapsed
  IN
  /\ initAt[i] = "Check"
  /\ \/ payable /\ GoTo(i, "Find") /\ UNCHANGED <<initAttempt, tracked>>
     \/ ~payable /\ Done(i)
  /\ UNCHANGED <<hookVars, callbackOf, providerVars, tables, runVars>>

(* The transaction's reads: the own attempt, tracked, to resume if it is still
   Created; or else the live attempts of the booking. *)
InitiateFind(i) ==
  LET a == initAttempt[i] IN
  /\ initAt[i] = "Find"
  /\ \/ /\ attemptState[a] = "Created"
        /\ GoTo(i, "Gateway")
        /\ tracked' = [tracked EXCEPT ![i] = TRUE]
        /\ UNCHANGED initAttempt
     \/ /\ attemptState[a] = "Absent" /\ OtherLive(a) = {}
        /\ GoTo(i, "Insert")
        /\ UNCHANGED <<initAttempt, tracked>>
     \/ /\ attemptState[a] # "Created"
        /\ attemptState[a] = "Absent" => OtherLive(a) # {}
        /\ Done(i)
  /\ UNCHANGED <<hookVars, callbackOf, providerVars, tables, runVars>>

(* The insert.  Only the unique index on the key can refuse it; the tracker is
   then cleared and the winner's attempt resumed, untracked. *)
InitiateInsert(i) ==
  LET a == initAttempt[i] IN
  /\ initAt[i] = "Insert"
  /\ \/ /\ attemptState[a] = "Absent"
        /\ attemptState' = [attemptState EXCEPT ![a] = "Created"]
        /\ GoTo(i, "Gateway")
        /\ tracked' = [tracked EXCEPT ![i] = TRUE]
        /\ UNCHANGED <<initAttempt>>
     \/ /\ attemptState[a] = "Created"
        /\ GoTo(i, "Gateway")
        /\ UNCHANGED <<attemptState, initAttempt, tracked>>
     \/ /\ attemptState[a] \notin {"Absent", "Created"}
        /\ Done(i)
        /\ UNCHANGED attemptState
  /\ UNCHANGED <<hookVars, callbackOf, providerVars, bookingVars, session,
                 paymentId, settledAt, holdVars, runVars>>

(* CreateCheckoutAsync finds or creates the order of the attempt's receipt ... *)
GatewayAnswers(i) ==
  LET a == initAttempt[i] IN
  /\ initAt[i] = "Gateway"
  /\ order' = [order EXCEPT ![a] = IF @ = "none" THEN "open" ELSE @]
  /\ GoTo(i, IF tracked[i] THEN "Write" ELSE "Read")
  /\ UNCHANGED <<initAttempt, tracked, hookVars, callbackOf, sent, seen, tables, runVars>>

(* ... or is unavailable, though the order may exist. *)
GatewayUnavailable(i) ==
  /\ initAt[i] = "Gateway"
  /\ \/ UNCHANGED order
     \/ /\ order[initAttempt[i]] = "none"
        /\ order' = [order EXCEPT ![initAttempt[i]] = "open"]
  /\ GoTo(i, "FailRead")
  /\ UNCHANGED <<initAttempt, tracked, hookVars, callbackOf, sent, seen, tables, runVars>>

(* RecordInitiationFailureAsync: read without a lock, then write by key *)
FailureRead(i) ==
  /\ initAt[i] = "FailRead"
  /\ GoTo(i, IF attemptState[initAttempt[i]] = "Created" THEN "FailWrite" ELSE "FailProject")
  /\ UNCHANGED <<initAttempt, tracked, hookVars, callbackOf, providerVars, tables, runVars>>

FailureWrite(i) ==
  /\ initAt[i] = "FailWrite"
  /\ attemptState' = [attemptState EXCEPT ![initAttempt[i]] = "Failed"]
  /\ GoTo(i, "FailProject")
  /\ UNCHANGED <<initAttempt, tracked, hookVars, callbackOf, providerVars,
                 bookingVars, session, paymentId, settledAt, holdVars, runVars>>

FailureProject(i) ==
  /\ initAt[i] = "FailProject"
  /\ TryTransition("PaymentFailed")
  /\ Done(i)
  /\ UNCHANGED <<hookVars, callbackOf, providerVars, attemptVars, holdVars, runVars>>

(* With the session in hand: an untracked attempt is read now, a tracked one
   is still what it was when it was loaded. *)
SessionRead(i) ==
  /\ initAt[i] = "Read"
  /\ GoTo(i, IF attemptState[initAttempt[i]] = "Created" THEN "Write" ELSE "Project")
  /\ UNCHANGED <<initAttempt, tracked, hookVars, callbackOf, providerVars, tables, runVars>>

SessionWrite(i) ==
  LET a == initAttempt[i] IN
  /\ initAt[i] = "Write"
  /\ attemptState' = [attemptState EXCEPT ![a] = "ProviderPending"]
  /\ session' = session \cup {a}
  /\ GoTo(i, "Project")
  /\ UNCHANGED <<initAttempt, tracked, hookVars, callbackOf, providerVars,
                 bookingVars, paymentId, settledAt, holdVars, runVars>>

(* TryTransitionAsync(PaymentInProgress); its answer is not looked at. *)
SessionProject(i) ==
  /\ initAt[i] = "Project"
  /\ TryTransition("PaymentInProgress")
  /\ Done(i)
  /\ UNCHANGED <<hookVars, callbackOf, providerVars, attemptVars, holdVars, runVars>>

CrashInitiation(i) ==
  /\ MayCrash /\ initAt[i] # "Idle"
  /\ Done(i)
  /\ UNCHANGED <<hookVars, callbackOf, providerVars, tables, runVars>>
-----------------------------------------------------------------------------
(* The customer pays the order at the provider.  An attempt's session is shown
   by the initiation's response, a replay of its key and GET, none of which
   writes, so from the moment it is saved it may be paid. *)
Payable(a) == a \in session /\ order[a] = "open"

ProviderAuthorizes(a) ==
  /\ Payable(a)
  /\ sent' = sent \cup Events(a, {"payment.authorized"})
  /\ UNCHANGED <<initVars, hookVars, callbackOf, order, seen, tables, runVars>>

ProviderCaptures(a) ==
  /\ Payable(a)
  /\ order' = [order EXCEPT ![a] = IF lapsed THEN "late" ELSE "inTime"]
  /\ sent' = sent \cup Events(a, {"payment.authorized", "payment.captured", "order.paid"})
  /\ UNCHANGED <<initVars, hookVars, callbackOf, seen, tables, runVars>>

ProviderDeclines(a) ==
  /\ Payable(a)
  /\ sent' = sent \cup Events(a, {"payment.failed"})
  /\ UNCHANGED <<initVars, hookVars, callbackOf, order, seen, tables, runVars>>

(* POST .../callback.  The signature proves a payment the provider took. *)
Taken(a) ==
  \/ order[a] \in Settlement
  \/ [attempt |-> a, kind |-> "payment.authorized"] \in sent

CallbackRead(c, a) ==
  /\ callbackOf[c] = None
  /\ a \in session
  /\ Taken(a)
  /\ paymentId[a] \in {None, "taken"}
  /\ callbackOf' = [callbackOf EXCEPT ![c] = a]
  /\ UNCHANGED <<initVars, hookVars, providerVars, tables, runVars>>

(* Only ProviderPaymentId is written, and only if the copy had another. *)
CallbackWrite(c) ==
  /\ callbackOf[c] # None
  /\ paymentId' = [paymentId EXCEPT ![callbackOf[c]] = "taken"]
  /\ callbackOf' = [callbackOf EXCEPT ![c] = None]
  /\ UNCHANGED <<initVars, hookVars, providerVars, bookingVars, attemptState,
                 session, settledAt, holdVars, runVars>>

(* The verdict on event e, with the attempt row locked *)
Outcome(e) ==
  IF paymentId[e.attempt] \notin {None, PaymentOf(e.kind)}
  THEN "Rejected"
  ELSE EvaluateProviderEvent(attemptState[e.attempt], Requested(e.kind))

(* Mutant of ApplyEvent: every event settles the attempt. *)
ApplySettling(e) ==
  LET a == e.attempt IN
  /\ attemptState' = [attemptState EXCEPT ![a] = Requested(e.kind)]
  /\ paymentId' = [paymentId EXCEPT ![a] = IF @ = None THEN PaymentOf(e.kind) ELSE @]
  /\ settledAt' = [settledAt EXCEPT ![a] = order[a]]
  /\ UNCHANGED session

(* Mutant of MomentSettled: the moment the event is received. *)
MomentReceived(a) == IF lapsed THEN "late" ELSE "inTime"

(* An attempt is settled as of the moment the provider reports. *)
MomentSettled(a) == order[a]

ApplyEvent(e) ==
  LET a == e.attempt IN
  /\ attemptState' = [attemptState EXCEPT ![a] = Requested(e.kind)]
  /\ paymentId' = [paymentId EXCEPT ![a] = IF @ = None THEN PaymentOf(e.kind) ELSE @]
  /\ settledAt' = [settledAt EXCEPT ![a] =
                     IF Requested(e.kind) = "Succeeded" THEN MomentSettled(a) ELSE @]
  /\ UNCHANGED session

(* POST /webhooks/razorpay, the payments transaction.  A delivery of an event
   already recorded changes nothing, so only first deliveries are steps. *)
WebhookReceive(w, e) ==
  /\ hookAt[w] = "Idle" /\ runAt[w] = "Idle"
  /\ e \in sent \ seen
  /\ seen' = seen \cup {e}
  /\ IF Outcome(e) = "Applied"
     THEN /\ ApplyEvent(e)
          /\ hookAt' = [hookAt EXCEPT ![w] = "Project"]
          /\ hookEvent' = [hookEvent EXCEPT ![w] = e]
     ELSE UNCHANGED <<attemptVars, hookVars>>
  /\ UNCHANGED <<initVars, callbackOf, order, sent, bookingVars, holdVars, runVars>>

Projection(e) ==
  CASE Requested(e.kind) = "Succeeded" -> "PaymentSucceeded"
    [] Requested(e.kind) = "Failed" -> "PaymentFailed"
    [] OTHER -> "PaymentInProgress"

HookDone(w) ==
  /\ hookAt' = [hookAt EXCEPT ![w] = "Idle"]
  /\ hookEvent' = [hookEvent EXCEPT ![w] = None]

(* The booking follows in a transaction of its own, if the move is allowed;
   a settled payment is then confirmed in the same request, which now tracks
   the booking. *)
WebhookProject(w) ==
  LET e == hookEvent[w]
      next == Projection(e)
  IN
  /\ hookAt[w] = "Project"
  /\ TryTransition(next)
  /\ IF TransitionAllowed(next) /\ next = "PaymentSucceeded"
     THEN Call(w, e.attempt, [state |-> next, settled |-> settled])
     ELSE UNCHANGED runVars
  /\ HookDone(w)
  /\ UNCHANGED <<initVars, callbackOf, providerVars, attemptVars, holdVars>>

CrashWebhook(w) ==
  /\ MayCrash /\ hookAt[w] # "Idle"
  /\ HookDone(w)
  /\ UNCHANGED <<initVars, callbackOf, providerVars, tables, runVars>>

InitiationStep(i) ==
  \/ InitiateCheck(i) \/ InitiateFind(i) \/ InitiateInsert(i)
  \/ GatewayAnswers(i) \/ GatewayUnavailable(i)
  \/ FailureRead(i) \/ FailureWrite(i) \/ FailureProject(i)
  \/ SessionRead(i) \/ SessionWrite(i) \/ SessionProject(i)

PaymentNext ==
  \/ \E i \in Initiators, a \in Attempts : InitiateReadBooking(i, a)
  \/ \E i \in Initiators : InitiationStep(i) \/ CrashInitiation(i)
  \/ \E a \in Attempts : ProviderAuthorizes(a) \/ ProviderCaptures(a) \/ ProviderDeclines(a)
  \/ \E c \in Callbacks, a \in Attempts : CallbackRead(c, a)
  \/ \E c \in Callbacks : CallbackWrite(c)
  \/ \E w \in Webhooks, e \in sent : WebhookReceive(w, e)
  \/ \E w \in Webhooks : WebhookProject(w) \/ CrashWebhook(w)
=============================================================================
