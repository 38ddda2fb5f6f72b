---------------------------- MODULE CheckoutProofs ----------------------------
(***************************************************************************)
(* Proofs about the checkout of a booking for any number of attempts,      *)
(* initiations, callbacks, webhooks, retries, cancellations and refund     *)
(* executions, overlapping and dying as they may.                          *)
(***************************************************************************)
EXTENDS CheckoutSaga, FiniteSetTheorems, TLAPS

Settles(e) == Requested(e.kind) = "Succeeded"

(* The payments schema follows the provider: what it says was settled was
   captured at that moment, and events of a capture are about a captured order. *)
MoneyTrue ==
  /\ \A a \in Attempts : settledAt[a] # None =>
       settledAt[a] = order[a] /\ paymentId[a] = "taken"
  /\ \A e \in sent : Settles(e) => order[e.attempt] \in Settlement

(* A webhook between its two transactions carries the event it applied. *)
HookTrue(w) ==
  hookAt[w] = "Project" =>
    /\ hookEvent[w] \in Event
    /\ Settles(hookEvent[w]) => settledAt[hookEvent[w].attempt] # None

(* A run is about a settled attempt; the booking names a settled attempt since
   its first transaction, and a commitment it found exists. *)
RunTrue(r) ==
  /\ runAt[r] # "Idle" => settledAt[runAttempt[r]] # None
  /\ copy[r] # None /\ copy[r].settled # None => settled # None
  /\ runAt[r] \in {"Commit", "Finish"} => settled # None
  /\ found[r] # None => commitment # None

(* What the booking, and an approver's copy of it, says is backed by the other
   two schemas. *)
BookingTrue ==
  /\ settled # None => settledAt[settled] # None
  /\ commitment # None => settledAt[commitment] = "inTime"
  /\ bookingState \in PaidFor => \E a \in Attempts : settledAt[a] # None
  /\ bookingState = "ConfirmationException" => settled # None
  /\ bookingState \in {"Confirmed", "Cancelled"} => commitment # None
  /\ \A p \in Approvers :
       loaded[p] # None /\ loaded[p].state = "Confirmed" => commitment # None

InitiationsNamed == \A i \in Initiators : initAt[i] # "Idle" => initAttempt[i] \in Attempts

CheckoutInv ==
  /\ TypeOK /\ InitiationsNamed
  /\ MoneyTrue /\ BookingTrue
  /\ \A w \in Webhooks : HookTrue(w)
  /\ \A r \in Runs : RunTrue(r)
  /\ OneExecutionPerRefund
-----------------------------------------------------------------------------
LEMMA CheckoutInit == Init => CheckoutInv
<1> SUFFICES ASSUME Init PROVE CheckoutInv
  OBVIOUS
<1> USE DEF Init, TablesInit, RunsInit, PayInit, CancelInit
<1>1. TablesTypeOK
  BY DEF TablesTypeOK, BookingState
<1>2. RunsTypeOK
  BY DEF RunsTypeOK
<1>3. PayTypeOK
  BY DEF PayTypeOK, InitStep
<1>4. CancelTypeOK
  BY DEF CancelTypeOK
<1>5. InitiationsNamed /\ MoneyTrue /\ OneExecutionPerRefund
  BY DEF InitiationsNamed, MoneyTrue, OneExecutionPerRefund
<1>6. BookingTrue
  BY DEF BookingTrue, PaidFor
<1>7. ASSUME NEW w \in Webhooks PROVE HookTrue(w)
  BY DEF HookTrue
<1>8. ASSUME NEW r \in Runs PROVE RunTrue(r)
  BY DEF RunTrue
<1> QED
  BY <1>1, <1>2, <1>3, <1>4, <1>5, <1>6, <1>7, <1>8 DEF CheckoutInv, TypeOK
-----------------------------------------------------------------------------
(* What may happen to the hold touches nothing the invariant is about. *)
LEMMA HoldKeeps ==
  ASSUME CheckoutInv, HoldStep
  PROVE  CheckoutInv'
<1>1. /\ UNCHANGED <<bookingVars, attemptVars, commitment, runVars, payVars, cancelVars>>
      /\ holdState' \in {"Active", "Released", "Expired", "Committed"}
      /\ lapsed' \in BOOLEAN /\ staleGet' \in BOOLEAN
  BY DEF CheckoutInv, TypeOK, TablesTypeOK, HoldStep, HoldNext, HoldLapses, HoldEnds,
         HoldReadByGet, HoldOverwrittenByGet
<1>2. TablesTypeOK' /\ RunsTypeOK' /\ PayTypeOK' /\ CancelTypeOK'
  BY <1>1 DEF CheckoutInv, TypeOK, TablesTypeOK, RunsTypeOK, PayTypeOK, CancelTypeOK,
     bookingVars, attemptVars, runVars, payVars, initVars, hookVars, providerVars,
     cancelVars, requestVars, refundVars, applyVars, SettledAttempts
<1>3. InitiationsNamed' /\ MoneyTrue' /\ OneExecutionPerRefund'
  BY <1>1 DEF CheckoutInv, InitiationsNamed, MoneyTrue, OneExecutionPerRefund,
     attemptVars, payVars, initVars, providerVars, cancelVars, refundVars
<1>4. BookingTrue'
  BY <1>1 DEF CheckoutInv, BookingTrue, bookingVars, attemptVars, cancelVars, applyVars
<1>5. ASSUME NEW w \in Webhooks PROVE HookTrue(w)'
  BY <1>1 DEF CheckoutInv, HookTrue, attemptVars, payVars, hookVars
<1>6. ASSUME NEW r \in Runs PROVE RunTrue(r)'
  BY <1>1 DEF CheckoutInv, RunTrue, bookingVars, attemptVars, runVars
<1> QED
  BY <1>2, <1>3, <1>4, <1>5, <1>6 DEF CheckoutInv, TypeOK
-----------------------------------------------------------------------------
(* What a step has to keep when it is neither the payments schema's nor an
   initiation's. *)
LEMMA PaymentsStay ==
  ASSUME CheckoutInv, UNCHANGED <<attemptVars, payVars>>
  PROVE  /\ PayTypeOK' /\ InitiationsNamed' /\ MoneyTrue'
         /\ \A w \in Webhooks : HookTrue(w)'
<1>1. PayTypeOK' /\ InitiationsNamed' /\ MoneyTrue'
  BY DEF CheckoutInv, TypeOK, PayTypeOK, InitiationsNamed, MoneyTrue,
     attemptVars, payVars, initVars, hookVars, providerVars
<1>2. ASSUME NEW w \in Webhooks PROVE HookTrue(w)'
  BY DEF CheckoutInv, HookTrue, attemptVars, payVars, hookVars
<1> QED
  BY <1>1, <1>2

LEMMA CancellationsStay ==
  ASSUME CheckoutInv, UNCHANGED cancelVars
  PROVE  CancelTypeOK' /\ OneExecutionPerRefund' /\ UNCHANGED <<loaded, cancelledBy, releasedBy>>
BY DEF CheckoutInv, TypeOK, CancelTypeOK, OneExecutionPerRefund, cancelVars, requestVars,
   refundVars, applyVars

(* A run of ProcessAsync that goes on, or ends, leaves the others as they are:
   the booking's settled attempt and the commitment are never taken back. *)
LEMMA OtherRuns ==
  ASSUME CheckoutInv, NEW r \in Runs, UNCHANGED attemptVars,
         settled # None => settled' # None,
         commitment # None => commitment' # None,
         \A q \in Runs \ {r} :
           /\ runAt'[q] = runAt[q] /\ runAttempt'[q] = runAttempt[q]
           /\ copy'[q] = copy[q] /\ found'[q] = found[q]
  PROVE  \A q \in Runs \ {r} : RunTrue(q)'
BY DEF CheckoutInv, RunTrue, attemptVars

LEMMA ReturnTyped ==
  ASSUME RunsTypeOK, NEW r \in Runs, Return(r)
  PROVE  /\ RunsTypeOK' /\ RunTrue(r)'
         /\ \A q \in Runs \ {r} :
              /\ runAt'[q] = runAt[q] /\ runAttempt'[q] = runAttempt[q]
              /\ copy'[q] = copy[q] /\ found'[q] = found[q]
BY DEF RunsTypeOK, Return, RunTrue

LEMMA SeenRun ==
  ASSUME CheckoutInv, NEW r \in Runs
  PROVE  /\ Seen(r).state \in BookingState /\ Seen(r).settled \in Attempts \cup {None}
         /\ Seen(r).settled # None => settled # None
BY DEF CheckoutInv, TypeOK, TablesTypeOK, RunsTypeOK, BookingCopy, Seen, RunTrue

LEMMA RetryKeeps ==
  ASSUME CheckoutInv, NEW r \in Retries, RetryConfirmation(r),
         UNCHANGED <<payVars, cancelVars>>
  PROVE  CheckoutInv'
<1>1. /\ r \in Runs /\ settled \in Attempts /\ settledAt[settled] # None
      /\ Call(r, settled, None) /\ UNCHANGED <<bookingVars, attemptVars, holdVars>>
  BY DEF RetryConfirmation, Runs, CheckoutInv, BookingTrue, TypeOK, TablesTypeOK, tables
<1>2. TablesTypeOK' /\ BookingTrue'
  BY <1>1, CancellationsStay DEF CheckoutInv, TypeOK, TablesTypeOK, BookingTrue,
     bookingVars, attemptVars, holdVars
<1>3. RunsTypeOK'
  BY <1>1 DEF CheckoutInv, TypeOK, RunsTypeOK, Call
<1>4. RunTrue(r)'
  BY <1>1 DEF CheckoutInv, TypeOK, RunsTypeOK, RunTrue, Call, bookingVars, attemptVars, holdVars
<1>5. \A q \in Runs \ {r} : RunTrue(q)'
  BY <1>1, OtherRuns DEF CheckoutInv, TypeOK, RunsTypeOK, Call, bookingVars, holdVars
<1> QED
  BY <1>1, <1>2, <1>3, <1>4, <1>5, PaymentsStay, CancellationsStay DEF CheckoutInv, TypeOK

(* The run returns: it changed at most the booking's state. *)
LEMMA ReturnKeeps ==
  ASSUME CheckoutInv, NEW r \in Runs, Return(r),
         UNCHANGED <<settled, attemptVars, holdVars, payVars, cancelVars>>,
         bookingState' \in BookingState,
         bookingState' # bookingState =>
           \/ bookingState' = "ConfirmationException" /\ settled # None
           \/ bookingState' = "Confirmed" /\ settled # None /\ commitment # None
  PROVE  CheckoutInv'
<1>1. TablesTypeOK'
  BY DEF CheckoutInv, TypeOK, TablesTypeOK, attemptVars, holdVars
<1>2. BookingTrue'
  <2>1. bookingState' # bookingState => \E a \in Attempts : settledAt[a] # None
    BY DEF CheckoutInv, TypeOK, TablesTypeOK, BookingTrue
  <2> QED
    BY <2>1, CancellationsStay DEF CheckoutInv, BookingTrue, attemptVars, holdVars
<1>3. /\ RunsTypeOK' /\ RunTrue(r)'
      /\ \A q \in Runs \ {r} : RunTrue(q)'
  BY ReturnTyped, OtherRuns DEF CheckoutInv, TypeOK, holdVars
<1> QED
  BY <1>1, <1>2, <1>3, PaymentsStay, CancellationsStay DEF CheckoutInv, TypeOK

LEMMA BeginKeeps ==
  ASSUME CheckoutInv, NEW r \in Runs, BeginConfirmation(r), UNCHANGED <<payVars, cancelVars>>
  PROVE  CheckoutInv'
<1> DEFINE a == runAttempt[r]
<1>1. /\ a \in Attempts /\ settledAt[a] # None
      /\ settled' \in Attempts /\ settledAt[settled'] # None
  <2>1. a \in Attempts /\ settledAt[a] # None
    BY DEF BeginConfirmation, CheckoutInv, TypeOK, RunsTypeOK, RunTrue
  <2>2. CASE Seen(r).settled = a
    <3>1. settled' = settled
      BY <2>2 DEF BeginConfirmation, Save
    <3>2. settled # None
      BY <2>1, <2>2, SeenRun, NoneAssumption
    <3> QED
      BY <2>1, <3>1, <3>2 DEF CheckoutInv, TypeOK, TablesTypeOK, BookingTrue
  <2>3. CASE Seen(r).settled # a
    BY <2>1, <2>3 DEF BeginConfirmation, Save
  <2> QED
    BY <2>1, <2>2, <2>3
<1>2. /\ UNCHANGED <<runAttempt, found, attemptVars, holdVars>>
      /\ runAt' = [runAt EXCEPT ![r] = "Commit"]
      /\ copy' = [copy EXCEPT ![r] = [state |-> "Confirming", settled |-> a]]
      /\ bookingState' \in {bookingState, "Confirming"}
  BY DEF BeginConfirmation, Save
<1>3. TablesTypeOK' /\ BookingTrue'
  BY <1>1, <1>2, CancellationsStay, NoneAssumption DEF CheckoutInv, TypeOK, TablesTypeOK,
     BookingTrue, BookingState, attemptVars, holdVars
<1>4. RunsTypeOK'
  BY <1>1, <1>2 DEF CheckoutInv, TypeOK, RunsTypeOK, BookingCopy, BookingState
<1>5. RunTrue(r)'
  BY <1>1, <1>2, NoneAssumption DEF CheckoutInv, TypeOK, RunsTypeOK, RunTrue,
     attemptVars, holdVars
<1>6. \A q \in Runs \ {r} : RunTrue(q)'
  BY <1>1, <1>2, OtherRuns, NoneAssumption DEF CheckoutInv, TypeOK, RunsTypeOK, holdVars
<1> QED
  BY <1>2, <1>3, <1>4, <1>5, <1>6, PaymentsStay, CancellationsStay DEF CheckoutInv, TypeOK

LEMMA CommitKeeps ==
  ASSUME CheckoutInv, NEW r \in Runs, CommitSeat(r), UNCHANGED <<payVars, cancelVars>>
  PROVE  CheckoutInv'
<1> DEFINE a == runAttempt[r]
<1>1. /\ a \in Attempts /\ UNCHANGED <<runAttempt, copy, bookingVars, attemptVars>>
      /\ runAt' = [runAt EXCEPT ![r] = "Finish"]
      /\ found' = [found EXCEPT ![r] = commitment']
      /\ holdState' \in {holdState, "Committed"} /\ UNCHANGED <<lapsed, staleGet>>
  BY DEF CommitSeat, CheckoutInv, TypeOK, RunsTypeOK
<1>2. /\ commitment' \in Attempts \cup {None}
      /\ commitment # None => commitment' = commitment
      /\ commitment' # None => settledAt[commitment'] = "inTime"
  BY <1>1 DEF CommitSeat, SeatFree, CheckoutInv, TypeOK, TablesTypeOK, BookingTrue
<1>3. TablesTypeOK' /\ BookingTrue'
  BY <1>1, <1>2, CancellationsStay DEF CheckoutInv, TypeOK, TablesTypeOK,
     BookingTrue, bookingVars, attemptVars
<1>4. RunsTypeOK'
  BY <1>1, <1>2 DEF CheckoutInv, TypeOK, RunsTypeOK
<1>5. RunTrue(r)'
  BY <1>1, <1>2 DEF CheckoutInv, TypeOK, RunsTypeOK, RunTrue, CommitSeat, bookingVars, attemptVars
<1>6. \A q \in Runs \ {r} : RunTrue(q)'
  BY <1>1, <1>2, OtherRuns DEF CheckoutInv, TypeOK, RunsTypeOK, bookingVars
<1> QED
  BY <1>1, <1>3, <1>4, <1>5, <1>6, PaymentsStay, CancellationsStay DEF CheckoutInv, TypeOK

LEMMA ConfirmationKeeps ==
  ASSUME CheckoutInv, ConfirmationStep
  PROVE  CheckoutInv'
<1>1. UNCHANGED <<payVars, cancelVars>>
  BY DEF ConfirmationStep
<1>2. CASE \E r \in Retries : RetryConfirmation(r)
  BY <1>1, <1>2, RetryKeeps
<1>3. ASSUME NEW r \in Runs, RunStep(r) \/ CrashRun(r) PROVE CheckoutInv'
  <2>1. CASE ReturnAtOnce(r) \/ CrashRun(r)
    BY <1>1, <2>1, ReturnKeeps DEF ReturnAtOnce, CrashRun, tables, bookingVars,
       CheckoutInv, TypeOK, TablesTypeOK
  <2>2. CASE RefuseForeignAttempt(r)
    BY <1>1, <2>2, ReturnKeeps, SeenRun DEF RefuseForeignAttempt, Save, BookingState,
       CheckoutInv, TypeOK, TablesTypeOK
  <2>3. CASE FinishConfirmation(r)
    <3>1. runAttempt[r] \in Attempts /\ settled # None
      BY <2>3 DEF FinishConfirmation, CheckoutInv, TypeOK, RunsTypeOK, RunTrue
    <3>2. found[r] = runAttempt[r] => commitment # None
      BY <3>1, NoneAssumption DEF CheckoutInv, RunTrue
    <3> QED
      BY <1>1, <2>3, <3>1, <3>2, ReturnKeeps DEF FinishConfirmation, BookingState
  <2> QED
    BY <1>1, <1>3, <2>1, <2>2, <2>3, BeginKeeps, CommitKeeps DEF RunStep
<1> QED
  BY <1>2, <1>3 DEF ConfirmationStep, ConfirmationNext
-----------------------------------------------------------------------------
LEMMA EventMeaning ==
  ASSUME NEW e \in Event
  PROVE  /\ e.attempt \in Attempts /\ e.kind \in EventKind
         /\ Settles(e) <=> e.kind \in {"payment.captured", "order.paid"}
         /\ Requested(e.kind) \in PaymentAttemptState
         /\ PaymentOf(e.kind) \in ProviderPayment
         /\ Settles(e) => PaymentOf(e.kind) = "taken"
<1>1. e.attempt \in Attempts /\ e.kind \in EventKind
  BY DEF Event
<1>2. CASE e.kind = "payment.authorized"
  BY <1>1, <1>2 DEF Requested, PaymentOf, Settles, PaymentAttemptState, ProviderPayment
<1>3. CASE e.kind \in {"payment.captured", "order.paid"}
  BY <1>1, <1>3 DEF Requested, PaymentOf, Settles, PaymentAttemptState, ProviderPayment
<1>4. CASE e.kind = "payment.failed"
  BY <1>1, <1>4 DEF Requested, PaymentOf, Settles, PaymentAttemptState, ProviderPayment
<1> QED
  BY <1>1, <1>2, <1>3, <1>4 DEF EventKind

(* A payment step that settles nothing: captured orders and the ids of taken
   payments stay, and the booking is moved at most to a state that is not paid. *)
LEMMA QuietKeeps ==
  ASSUME CheckoutInv, PayTypeOK', InitiationsNamed',
         UNCHANGED <<settledAt, settled, holdVars, runVars, hookVars, cancelVars>>,
         attemptState' \in [Attempts -> PaymentAttemptState \cup {"Absent"}],
         session' \subseteq Attempts,
         paymentId' \in [Attempts -> ProviderPayment \cup {None}],
         bookingState' \in {bookingState, "PaymentInProgress", "PaymentFailed"},
         \A a \in Attempts : paymentId[a] = "taken" => paymentId'[a] = "taken",
         \A a \in Attempts : order[a] \in Settlement => order'[a] = order[a],
         \A e \in sent' : Settles(e) => order'[e.attempt] \in Settlement
  PROVE  CheckoutInv'
<1>1. TablesTypeOK'
  BY DEF CheckoutInv, TypeOK, TablesTypeOK, holdVars, BookingState
<1>2. RunsTypeOK'
  BY DEF CheckoutInv, TypeOK, RunsTypeOK, runVars
<1>3. MoneyTrue'
  BY NoneAssumption DEF CheckoutInv, TypeOK, TablesTypeOK, MoneyTrue
<1>4. BookingTrue'
  BY CancellationsStay DEF CheckoutInv, TypeOK, TablesTypeOK, BookingTrue, holdVars, PaidFor
<1>5. ASSUME NEW w \in Webhooks PROVE HookTrue(w)'
  BY DEF CheckoutInv, HookTrue, hookVars
<1>6. ASSUME NEW r \in Runs PROVE RunTrue(r)'
  BY DEF CheckoutInv, RunTrue, runVars, holdVars
<1> QED
  BY <1>1, <1>2, <1>3, <1>4, <1>5, <1>6, CancellationsStay DEF CheckoutInv, TypeOK

(* What every step of an initiation does. *)
InitiationEffect ==
  /\ UNCHANGED <<paymentId, settledAt, settled, holdVars, runVars, hookVars, callbackOf,
                 sent, seen>>
  /\ attemptState' \in [Attempts -> PaymentAttemptState \cup {"Absent"}]
  /\ session' \subseteq Attempts
  /\ bookingState' \in {bookingState, "PaymentInProgress", "PaymentFailed"}
  /\ order' \in [Attempts -> {"none", "open"} \cup Settlement]
  /\ \A c \in Attempts : order'[c] = order[c] \/ order[c] = "none"
  /\ initAt' \in [Initiators -> InitStep]
  /\ initAttempt' \in [Initiators -> Attempts \cup {None}]
  /\ tracked' \in [Initiators -> BOOLEAN]
  /\ InitiationsNamed'

LEMMA EffectKeeps ==
  ASSUME CheckoutInv, UNCHANGED cancelVars, InitiationEffect
  PROVE  CheckoutInv'
<1>2. PayTypeOK'
  BY DEF CheckoutInv, TypeOK, PayTypeOK, hookVars, InitiationEffect
<1>4. \A c \in Attempts : order[c] \in Settlement => order'[c] = order[c]
  BY DEF InitiationEffect, Settlement
<1>5. \A e \in sent' : Settles(e) => order'[e.attempt] \in Settlement
  BY <1>4 DEF CheckoutInv, TypeOK, PayTypeOK, MoneyTrue, Event, InitiationEffect
<1> QED
  BY <1>2, <1>4, <1>5, QuietKeeps DEF CheckoutInv, TypeOK, TablesTypeOK, InitiationEffect

LEMMA TransitionQuiet ==
  ASSUME CheckoutInv, NEW next \in {"PaymentInProgress", "PaymentFailed"}, TryTransition(next)
  PROVE  settled' = settled /\ bookingState' \in {bookingState, "PaymentInProgress", "PaymentFailed"}
BY DEF TryTransition

LEMMA InitiationMoves ==
  ASSUME CheckoutInv, NEW i \in Initiators,
         \/ \E a \in Attempts : InitiateReadBooking(i, a)
         \/ InitiationStep(i) \/ CrashInitiation(i)
  PROVE  InitiationEffect
<1> DEFINE a == initAttempt[i]
<1>1. /\ attemptState \in [Attempts -> PaymentAttemptState \cup {"Absent"}]
      /\ session \subseteq Attempts
      /\ order \in [Attempts -> {"none", "open"} \cup Settlement]
      /\ initAt \in [Initiators -> InitStep]
      /\ initAttempt \in [Initiators -> Attempts \cup {None}]
      /\ tracked \in [Initiators -> BOOLEAN]
      /\ InitiationsNamed
      /\ initAt[i] # "Idle" => a \in Attempts
  BY DEF CheckoutInv, TypeOK, TablesTypeOK, PayTypeOK, InitiationsNamed
<1> USE DEF GoTo, Done, InitStep, tables, bookingVars, attemptVars, providerVars,
            InitiationEffect, InitiationsNamed
<1>2. CASE \E b \in Attempts : InitiateReadBooking(i, b)
  BY <1>1, <1>2 DEF InitiateReadBooking
<1>3. CASE InitiateCheck(i)
  BY <1>1, <1>3 DEF InitiateCheck
<1>4. CASE InitiateFind(i)
  BY <1>1, <1>4 DEF InitiateFind
<1>5. CASE InitiateInsert(i)
  BY <1>1, <1>5 DEF InitiateInsert, PaymentAttemptState
<1>6. CASE GatewayAnswers(i)
  BY <1>1, <1>6 DEF GatewayAnswers
<1>7. CASE GatewayUnavailable(i)
  BY <1>1, <1>7 DEF GatewayUnavailable
<1>8. CASE FailureRead(i)
  BY <1>1, <1>8 DEF FailureRead
<1>9. CASE FailureWrite(i)
  BY <1>1, <1>9 DEF FailureWrite, PaymentAttemptState
<1>10. CASE FailureProject(i)
  BY <1>1, <1>10, TransitionQuiet DEF FailureProject
<1>11. CASE SessionRead(i)
  BY <1>1, <1>11 DEF SessionRead
<1>12. CASE SessionWrite(i)
  BY <1>1, <1>12 DEF SessionWrite, PaymentAttemptState
<1>13. CASE SessionProject(i)
  BY <1>1, <1>13, TransitionQuiet DEF SessionProject
<1>14. CASE CrashInitiation(i)
  BY <1>1, <1>14 DEF CrashInitiation
<1> QED
  BY <1>2, <1>3, <1>4, <1>5, <1>6, <1>7, <1>8, <1>9, <1>10, <1>11, <1>12, <1>13, <1>14
     DEF InitiationStep

LEMMA ProviderKeeps ==
  ASSUME CheckoutInv, UNCHANGED cancelVars, NEW a \in Attempts,
         ProviderAuthorizes(a) \/ ProviderCaptures(a) \/ ProviderDeclines(a)
  PROVE  CheckoutInv'
<1>1. /\ UNCHANGED <<initVars, hookVars, callbackOf, seen, tables, runVars>>
      /\ order[a] = "open" /\ order \in [Attempts -> {"none", "open"} \cup Settlement]
      /\ sent \subseteq Event /\ seen \subseteq sent
  BY DEF ProviderAuthorizes, ProviderCaptures, ProviderDeclines, Payable, CheckoutInv, TypeOK,
     PayTypeOK
<1>2. /\ order' \in [Attempts -> {"none", "open"} \cup Settlement]
      /\ \A b \in Attempts : order[b] \in Settlement => order'[b] = order[b]
  BY <1>1 DEF ProviderAuthorizes, ProviderCaptures, ProviderDeclines, Settlement
<1>3. sent' \subseteq Event /\ sent \subseteq sent'
  BY <1>1 DEF ProviderAuthorizes, ProviderCaptures, ProviderDeclines, Events, Event, EventKind
<1>4. \A e \in sent' : Settles(e) => order'[e.attempt] \in Settlement
  <2> SUFFICES ASSUME NEW e \in sent', Settles(e) PROVE order'[e.attempt] \in Settlement
    OBVIOUS
  <2>1. CASE e \in sent
    BY <1>1, <1>2, <2>1, EventMeaning DEF CheckoutInv, MoneyTrue
  <2>2. CASE e \notin sent
    <3>1. e.kind \in {"payment.captured", "order.paid"}
      BY <1>3, EventMeaning
    <3>2. ProviderCaptures(a) /\ e.attempt = a
      BY <2>2, <3>1 DEF ProviderAuthorizes, ProviderCaptures, ProviderDeclines, Events
    <3> QED
      BY <1>1, <3>2 DEF ProviderCaptures, Settlement
  <2> QED
    BY <2>1, <2>2
<1>5. PayTypeOK' /\ InitiationsNamed'
  BY <1>1, <1>2, <1>3 DEF CheckoutInv, TypeOK, PayTypeOK, InitiationsNamed, initVars, hookVars
<1> QED
  BY <1>1, <1>2, <1>4, <1>5, QuietKeeps DEF tables, bookingVars, attemptVars, CheckoutInv,
     TypeOK, TablesTypeOK

LEMMA CallbackKeeps ==
  ASSUME CheckoutInv, UNCHANGED cancelVars, NEW c \in Callbacks,
         (\E a \in Attempts : CallbackRead(c, a)) \/ CallbackWrite(c)
  PROVE  CheckoutInv'
<1>1. /\ UNCHANGED <<initVars, hookVars, providerVars, bookingVars, attemptState, session,
                     settledAt, holdVars, runVars>>
      /\ callbackOf' \in [Callbacks -> Attempts \cup {None}]
  BY DEF CallbackRead, CallbackWrite, tables, attemptVars, CheckoutInv, TypeOK, PayTypeOK
<1>2. /\ paymentId' \in [Attempts -> ProviderPayment \cup {None}]
      /\ \A a \in Attempts : paymentId[a] = "taken" => paymentId'[a] = "taken"
  BY DEF CallbackRead, CallbackWrite, tables, attemptVars, CheckoutInv, TypeOK, PayTypeOK,
     TablesTypeOK, ProviderPayment
<1>3. PayTypeOK' /\ InitiationsNamed'
  BY <1>1 DEF CheckoutInv, TypeOK, PayTypeOK, InitiationsNamed, initVars, hookVars, providerVars
<1>4. \A e \in sent' : Settles(e) => order'[e.attempt] \in Settlement
  BY <1>1 DEF CheckoutInv, MoneyTrue, providerVars
<1> QED
  BY <1>1, <1>2, <1>3, <1>4, QuietKeeps DEF bookingVars, providerVars, CheckoutInv, TypeOK,
     TablesTypeOK

(* The payments transaction of a webhook.  An event of a capture settles its
   attempt as of the capture; no other event touches the settlement, and none
   replaces the id of the payment that was taken. *)
LEMMA ReceiveKeeps ==
  ASSUME CheckoutInv, UNCHANGED cancelVars, NEW w \in Webhooks, NEW e \in sent,
         WebhookReceive(w, e), Outcome(e) = "Applied"
  PROVE  CheckoutInv'
<1> DEFINE a == e.attempt
<1>1. /\ UNCHANGED <<initVars, callbackOf, order, sent, bookingVars, holdVars, runVars>>
      /\ seen' = seen \cup {e} /\ ApplyEvent(e)
      /\ hookAt' = [hookAt EXCEPT ![w] = "Project"]
      /\ hookEvent' = [hookEvent EXCEPT ![w] = e]
      /\ e \in Event /\ a \in Attempts
      /\ paymentId[a] \in {None, PaymentOf(e.kind)}
  BY EventMeaning DEF WebhookReceive, Outcome, CheckoutInv, TypeOK, PayTypeOK
<1>2. /\ Settles(e) => order[a] \in Settlement
      /\ settledAt' = [settledAt EXCEPT ![a] = IF Settles(e) THEN order[a] ELSE @]
  BY <1>1 DEF CheckoutInv, MoneyTrue, ApplyEvent, MomentSettled, Settles
<1>3. TablesTypeOK'
  BY <1>1, <1>2, EventMeaning DEF CheckoutInv, TypeOK, TablesTypeOK, ApplyEvent, bookingVars,
     holdVars
<1>4. PayTypeOK' /\ InitiationsNamed'
  BY <1>1 DEF CheckoutInv, TypeOK, PayTypeOK, InitiationsNamed, initVars
<1>5. MoneyTrue'
  <2> SUFFICES ASSUME NEW b \in Attempts, settledAt'[b] # None
               PROVE  settledAt'[b] = order[b] /\ paymentId'[b] = "taken"
    BY <1>1 DEF CheckoutInv, MoneyTrue
  <2>1. CASE settledAt[b] # None
    <3>1. settledAt[b] = order[b] /\ paymentId[b] = "taken" /\ "taken" # None
      BY <2>1, NoneAssumption DEF CheckoutInv, MoneyTrue, ProviderPayment
    <3>2. settledAt'[b] = order[b]
      BY <1>2, <3>1 DEF CheckoutInv, TypeOK, TablesTypeOK
    <3>3. paymentId'[b] = "taken"
      BY <1>1, <3>1 DEF ApplyEvent, CheckoutInv, TypeOK, TablesTypeOK
    <3> QED
      BY <3>2, <3>3
  <2>2. CASE settledAt[b] = None
    <3>1. b = a /\ Settles(e)
      BY <1>2, <2>2 DEF CheckoutInv, TypeOK, TablesTypeOK
    <3> QED
      BY <1>1, <1>2, <3>1, EventMeaning DEF ApplyEvent, CheckoutInv, TypeOK, TablesTypeOK
  <2> QED
    BY <2>1, <2>2
<1>6. /\ \A b \in Attempts : settledAt[b] # None => settledAt'[b] = settledAt[b]
      /\ Settles(e) => settledAt'[a] # None
  BY <1>1, <1>2, NoneAssumption DEF CheckoutInv, TypeOK, TablesTypeOK, MoneyTrue
<1>7. BookingTrue'
  <2>1. commitment # None => settledAt'[commitment] = "inTime"
    BY <1>6, NoneAssumption DEF CheckoutInv, TypeOK, TablesTypeOK, BookingTrue, Settlement
  <2>2. settled # None => settledAt'[settled] # None
    BY <1>6 DEF CheckoutInv, TypeOK, TablesTypeOK, BookingTrue
  <2>3. bookingState \in PaidFor => \E b \in Attempts : settledAt'[b] # None
    BY <1>6 DEF CheckoutInv, BookingTrue
  <2> QED
    BY <1>1, <2>1, <2>2, <2>3, CancellationsStay DEF CheckoutInv, BookingTrue, bookingVars,
       holdVars
<1>8. ASSUME NEW v \in Webhooks PROVE HookTrue(v)'
  <2>1. CASE v = w
    BY <1>1, <1>6, <2>1 DEF CheckoutInv, TypeOK, PayTypeOK, HookTrue
  <2>2. CASE v # w
    BY <1>1, <1>6, <2>2, EventMeaning DEF CheckoutInv, TypeOK, PayTypeOK, HookTrue
  <2> QED
    BY <2>1, <2>2
<1>9. RunsTypeOK' /\ \A r \in Runs : RunTrue(r)'
  <2>1. RunsTypeOK'
    BY <1>1 DEF CheckoutInv, TypeOK, RunsTypeOK, runVars
  <2> SUFFICES ASSUME NEW r \in Runs PROVE RunTrue(r)'
    BY <2>1
  <2>2. runAt[r] # "Idle" => settledAt'[runAttempt[r]] # None
    BY <1>6 DEF CheckoutInv, TypeOK, RunsTypeOK, RunTrue
  <2> QED
    BY <1>1, <2>2 DEF CheckoutInv, RunTrue, bookingVars, holdVars, runVars
<1> QED
  BY <1>3, <1>4, <1>5, <1>7, <1>8, <1>9, CancellationsStay DEF CheckoutInv, TypeOK

LEMMA DismissKeeps ==
  ASSUME CheckoutInv, UNCHANGED cancelVars, NEW w \in Webhooks, NEW e \in sent,
         WebhookReceive(w, e), Outcome(e) # "Applied"
  PROVE  CheckoutInv'
<1>1. /\ UNCHANGED <<initVars, hookVars, callbackOf, order, sent, bookingVars, attemptVars,
                     holdVars, runVars>>
      /\ seen' \subseteq sent
  BY DEF WebhookReceive, CheckoutInv, TypeOK, PayTypeOK
<1>2. PayTypeOK' /\ InitiationsNamed'
  BY <1>1 DEF CheckoutInv, TypeOK, PayTypeOK, InitiationsNamed, initVars, hookVars
<1>3. \A d \in sent' : Settles(d) => order'[d.attempt] \in Settlement
  BY <1>1 DEF CheckoutInv, MoneyTrue
<1> QED
  BY <1>1, <1>2, <1>3, QuietKeeps DEF bookingVars, attemptVars, CheckoutInv, TypeOK, TablesTypeOK

(* The booking's transaction of a webhook, and its death before it. *)
LEMMA HookEndTyped ==
  ASSUME CheckoutInv, NEW w \in Webhooks, HookDone(w),
         UNCHANGED <<initVars, callbackOf, providerVars, attemptVars>>
  PROVE  /\ PayTypeOK' /\ InitiationsNamed' /\ MoneyTrue'
         /\ \A v \in Webhooks : HookTrue(v)'
<1>1. PayTypeOK' /\ InitiationsNamed' /\ MoneyTrue'
  BY DEF CheckoutInv, TypeOK, PayTypeOK, InitiationsNamed, MoneyTrue, HookDone,
     initVars, providerVars, attemptVars
<1>2. ASSUME NEW v \in Webhooks PROVE HookTrue(v)'
  BY DEF CheckoutInv, TypeOK, PayTypeOK, HookTrue, HookDone, attemptVars
<1> QED
  BY <1>1, <1>2

LEMMA ProjectKeeps ==
  ASSUME CheckoutInv, UNCHANGED cancelVars, NEW w \in Webhooks, WebhookProject(w)
  PROVE  CheckoutInv'
<1> DEFINE e == hookEvent[w]
           next == Projection(e)
<1>1. /\ UNCHANGED <<initVars, callbackOf, providerVars, attemptVars, holdVars, settled>>
      /\ HookDone(w) /\ bookingState' \in {bookingState, next} /\ e \in Event
      /\ Settles(e) => settledAt[e.attempt] # None
      /\ e.attempt \in Attempts
  BY EventMeaning DEF WebhookProject, TryTransition, CheckoutInv, HookTrue
<1>2. /\ next \in {"PaymentSucceeded", "PaymentFailed", "PaymentInProgress"}
      /\ next = "PaymentSucceeded" => Settles(e)
  BY DEF Projection, Settles
<1>3. TablesTypeOK'
  BY <1>1, <1>2 DEF CheckoutInv, TypeOK, TablesTypeOK, BookingState, attemptVars, holdVars
<1>4. BookingTrue'
  <2>1. bookingState' \in PaidFor => \E b \in Attempts : settledAt[b] # None
    BY <1>1, <1>2 DEF CheckoutInv, BookingTrue, PaidFor
  <2> QED
    BY <1>1, <1>2, <2>1, CancellationsStay DEF CheckoutInv, BookingTrue, attemptVars, holdVars
<1>5. RunsTypeOK' /\ \A r \in Runs : RunTrue(r)'
  <2>1. CASE UNCHANGED runVars
    <3>1. RunsTypeOK'
      BY <2>1 DEF CheckoutInv, TypeOK, RunsTypeOK, runVars
    <3>2. ASSUME NEW r \in Runs PROVE RunTrue(r)'
      BY <1>1, <2>1 DEF CheckoutInv, RunTrue, runVars, attemptVars, holdVars
    <3> QED
      BY <3>1, <3>2
  <2>2. CASE ~UNCHANGED runVars
    <3>1. /\ next = "PaymentSucceeded" /\ w \in Runs
          /\ Call(w, e.attempt, [state |-> next, settled |-> settled])
      BY <2>2 DEF WebhookProject, Runs
    <3>2. RunsTypeOK'
      BY <1>1, <3>1 DEF CheckoutInv, TypeOK, TablesTypeOK, RunsTypeOK, Call, BookingCopy,
         BookingState
    <3>3. RunTrue(w)'
      BY <1>1, <1>2, <3>1 DEF CheckoutInv, TypeOK, RunsTypeOK, RunTrue, Call, attemptVars, holdVars
    <3>4. \A q \in Runs \ {w} : RunTrue(q)'
      BY <1>1, <3>1, OtherRuns DEF CheckoutInv, TypeOK, RunsTypeOK, Call, holdVars
    <3> QED
      BY <3>2, <3>3, <3>4
  <2> QED
    BY <2>1, <2>2
<1> QED
  BY <1>1, <1>3, <1>4, <1>5, HookEndTyped, CancellationsStay DEF CheckoutInv, TypeOK

LEMMA CrashHookKeeps ==
  ASSUME CheckoutInv, UNCHANGED cancelVars, NEW w \in Webhooks, CrashWebhook(w)
  PROVE  CheckoutInv'
<1>1. /\ UNCHANGED <<initVars, callbackOf, providerVars, bookingVars, attemptVars, holdVars,
                     runVars>>
      /\ HookDone(w)
  BY DEF CrashWebhook, tables
<1>2. TablesTypeOK' /\ RunsTypeOK'
  BY <1>1 DEF CheckoutInv, TypeOK, TablesTypeOK, RunsTypeOK, bookingVars, attemptVars, holdVars,
     runVars
<1>3. BookingTrue'
  BY <1>1, CancellationsStay DEF CheckoutInv, BookingTrue, bookingVars, attemptVars, holdVars
<1>4. ASSUME NEW r \in Runs PROVE RunTrue(r)'
  BY <1>1 DEF CheckoutInv, RunTrue, bookingVars, attemptVars, holdVars, runVars
<1> QED
  BY <1>1, <1>2, <1>3, <1>4, HookEndTyped, CancellationsStay DEF CheckoutInv, TypeOK

LEMMA PaymentKeeps ==
  ASSUME CheckoutInv, PaymentStep
  PROVE  CheckoutInv'
<1>1. UNCHANGED cancelVars /\ PaymentNext
  BY DEF PaymentStep
<1>2. ASSUME NEW i \in Initiators, \/ \E a \in Attempts : InitiateReadBooking(i, a)
                                   \/ InitiationStep(i) \/ CrashInitiation(i)
      PROVE  CheckoutInv'
  BY <1>1, <1>2, InitiationMoves, EffectKeeps
<1>3. ASSUME NEW w \in Webhooks, \/ \E e \in sent : WebhookReceive(w, e)
                                 \/ WebhookProject(w) \/ CrashWebhook(w)
      PROVE  CheckoutInv'
  BY <1>1, <1>3, ReceiveKeeps, DismissKeeps, ProjectKeeps, CrashHookKeeps
<1> QED
  BY <1>1, <1>2, <1>3, ProviderKeeps, CallbackKeeps DEF PaymentNext
-----------------------------------------------------------------------------
(* A step of a cancellation that leaves the tables but the booking's state and
   the hold alone: it cancels only what was confirmed, and tracks the booking
   only as it is. *)
LEMMA GiveBackKeeps ==
  ASSUME CheckoutInv, CancelTypeOK', OneExecutionPerRefund',
         UNCHANGED <<settled, attemptVars, lapsed, staleGet, commitment, runVars, payVars>>,
         holdState' \in {holdState, "Released"},
         bookingState' \in {bookingState, "Cancelled"},
         bookingState' # bookingState => commitment # None,
         \A p \in Approvers :
           loaded'[p] # None /\ loaded'[p].state = "Confirmed" => commitment # None
  PROVE  CheckoutInv'
<1>1. TablesTypeOK' /\ RunsTypeOK'
  BY DEF CheckoutInv, TypeOK, TablesTypeOK, RunsTypeOK, BookingState, attemptVars, runVars
<1>2. BookingTrue'
  <2>1. commitment # None => \E a \in Attempts : settledAt[a] # None
    BY NoneAssumption DEF CheckoutInv, TypeOK, TablesTypeOK, BookingTrue, Settlement
  <2> QED
    BY <2>1 DEF CheckoutInv, BookingTrue, attemptVars
<1>3. ASSUME NEW r \in Runs PROVE RunTrue(r)'
  BY DEF CheckoutInv, RunTrue, runVars, attemptVars
<1> QED
  BY <1>1, <1>2, <1>3, PaymentsStay DEF CheckoutInv, TypeOK

(* One that leaves every table alone and tracks no booking it did not track. *)
LEMMA AsideKeeps ==
  ASSUME CheckoutInv, CancelTypeOK', OneExecutionPerRefund',
         UNCHANGED <<tables, runVars, payVars>>,
         \A p \in Approvers : loaded'[p] \in {loaded[p], None}
  PROVE  CheckoutInv'
<1>1. \A p \in Approvers :
        loaded'[p] # None /\ loaded'[p].state = "Confirmed" => commitment # None
  BY DEF CheckoutInv, BookingTrue
<1> QED
  BY <1>1, GiveBackKeeps DEF tables, bookingVars, holdVars

LEMMA SnapshotTyped ==
  /\ Cardinality(SettledAttempts) \in 0..Cardinality(Attempts)
  /\ \A entitled \in BOOLEAN :
       [settled |-> Cardinality(SettledAttempts), entitled |-> entitled] \in Snapshot
<1>1. SettledAttempts \subseteq Attempts
  BY DEF SettledAttempts
<1>2. /\ IsFiniteSet(SettledAttempts)
      /\ Cardinality(SettledAttempts) <= Cardinality(Attempts)
  BY <1>1, AttemptsAssumption, FS_Subset
<1>3. Cardinality(SettledAttempts) \in Nat /\ Cardinality(Attempts) \in Nat
  BY <1>2, AttemptsAssumption, FS_CardinalityType
<1> QED
  BY <1>2, <1>3 DEF Snapshot

LEMMA RequestKeeps ==
  ASSUME CheckoutInv, UNCHANGED <<runVars, payVars>>,
         \/ \E q \in Requesters, entitled \in BOOLEAN : RequestEvaluate(q, entitled)
         \/ \E q \in Requesters, c \in Cancellations : RequestInsert(q, c)
         \/ \E c \in Cancellations : Reject(c)
  PROVE  CheckoutInv'
<1>1. /\ UNCHANGED <<tables, cancelledBy, releasedBy, refundVars, applyVars, executing>>
      /\ requestState' \in [Cancellations -> BookingCancellationState \cup {"Absent"}]
      /\ snapshot' \in [Cancellations -> Snapshot \cup {None}]
      /\ asking' \in [Requesters -> Snapshot \cup {None}]
  BY SnapshotTyped DEF RequestEvaluate, RequestInsert, Reject, Decide, requestVars, CheckoutInv,
     TypeOK, CancelTypeOK, BookingCancellationState
<1>2. CancelTypeOK' /\ OneExecutionPerRefund'
  BY <1>1 DEF CheckoutInv, TypeOK, CancelTypeOK, OneExecutionPerRefund, refundVars, applyVars
<1> QED
  BY <1>1, <1>2, AsideKeeps DEF applyVars

LEMMA DecisionKeeps ==
  ASSUME CheckoutInv, UNCHANGED <<runVars, payVars>>, NEW p \in Approvers,
         NEW c \in Cancellations, Approve(p, c) \/ Recover(p, c)
  PROVE  CheckoutInv'
<1>1. /\ UNCHANGED <<tables, snapshot, cancelledBy, releasedBy, refundVars, asking, executing>>
      /\ requestState' = [requestState EXCEPT ![c] = "Approved"]
      /\ applyAt' = [applyAt EXCEPT ![p] = "Apply"]
      /\ applying' = [applying EXCEPT ![p] = c]
      /\ \E l \in {None, [state |-> bookingState, by |-> cancelledBy]} :
           loaded' = [loaded EXCEPT ![p] = l]
  BY DEF Approve, Recover, Decide, StartApply
<1>2. \A q \in Approvers :
        loaded'[q] \in {loaded[q], None, [state |-> bookingState, by |-> cancelledBy]}
  BY <1>1
<1>3. CancelTypeOK' /\ OneExecutionPerRefund'
  BY <1>1, <1>2 DEF CheckoutInv, TypeOK, TablesTypeOK, CancelTypeOK, OneExecutionPerRefund,
     BookingCancellationState, refundVars
<1>4. \A q \in Approvers :
        loaded'[q] # None /\ loaded'[q].state = "Confirmed" => commitment # None
  BY <1>2 DEF CheckoutInv, BookingTrue
<1> QED
  BY <1>1, <1>3, <1>4, GiveBackKeeps DEF tables, bookingVars, holdVars

TrackedBooking == [state : BookingState, by : Cancellations \cup {None}] \cup {None}

(* A transaction of an approval that moves it on, or ends it. *)
LEMMA ApprovalTyped ==
  ASSUME CheckoutInv, NEW p \in Approvers,
         \/ StopApply(p)
         \/ \E to \in {"Release", "Refund", "Complete", "Except"} : Step(p, to)
  PROVE  /\ applyAt' \in [Approvers -> {"Idle", "Apply", "Release", "Refund", "Complete", "Except"}]
         /\ applying' \in [Approvers -> Cancellations \cup {None}]
         /\ loaded' \in [Approvers -> TrackedBooking]
         /\ \A q \in Approvers : loaded'[q] \in {loaded[q], None}
BY DEF CheckoutInv, TypeOK, CancelTypeOK, TrackedBooking, StopApply, Step

LEMMA ApplyKeeps ==
  ASSUME CheckoutInv, UNCHANGED <<runVars, payVars>>, NEW p \in Approvers, ApplyToBooking(p)
  PROVE  CheckoutInv'
<1>1. /\ UNCHANGED <<snapshot, settled, attemptVars, holdVars, releasedBy, refundVars, asking,
                     executing>>
      /\ requestState' \in {requestState, [requestState EXCEPT ![applying[p]] = "Applying"]}
      /\ bookingState' \in {bookingState, "Cancelled"}
      /\ cancelledBy' \in {cancelledBy, applying[p]}
      /\ StopApply(p) \/ Step(p, "Release")
      /\ bookingState' # bookingState => SeenBooking(p).state = "Confirmed"
  BY DEF ApplyToBooking
<1>2. SeenBooking(p).state = "Confirmed" => commitment # None
  BY DEF SeenBooking, CheckoutInv, BookingTrue
<1>3. /\ applyAt' \in [Approvers -> {"Idle", "Apply", "Release", "Refund", "Complete", "Except"}]
      /\ applying' \in [Approvers -> Cancellations \cup {None}]
      /\ loaded' \in [Approvers -> TrackedBooking]
      /\ \A q \in Approvers : loaded'[q] \in {loaded[q], None}
  BY <1>1, ApprovalTyped
<1>4. CancelTypeOK' /\ OneExecutionPerRefund'
  BY <1>1, <1>3 DEF CheckoutInv, TypeOK, CancelTypeOK, OneExecutionPerRefund,
     BookingCancellationState, TrackedBooking, refundVars
<1>5. \A q \in Approvers :
        loaded'[q] # None /\ loaded'[q].state = "Confirmed" => commitment # None
  BY <1>3 DEF CheckoutInv, BookingTrue
<1> QED
  BY <1>1, <1>2, <1>4, <1>5, GiveBackKeeps DEF holdVars

LEMMA ReleaseKeeps ==
  ASSUME CheckoutInv, UNCHANGED <<runVars, payVars>>, NEW p \in Approvers, ReleaseInventory(p)
  PROVE  CheckoutInv'
<1>1. /\ UNCHANGED <<bookingVars, attemptVars, lapsed, staleGet, commitment, requestVars,
                     cancelledBy, refundVars, asking, executing>>
      /\ holdState' \in {holdState, "Released"}
      /\ releasedBy' \in {releasedBy, applying[p]}
      /\ \E to \in {"Release", "Refund", "Complete", "Except"} : Step(p, to)
  BY DEF ReleaseInventory
<1>2. /\ applyAt' \in [Approvers -> {"Idle", "Apply", "Release", "Refund", "Complete", "Except"}]
      /\ applying' \in [Approvers -> Cancellations \cup {None}]
      /\ loaded' \in [Approvers -> TrackedBooking]
      /\ \A q \in Approvers : loaded'[q] \in {loaded[q], None}
  BY <1>1, ApprovalTyped
<1>3. CancelTypeOK' /\ OneExecutionPerRefund'
  BY <1>1, <1>2 DEF CheckoutInv, TypeOK, CancelTypeOK, OneExecutionPerRefund, requestVars,
     TrackedBooking, refundVars
<1>4. \A q \in Approvers :
        loaded'[q] # None /\ loaded'[q].state = "Confirmed" => commitment # None
  BY <1>2 DEF CheckoutInv, BookingTrue
<1> QED
  BY <1>1, <1>3, <1>4, GiveBackKeeps DEF bookingVars

(* The refund, the closing of the request and the death of an approval leave
   the tables to themselves. *)
LEMMA EndKeeps ==
  ASSUME CheckoutInv, UNCHANGED <<runVars, payVars>>, NEW p \in Approvers,
         AuthorizeRefund(p) \/ CloseRequest(p) \/ CrashApply(p)
  PROVE  CheckoutInv'
<1>1. /\ UNCHANGED <<tables, snapshot, cancelledBy, releasedBy, asking, executing>>
      /\ \/ StopApply(p)
         \/ \E to \in {"Release", "Refund", "Complete", "Except"} : Step(p, to)
      /\ \/ requestState' = requestState
         \/ \E s \in {"Applied", "Exception"} :
              requestState' = [requestState EXCEPT ![applying[p]] = s]
  BY DEF AuthorizeRefund, CloseRequest, CrashApply, requestVars
<1>2. \/ UNCHANGED refundVars
      \/ /\ refundState[applying[p]] = "Absent"
         /\ \E s \in {"Authorized", "NotRequired"} :
              refundState' = [refundState EXCEPT ![applying[p]] = s]
         /\ \E a \in Attempts \cup {None} :
              refundAttempt' = [refundAttempt EXCEPT ![applying[p]] = a]
  BY DEF AuthorizeRefund, CloseRequest, CrashApply, SettledAttempts
<1>3. /\ applyAt' \in [Approvers -> {"Idle", "Apply", "Release", "Refund", "Complete", "Except"}]
      /\ applying' \in [Approvers -> Cancellations \cup {None}]
      /\ loaded' \in [Approvers -> TrackedBooking]
      /\ \A q \in Approvers : loaded'[q] \in {loaded[q], None}
  BY <1>1, ApprovalTyped
<1>4. requestState' \in [Cancellations -> BookingCancellationState \cup {"Absent"}]
  BY <1>1 DEF CheckoutInv, TypeOK, CancelTypeOK, BookingCancellationState
<1>5. /\ refundState' \in [Cancellations -> RefundState \cup {"Absent"}]
      /\ refundAttempt' \in [Cancellations -> Attempts \cup {None}]
      /\ \A c \in Cancellations : refundState[c] = "Processing" => refundState'[c] = "Processing"
  BY <1>2 DEF CheckoutInv, TypeOK, CancelTypeOK, RefundState, refundVars
<1>6. CancelTypeOK' /\ OneExecutionPerRefund'
  BY <1>1, <1>3, <1>4, <1>5 DEF CheckoutInv, TypeOK, CancelTypeOK, OneExecutionPerRefund,
     TrackedBooking
<1> QED
  BY <1>1, <1>3, <1>6, AsideKeeps

(* A refund is sent to the provider from Authorized or Failed only, and these
   are the states of no refund that is being executed. *)
LEMMA ExecutionKeeps ==
  ASSUME CheckoutInv, UNCHANGED <<runVars, payVars>>, NEW x \in Executors,
         \/ \E c \in Cancellations : ExecuteRefund(x, c)
         \/ \E answer \in RefundAnswer : RefundAnswered(x, answer)
         \/ CrashExecution(x)
  PROVE  CheckoutInv'
<1>1. UNCHANGED <<tables, requestVars, cancelledBy, releasedBy, refundAttempt, asking, applyVars>>
  BY DEF ExecuteRefund, RefundAnswered, CrashExecution, refundVars
<1>2. /\ refundState' \in [Cancellations -> RefundState \cup {"Absent"}]
      /\ executing' \in [Executors -> Cancellations \cup {None}]
  BY DEF ExecuteRefund, RefundAnswered, CrashExecution, refundVars, CheckoutInv, TypeOK,
     CancelTypeOK, RefundState, RefundAnswer
<1>3. CancelTypeOK'
  BY <1>1, <1>2 DEF CheckoutInv, TypeOK, CancelTypeOK, requestVars, applyVars
<1>4. OneExecutionPerRefund'
  <2>1. ASSUME NEW c \in Cancellations, ExecuteRefund(x, c) PROVE OneExecutionPerRefund'
    BY <2>1 DEF ExecuteRefund, Executable, CheckoutInv, TypeOK, CancelTypeOK,
       OneExecutionPerRefund
  <2>2. ASSUME NEW answer \in RefundAnswer, RefundAnswered(x, answer)
        PROVE  OneExecutionPerRefund'
    BY <2>2 DEF RefundAnswered, CheckoutInv, TypeOK, CancelTypeOK, OneExecutionPerRefund
  <2>3. CASE CrashExecution(x)
    BY <2>3 DEF CrashExecution, CheckoutInv, TypeOK, CancelTypeOK, OneExecutionPerRefund,
       refundVars
  <2> QED
    BY <2>1, <2>2, <2>3
<1> QED
  BY <1>1, <1>3, <1>4, AsideKeeps DEF applyVars

LEMMA CancelKeeps ==
  ASSUME CheckoutInv, CancelStep
  PROVE  CheckoutInv'
<1>1. CancelNext /\ UNCHANGED <<runVars, payVars>>
  BY DEF CancelStep
<1>2. ASSUME NEW p \in Approvers, ApplyStep(p) \/ CrashApply(p) PROVE CheckoutInv'
  BY <1>1, <1>2, ApplyKeeps, ReleaseKeeps, EndKeeps DEF ApplyStep
<1> QED
  BY <1>1, <1>2, RequestKeeps, DecisionKeeps, ExecutionKeeps DEF CancelNext
-----------------------------------------------------------------------------
LEMMA CheckoutStep == CheckoutInv /\ [Next]_vars => CheckoutInv'
<1> SUFFICES ASSUME CheckoutInv, [Next]_vars PROVE CheckoutInv'
  OBVIOUS
<1>1. CASE UNCHANGED vars
  <2>1. /\ UNCHANGED <<tables, runVars, payVars, cancelVars>>
        /\ UNCHANGED <<settled, attemptVars, lapsed, staleGet, commitment, runVars, payVars,
                       holdState, bookingState, loaded>>
    BY <1>1, CancellationsStay DEF vars, tables, bookingVars, holdVars
  <2> QED
    BY <2>1, CancellationsStay, AsideKeeps
<1> QED
  BY <1>1, HoldKeeps, ConfirmationKeeps, PaymentKeeps, CancelKeeps DEF Next

(* The checkout of a booking never leaves CheckoutInv, however many requests of
   every kind overlap and wherever they die. *)
THEOREM CheckoutInvariant == Spec => []CheckoutInv
BY CheckoutInit, CheckoutStep, PTL DEF Spec

(* The tables and the local state of every request keep their types. *)
THEOREM CheckoutTypes == Spec => []TypeOK
<1>1. CheckoutInv => TypeOK
  BY DEF CheckoutInv
<1> QED
  BY <1>1, CheckoutInvariant, PTL

(* No booking is paid for but by a payment the provider captured, and a
   settlement always says when that was. *)
THEOREM PaidTheorem == Spec => []PaidForByProvider
<1>1. CheckoutInv => PaidForByProvider
  BY DEF CheckoutInv, BookingTrue, MoneyTrue, PaidForByProvider
<1> QED
  BY <1>1, CheckoutInvariant, PTL

(* The seat is committed for money that was captured while the hold lasted, by
   the payment the attempt names, even when webhooks, retries and late answers
   of the provider race. *)
THEOREM SeatTheorem == Spec => []SeatOnlyForTimelyMoney
<1>1. CheckoutInv => SeatOnlyForTimelyMoney
  <2> SUFFICES ASSUME CheckoutInv, commitment # None PROVE SeatOnlyForTimelyMoney
    BY DEF SeatOnlyForTimelyMoney
  <2>1. commitment \in Attempts /\ settledAt[commitment] = "inTime"
    BY DEF CheckoutInv, TypeOK, TablesTypeOK, BookingTrue
  <2>2. settledAt[commitment] # None
    BY <2>1, NoneAssumption DEF Settlement
  <2> QED
    BY <2>1, <2>2 DEF SeatOnlyForTimelyMoney, CheckoutInv, MoneyTrue
<1> QED
  BY <1>1, CheckoutInvariant, PTL

(* ConfirmationException always names the settled attempt its retry needs. *)
THEOREM ExceptionTheorem == Spec => []ExceptionKeepsItsPayment
<1>1. CheckoutInv => ExceptionKeepsItsPayment
  BY DEF CheckoutInv, BookingTrue, ExceptionKeepsItsPayment
<1> QED
  BY <1>1, CheckoutInvariant, PTL

(* A booking is confirmed, and cancelled later, only with a commitment made. *)
THEOREM ConfirmedTheorem == Spec => []ConfirmedHasCommitment
<1>1. CheckoutInv => ConfirmedHasCommitment
  BY DEF CheckoutInv, BookingTrue, ConfirmedHasCommitment
<1> QED
  BY <1>1, CheckoutInvariant, PTL

(* Two executors never ask the provider for the same refund at once. *)
THEOREM ExecutionTheorem == Spec => []OneExecutionPerRefund
<1>1. CheckoutInv => OneExecutionPerRefund
  BY DEF CheckoutInv
<1> QED
  BY <1>1, CheckoutInvariant, PTL

LEMMA CommitmentStep == [Next]_vars => [commitment # None => commitment' = commitment]_vars
<1> SUFFICES ASSUME Next, commitment # None PROVE commitment' = commitment
  BY DEF vars, tables, holdVars
<1> USE DEF tables, holdVars
<1>1. CASE HoldStep
  BY <1>1 DEF HoldStep, HoldNext, HoldLapses, HoldEnds, HoldReadByGet, HoldOverwrittenByGet
<1>2. CASE ConfirmationStep
  BY <1>2 DEF ConfirmationStep, ConfirmationNext, RetryConfirmation, RunStep, CrashRun,
     ReturnAtOnce, RefuseForeignAttempt, BeginConfirmation, CommitSeat, FinishConfirmation, SeatFree
<1>3. CASE PaymentStep
  BY <1>3 DEF PaymentStep, PaymentNext, InitiationStep, InitiateReadBooking, InitiateCheck,
     InitiateFind, InitiateInsert, GatewayAnswers, GatewayUnavailable, FailureRead, FailureWrite,
     FailureProject, SessionRead, SessionWrite, SessionProject, CrashInitiation,
     ProviderAuthorizes, ProviderCaptures, ProviderDeclines, CallbackRead, CallbackWrite,
     WebhookReceive, WebhookProject, CrashWebhook
<1>4. CASE CancelStep
  BY <1>4 DEF CancelStep, CancelNext, RequestEvaluate, RequestInsert, Reject, Approve, Recover,
     ApplyStep, ApplyToBooking, ReleaseInventory, AuthorizeRefund, CloseRequest, CrashApply,
     ExecuteRefund, RefundAnswered, CrashExecution
<1> QED
  BY <1>1, <1>2, <1>3, <1>4 DEF Next

(* No retry, second payment or recovery gives the seat to another attempt. *)
THEOREM CommitmentTheorem == Spec => CommitmentIsFinal
BY CommitmentStep, PTL DEF Spec, CommitmentIsFinal
=============================================================================
