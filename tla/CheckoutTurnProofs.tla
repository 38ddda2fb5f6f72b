-------------------------- MODULE CheckoutTurnProofs --------------------------
(***************************************************************************)
(* Proofs about the checkout of a booking whose initiations come in turn:  *)
(* one attempt at most is settled, so the confirmations, whatever webhooks *)
(* and retries run them, are about one payment, and the booking, its seat  *)
(* and its refund follow that payment for any number of requests.          *)
(***************************************************************************)
EXTENDS CheckoutProofs

(* Initiations in turn: no two at once, and either no callback that overtakes an
   event or no event of a declined payment to overtake.  Then one attempt at most
   is alive, and it stays so because an attempt that failed at the provider
   carries the id of a declined payment, which no event of a taken one matches. *)
InTurn ==
  /\ \A i, j \in Initiators : i = j
  /\ Callbacks = {} \/ "payment.failed" \notin Subscribed

AtProvider == {"ProviderPending", "Succeeded", "Failed"}

AttemptInv ==
  \A a \in Attempts :
    /\ a \in session => attemptState[a] \in AtProvider
    /\ a \notin session => attemptState[a] \in {"Absent", "Created", "Failed"}
    /\ attemptState[a] = "Failed" /\ a \in session => paymentId[a] = "declined" /\ Callbacks = {}
    /\ settledAt[a] # None => attemptState[a] = "Succeeded"

OneLive ==
  \A a, b \in Attempts : attemptState[a] \in Live /\ attemptState[b] \in Live => a = b

InitiationInv ==
  \A i \in Initiators :
    /\ initAt[i] = "Insert" => OtherLive(initAttempt[i]) = {}
    /\ initAt[i] \in {"Gateway", "FailWrite", "Write"} => attemptState[initAttempt[i]] = "Created"

TurnInv ==
  /\ AttemptInv /\ OneLive /\ InitiationInv
  /\ \A e \in sent : e.attempt \in session /\ e.kind \in Subscribed

LEMMA TurnInit == Init => TurnInv
BY DEF Init, TablesInit, PayInit, TurnInv, AttemptInv, OneLive, InitiationInv, Live

LEMMA TurnStays ==
  ASSUME TurnInv, UNCHANGED <<attemptVars, initVars, sent>>
  PROVE  TurnInv'
BY DEF TurnInv, AttemptInv, OneLive, InitiationInv, OtherLive, attemptVars, initVars

LEMMA EventsOf ==
  ASSUME NEW a, NEW kinds, NEW e \in Events(a, kinds)
  PROVE  e.attempt = a /\ e.kind \in Subscribed
BY DEF Events

(* An event that is applied moves a live attempt: one that failed at the
   provider accepts nothing any more. *)
LEMMA TurnReceive ==
  ASSUME CheckoutInv, TurnInv, InTurn, NEW w \in Webhooks, NEW e \in sent, WebhookReceive(w, e)
  PROVE  TurnInv'
<1> DEFINE a == e.attempt
<1>1. /\ UNCHANGED <<initVars, sent>> /\ e \in Event
      /\ a \in Attempts /\ a \in session /\ attemptState[a] \in AtProvider
      /\ e.kind = "payment.failed" => Callbacks = {}
      /\ TablesTypeOK
  BY EventMeaning DEF WebhookReceive, CheckoutInv, TypeOK, PayTypeOK, TurnInv, AttemptInv, InTurn
<1>2. CASE Outcome(e) # "Applied"
  BY <1>1, <1>2, TurnStays DEF WebhookReceive
<1>3. CASE Outcome(e) = "Applied"
  <2>1. /\ paymentId[a] \in {None, PaymentOf(e.kind)}
        /\ EvaluateProviderEvent(attemptState[a], Requested(e.kind)) = "Applied"
        /\ ApplyEvent(e)
    BY <1>3 DEF Outcome, WebhookReceive
  <2>2. /\ attemptState[a] # Requested(e.kind) /\ attemptState[a] # "Succeeded"
        /\ CanMovePayment(attemptState[a], Requested(e.kind))
    BY <2>1 DEF EvaluateProviderEvent, IsTerminal
  <2>3. /\ e.kind = "payment.failed" => Requested(e.kind) = "Failed" /\ PaymentOf(e.kind) = "declined"
        /\ e.kind # "payment.failed" =>
             Requested(e.kind) \in {"ProviderPending", "Succeeded"} /\ PaymentOf(e.kind) = "taken"
    BY <1>1 DEF Requested, PaymentOf, Event, EventKind
  <2>4. attemptState[a] = "ProviderPending"
    <3>1. ASSUME attemptState[a] = "Failed" PROVE FALSE
      <4>1. paymentId[a] = "declined"
        BY <1>1, <3>1 DEF TurnInv, AttemptInv
      <4>2. e.kind = "payment.failed"
        BY <2>1, <2>3, <4>1, NoneAssumption DEF ProviderPayment
      <4> QED
        BY <2>2, <2>3, <3>1, <4>2
    <3> QED
      BY <1>1, <2>2, <3>1 DEF AtProvider
  <2>5. /\ attemptState' = [attemptState EXCEPT ![a] = Requested(e.kind)]
        /\ session' = session
        /\ paymentId' = [paymentId EXCEPT ![a] = IF @ = None THEN PaymentOf(e.kind) ELSE @]
        /\ \A b \in Attempts : b # a => settledAt'[b] = settledAt[b]
        /\ Requested(e.kind) # "Succeeded" => settledAt'[a] = settledAt[a]
    BY <1>1, <2>1 DEF ApplyEvent, TablesTypeOK
  <2>6. Requested(e.kind) \in AtProvider
    BY <2>3 DEF AtProvider
  <2>7. AttemptInv'
    BY <1>1, <2>1, <2>3, <2>4, <2>5, <2>6 DEF TurnInv, AttemptInv, TablesTypeOK
  <2>8. \A b \in Attempts : attemptState'[b] \in Live => attemptState[b] \in Live
    BY <1>1, <2>4, <2>5 DEF TablesTypeOK, Live
  <2>9. OneLive'
    BY <2>8 DEF TurnInv, OneLive
  <2>10. InitiationInv'
    <3> SUFFICES ASSUME NEW i \in Initiators
                 PROVE  /\ initAt[i] = "Insert" =>
                             \A b \in Attempts \ {initAttempt[i]} : attemptState'[b] \notin Live
                        /\ initAt[i] \in {"Gateway", "FailWrite", "Write"} =>
                             attemptState'[initAttempt[i]] = "Created"
      BY <1>1 DEF InitiationInv, initVars, OtherLive
    <3>1. initAt[i] = "Insert" =>
            \A b \in Attempts \ {initAttempt[i]} : attemptState'[b] \notin Live
      BY <2>8 DEF TurnInv, InitiationInv, OtherLive
    <3>2. ASSUME initAt[i] \in {"Gateway", "FailWrite", "Write"}
          PROVE  attemptState'[initAttempt[i]] = "Created"
      <4>1. attemptState[initAttempt[i]] = "Created" /\ initAttempt[i] \in Attempts
        BY <3>2 DEF TurnInv, InitiationInv, CheckoutInv, InitiationsNamed
      <4> QED
        BY <1>1, <2>4, <2>5, <4>1 DEF TablesTypeOK
    <3> QED
      BY <3>1, <3>2
  <2> QED
    BY <1>1, <2>5, <2>7, <2>9, <2>10 DEF TurnInv
<1> QED
  BY <1>2, <1>3

(* The step of the one initiation there is. *)
LEMMA TurnInitiation ==
  ASSUME CheckoutInv, TurnInv, InTurn, NEW i \in Initiators,
         \/ \E a \in Attempts : InitiateReadBooking(i, a)
         \/ InitiationStep(i) \/ CrashInitiation(i)
  PROVE  TurnInv'
<1> DEFINE a == initAttempt[i]
<1>1. /\ Initiators = {i} /\ sent' = sent /\ UNCHANGED <<paymentId, settledAt>>
      /\ initAt[i] # "Idle" => a \in Attempts
      /\ TablesTypeOK /\ initAt \in [Initiators -> InitStep]
      /\ initAttempt \in [Initiators -> Attempts \cup {None}]
  BY InitiationMoves DEF InTurn, InitiationEffect, CheckoutInv, TypeOK, PayTypeOK, InitiationsNamed
<1> USE DEF GoTo, Done, tables, attemptVars
<1>2. CASE InitiateFind(i)
  BY <1>1, <1>2 DEF InitiateFind, TurnInv, AttemptInv, OneLive, InitiationInv, OtherLive
<1>3. CASE InitiateInsert(i)
  <2>1. CASE attemptState[a] = "Absent"
    <3>1. /\ attemptState' = [attemptState EXCEPT ![a] = "Created"] /\ session' = session
          /\ initAt' = [initAt EXCEPT ![i] = "Gateway"] /\ initAttempt' = initAttempt
          /\ initAt[i] = "Insert" /\ a \notin session
      BY <1>1, <1>3, <2>1 DEF InitiateInsert, TurnInv, AttemptInv, AtProvider
    <3>2. AttemptInv'
      BY <1>1, <2>1, <3>1 DEF TurnInv, AttemptInv, TablesTypeOK
    <3>3. OneLive'
      BY <1>1, <3>1 DEF TurnInv, OneLive, InitiationInv, OtherLive, TablesTypeOK
    <3>4. InitiationInv'
      BY <1>1, <3>1 DEF InitiationInv, TablesTypeOK, OtherLive
    <3> QED
      BY <1>1, <3>1, <3>2, <3>3, <3>4 DEF TurnInv
  <2>2. CASE attemptState[a] # "Absent"
    BY <1>1, <1>3, <2>2 DEF InitiateInsert, TurnInv, AttemptInv, OneLive, InitiationInv, OtherLive
  <2> QED
    BY <2>1, <2>2
<1>4. CASE FailureWrite(i)
  <2>1. /\ attemptState' = [attemptState EXCEPT ![a] = "Failed"] /\ session' = session
        /\ initAt' = [initAt EXCEPT ![i] = "FailProject"] /\ initAttempt' = initAttempt
        /\ attemptState[a] = "Created" /\ a \notin session
    BY <1>1, <1>4 DEF FailureWrite, TurnInv, InitiationInv, AttemptInv, AtProvider
  <2>2. AttemptInv'
    BY <1>1, <2>1 DEF TurnInv, AttemptInv, TablesTypeOK
  <2>3. OneLive' /\ InitiationInv'
    BY <1>1, <2>1 DEF TurnInv, OneLive, InitiationInv, Live, TablesTypeOK
  <2> QED
    BY <1>1, <2>1, <2>2, <2>3 DEF TurnInv
<1>5. CASE SessionWrite(i)
  <2>1. /\ attemptState' = [attemptState EXCEPT ![a] = "ProviderPending"]
        /\ session' = session \cup {a}
        /\ initAt' = [initAt EXCEPT ![i] = "Project"] /\ initAttempt' = initAttempt
        /\ attemptState[a] = "Created"
    BY <1>1, <1>5 DEF SessionWrite, TurnInv, InitiationInv
  <2>2. AttemptInv'
    BY <1>1, <2>1 DEF TurnInv, AttemptInv, TablesTypeOK, AtProvider
  <2>3. OneLive' /\ InitiationInv'
    BY <1>1, <2>1 DEF TurnInv, OneLive, InitiationInv, Live, TablesTypeOK
  <2> QED
    BY <1>1, <2>1, <2>2, <2>3 DEF TurnInv
<1>6. CASE GatewayAnswers(i) \/ GatewayUnavailable(i) \/ FailureRead(i) \/ SessionRead(i)
  BY <1>1, <1>6 DEF GatewayAnswers, GatewayUnavailable, FailureRead, SessionRead, TurnInv,
     AttemptInv, OneLive, InitiationInv, OtherLive
<1>7. CASE \/ \E b \in Attempts : InitiateReadBooking(i, b)
           \/ InitiateCheck(i) \/ FailureProject(i) \/ SessionProject(i) \/ CrashInitiation(i)
  BY <1>1, <1>7 DEF InitiateReadBooking, InitiateCheck, FailureProject, SessionProject,
     CrashInitiation, TurnInv, AttemptInv, OneLive, InitiationInv, OtherLive
<1> QED
  BY <1>2, <1>3, <1>4, <1>5, <1>6, <1>7 DEF InitiationStep

(* The attempts are written by the payment endpoints alone. *)
LEMMA HoldLeaves == HoldStep => UNCHANGED attemptVars
BY DEF HoldStep, HoldNext, HoldLapses, HoldEnds, HoldReadByGet, HoldOverwrittenByGet

LEMMA ConfirmationLeaves == ConfirmationStep => UNCHANGED attemptVars
BY DEF ConfirmationStep, ConfirmationNext, RetryConfirmation, RunStep, CrashRun, ReturnAtOnce,
   RefuseForeignAttempt, BeginConfirmation, CommitSeat, FinishConfirmation, tables

LEMMA CancelLeaves == CancelStep => UNCHANGED attemptVars
BY DEF CancelStep, CancelNext, RequestEvaluate, RequestInsert, Reject, Approve, Recover,
   ApplyStep, ApplyToBooking, ReleaseInventory, AuthorizeRefund, CloseRequest, CrashApply,
   ExecuteRefund, RefundAnswered, CrashExecution, tables

LEMMA TurnStep ==
  ASSUME InTurn
  PROVE  CheckoutInv /\ TurnInv /\ [Next]_vars => TurnInv'
<1> SUFFICES ASSUME CheckoutInv, TurnInv, [Next]_vars PROVE TurnInv'
  OBVIOUS
<1> USE DEF tables, payVars, providerVars
<1>1. CASE UNCHANGED vars \/ HoldStep \/ ConfirmationStep \/ CancelStep
  <2>1. UNCHANGED attemptVars
    BY <1>1, HoldLeaves, ConfirmationLeaves, CancelLeaves DEF vars
  <2>2. UNCHANGED <<initVars, sent>>
    BY <1>1 DEF vars, HoldStep, ConfirmationStep, CancelStep
  <2> QED
    BY <2>1, <2>2, TurnStays
<1>2. CASE PaymentStep
  <2>1. ASSUME NEW a \in Attempts,
               ProviderAuthorizes(a) \/ ProviderCaptures(a) \/ ProviderDeclines(a)
        PROVE  TurnInv'
    <3>1. UNCHANGED <<initVars, attemptVars>> /\ a \in session
      BY <2>1 DEF ProviderAuthorizes, ProviderCaptures, ProviderDeclines, Payable, tables
    <3>2. ASSUME NEW e \in sent', e \notin sent PROVE e.attempt = a /\ e.kind \in Subscribed
      <4>1. \/ e \in Events(a, {"payment.authorized"})
            \/ e \in Events(a, {"payment.authorized", "payment.captured", "order.paid"})
            \/ e \in Events(a, {"payment.failed"})
        BY <2>1, <3>2 DEF ProviderAuthorizes, ProviderCaptures, ProviderDeclines
      <4> QED
        BY <4>1, EventsOf
    <3> QED
      BY <3>1, <3>2 DEF TurnInv, AttemptInv, OneLive, InitiationInv, OtherLive, attemptVars, initVars
  <2>2. ASSUME NEW w \in Webhooks, WebhookProject(w) \/ CrashWebhook(w) PROVE TurnInv'
    BY <2>2, TurnStays DEF WebhookProject, CrashWebhook
  <2>3. ASSUME NEW c \in Callbacks, (\E a \in Attempts : CallbackRead(c, a)) \/ CallbackWrite(c)
        PROVE  TurnInv'
    <3>1. UNCHANGED <<initVars, sent, attemptState, session, settledAt>>
      BY <2>3 DEF CallbackRead, CallbackWrite, attemptVars
    <3>2. \A a \in Attempts : attemptState[a] = "Failed" => a \notin session
      BY <2>3 DEF TurnInv, AttemptInv
    <3> QED
      BY <3>1, <3>2 DEF TurnInv, AttemptInv, OneLive, InitiationInv, OtherLive, initVars
  <2> QED
    BY <1>2, <2>1, <2>2, <2>3, TurnReceive, TurnInitiation DEF PaymentStep, PaymentNext
<1> QED
  BY <1>1, <1>2 DEF Next

(* One attempt of a booking at most is ever settled, for any number of webhooks,
   retries, cancellations and deaths, if its initiations come in turn and no
   callback writes over the id of a declined payment. *)
THEOREM SettledOnceInTurn ==
  ASSUME InTurn
  PROVE  Spec => []SettledOnce
<1>1. CheckoutInv /\ TurnInv /\ [Next]_vars => TurnInv'
  BY TurnStep
<1>2. TurnInv => SettledOnce
  BY DEF TurnInv, AttemptInv, OneLive, SettledOnce, Live
<1> QED
  BY <1>1, <1>2, TurnInit, CheckoutInvariant, PTL DEF Spec
-----------------------------------------------------------------------------
Busy(r) == runAt[r] # "Idle"
Settling(w) == hookAt[w] = "Project" /\ Settles(hookEvent[w])
Deciding(p) == applyAt[p] # "Idle"

(* No run will find the seat free any more: an ended hold is never active again,
   and the moment of the settlement does not change. *)
SeatLost ==
  /\ commitment = None
  /\ holdState # "Active" \/ \E a \in Attempts : settledAt[a] = "late"

(* A settled payment that is not projected yet is the first there is. *)
HookAlone(w) ==
  Settling(w) =>
    /\ bookingState \notin PaidFor /\ settled = None
    /\ \A r \in Runs : ~Busy(r)
    /\ \A v \in Webhooks : Settling(v) => v = w

(* What a run relies on between its transactions.  A webhook's run works on a
   copy of the booking that is still true; a retry is left with a lost seat. *)
RunHolds(r) ==
  /\ runAt[r] = "Begin" /\ copy[r] # None =>
       /\ bookingState = "PaymentSucceeded" /\ settled = None
       /\ copy[r] = [state |-> bookingState, settled |-> settled]
       /\ \A q \in Runs : Busy(q) => q = r
  /\ runAt[r] = "Begin" /\ copy[r] = None => SeatLost /\ settled # None
  /\ runAt[r] \in {"Commit", "Finish"} =>
       settled = runAttempt[r] /\ bookingState \in {"Confirming", "ConfirmationException"}
  /\ runAt[r] = "Commit" => commitment = None
  /\ runAt[r] = "Finish" => IF found[r] = None THEN SeatLost ELSE commitment = found[r]

(* Two runs at once only repeat a refusal, and none is left behind a
   confirmation. *)
SeatFollows ==
  /\ \A q, r \in Runs : Busy(q) /\ Busy(r) /\ q # r => SeatLost
  /\ bookingState \in {"Confirmed", "Cancelled"} => (\A r \in Runs : ~Busy(r))
  /\ bookingState \in PaidFor \ {"PaymentSucceeded"} => settled # None
  /\ settled # None => bookingState \in PaidFor
  /\ bookingState = "ConfirmationException" => SeatLost
  /\ commitment # None =>
       settled = commitment /\ bookingState \in {"Confirming", "Confirmed", "Cancelled"}

ConfirmInv ==
  /\ \A w \in Webhooks : HookAlone(w)
  /\ \A r \in Runs : RunHolds(r)
  /\ SeatFollows

(* A request is decided by one approver, who sees the booking as it is ... *)
ApproverHolds(p) ==
  Deciding(p) =>
    /\ applying[p] \in Cancellations
    /\ requestState[applying[p]] = IF applyAt[p] = "Apply" THEN "Approved" ELSE "Applying"
    /\ \A q \in Approvers : Deciding(q) => q = p
    /\ applyAt[p] = "Apply" /\ loaded[p] # None /\ loaded[p].state \in {"Confirmed", "Cancelled"}
         => loaded[p] = [state |-> bookingState, by |-> cancelledBy]
    /\ applyAt[p] # "Apply" => bookingState = "Cancelled" /\ cancelledBy = applying[p]
    /\ applyAt[p] = "Refund" => releasedBy = applying[p]
    /\ applyAt[p] = "Complete" => refundState[applying[p]] # "Absent"

(* ... a snapshot that entitles to money counted some ... *)
RequestHolds(c) ==
  /\ \A d \in Active : c \in Active => c = d
  /\ requestState[c] # "Absent" => snapshot[c] # None
  /\ snapshot[c] # None /\ snapshot[c].entitled => snapshot[c].settled > 0
  /\ requestState[c] = "Applied" => refundState[c] # "Absent"
  /\ refundState[c] \notin {"Absent", "NotRequired"} =>
       refundAttempt[c] # None /\ settledAt[refundAttempt[c]] # None
  /\ refundState[c] # "Absent" => cancelledBy = c /\ releasedBy = c

(* ... and the booking, its seat and its refund end in that order. *)
CancelInv ==
  /\ \A p \in Approvers : ApproverHolds(p)
  /\ \A c \in Cancellations : RequestHolds(c)
  /\ \A q \in Requesters : asking[q] # None /\ asking[q].entitled => asking[q].settled > 0
  /\ cancelledBy # None \/ releasedBy # None => bookingState = "Cancelled"

SucceededIsSettled == \A a \in Attempts : attemptState[a] = "Succeeded" => settledAt[a] # None

FollowInv == SucceededIsSettled /\ ConfirmInv /\ CancelInv
SagaInv == CheckoutInv /\ TurnInv /\ FollowInv

LEMMA FollowInit == Init => FollowInv
<1> SUFFICES ASSUME Init PROVE FollowInv
  OBVIOUS
<1> USE DEF Init, TablesInit, RunsInit, PayInit, CancelInit
<1>1. SucceededIsSettled
  BY DEF SucceededIsSettled
<1>2. ConfirmInv
  BY DEF ConfirmInv, HookAlone, RunHolds, SeatFollows, Busy, Settling, PaidFor
<1>3. CancelInv
  BY DEF CancelInv, ApproverHolds, RequestHolds, Deciding, Active, ActiveCancellationStates
<1> QED
  BY <1>1, <1>2, <1>3 DEF FollowInv
-----------------------------------------------------------------------------
LEMMA OneSettled ==
  ASSUME TurnInv, NEW a \in Attempts, NEW b \in Attempts, settledAt[a] # None, settledAt[b] # None
  PROVE  a = b
BY DEF TurnInv, AttemptInv, OneLive, Live

LEMMA BusyIsPaid ==
  ASSUME ConfirmInv, NEW r \in Runs, Busy(r), RunsTypeOK
  PROVE  bookingState \in PaidFor \ {"Confirmed", "Cancelled"}
BY DEF ConfirmInv, RunHolds, SeatFollows, Busy, PaidFor, RunsTypeOK

(* What others do leaves the cancellations right as long as they leave a
   confirmed or cancelled booking alone. *)
LEMMA CancelsStay ==
  ASSUME CheckoutInv, CancelInv, UNCHANGED cancelVars,
         bookingState \in {"Confirmed", "Cancelled"} => bookingState' = bookingState,
         \A a \in Attempts : settledAt[a] # None => settledAt'[a] # None
  PROVE  CancelInv'
<1>1. UNCHANGED <<requestState, snapshot, cancelledBy, releasedBy, refundState, refundAttempt,
                  asking, applyAt, applying, loaded>>
  BY DEF cancelVars, requestVars, refundVars, applyVars
<1>2. ASSUME NEW p \in Approvers PROVE ApproverHolds(p)'
  BY <1>1 DEF CancelInv, ApproverHolds, Deciding
<1>3. ASSUME NEW c \in Cancellations PROVE RequestHolds(c)'
  BY <1>1 DEF CancelInv, RequestHolds, Active, CheckoutInv, TypeOK, CancelTypeOK
<1> QED
  BY <1>1, <1>2, <1>3 DEF CancelInv

(* What others do leaves the confirmation right as long as they leave a paid
   booking and what its runs hold alone, and hand no settled payment on. *)
LEMMA ConfirmsStay ==
  ASSUME CheckoutInv, ConfirmInv, UNCHANGED <<settled, commitment, runVars>>,
         SeatLost => SeatLost',
         \A w \in Webhooks : Settling(w)' => Settling(w),
         bookingState' # bookingState => bookingState \notin PaidFor /\ bookingState' \notin PaidFor
  PROVE  ConfirmInv'
<1>1. \A r \in Runs : Busy(r) => bookingState' = bookingState
  BY BusyIsPaid DEF CheckoutInv, TypeOK
<1>2. ASSUME NEW w \in Webhooks PROVE HookAlone(w)'
  BY DEF ConfirmInv, HookAlone, Busy, runVars
<1>3. ASSUME NEW r \in Runs PROVE RunHolds(r)'
  BY <1>1 DEF ConfirmInv, RunHolds, Busy, runVars
<1>4. SeatFollows'
  BY <1>1 DEF ConfirmInv, SeatFollows, Busy, runVars, PaidFor
<1> QED
  BY <1>2, <1>3, <1>4 DEF ConfirmInv

LEMMA HoldFollows ==
  ASSUME SagaInv, HoldStep
  PROVE  FollowInv'
<1>1. /\ UNCHANGED <<bookingVars, attemptVars, commitment, runVars, payVars, cancelVars>>
      /\ holdState # "Active" => holdState' # "Active"
  BY DEF HoldStep, HoldNext, HoldLapses, HoldEnds, HoldReadByGet, HoldOverwrittenByGet
<1>2. SeatLost => SeatLost'
  BY <1>1 DEF SeatLost, attemptVars
<1>3. ConfirmInv'
  BY <1>1, <1>2, ConfirmsStay DEF SagaInv, FollowInv, bookingVars, payVars, hookVars, Settling
<1>4. CancelInv'
  BY <1>1, CancelsStay DEF SagaInv, FollowInv, bookingVars, attemptVars
<1> QED
  BY <1>1, <1>3, <1>4 DEF FollowInv, SagaInv, SucceededIsSettled, attemptVars
-----------------------------------------------------------------------------
(* A run that returns leaves the seat as it found it. *)
LEMMA ReturnFollows ==
  ASSUME SagaInv, NEW r \in Runs, Return(r), UNCHANGED <<tables, payVars>>
  PROVE  ConfirmInv'
<1>1. /\ UNCHANGED <<bookingVars, attemptVars, holdVars, hookVars>>
      /\ runAt'[r] = "Idle"
      /\ \A q \in Runs \ {r} :
           /\ runAt'[q] = runAt[q] /\ runAttempt'[q] = runAttempt[q]
           /\ copy'[q] = copy[q] /\ found'[q] = found[q]
      /\ SeatLost' <=> SeatLost
  BY DEF tables, payVars, SeatLost, attemptVars, holdVars, Return, SagaInv, CheckoutInv, TypeOK,
     RunsTypeOK
<1>2. \A q \in Runs : Busy(q)' => Busy(q) /\ q # r
  BY <1>1 DEF Busy
<1>3. ASSUME NEW w \in Webhooks PROVE HookAlone(w)'
  BY <1>1, <1>2 DEF SagaInv, FollowInv, ConfirmInv, HookAlone, Settling, hookVars, bookingVars
<1>4. ASSUME NEW q \in Runs PROVE RunHolds(q)'
  <2>1. CASE q = r
    BY <1>1, <2>1 DEF RunHolds
  <2>2. CASE q # r
    BY <1>1, <1>2, <2>2 DEF SagaInv, FollowInv, ConfirmInv, RunHolds, bookingVars, holdVars
  <2> QED
    BY <2>1, <2>2
<1>5. SeatFollows'
  BY <1>1, <1>2 DEF SagaInv, FollowInv, ConfirmInv, SeatFollows, bookingVars, holdVars
<1> QED
  BY <1>3, <1>4, <1>5 DEF ConfirmInv

(* A paid booking has no settled payment left to project, so what a run does to
   the booking and the commitment cannot disturb one. *)
LEMMA NoHookLeft ==
  ASSUME ConfirmInv, bookingState \in PaidFor \/ settled # None, UNCHANGED hookVars
  PROVE  \A w \in Webhooks : HookAlone(w)'
BY DEF ConfirmInv, HookAlone, Settling, hookVars

LEMMA RetryFollows ==
  ASSUME SagaInv, NEW r \in Retries, RetryConfirmation(r), UNCHANGED payVars
  PROVE  ConfirmInv'
<1>1. /\ r \in Runs /\ UNCHANGED <<bookingVars, attemptVars, holdVars, hookVars>>
      /\ bookingState = "ConfirmationException" /\ settled # None
      /\ Call(r, settled, None)
      /\ SeatLost /\ SeatLost'
  BY DEF RetryConfirmation, Runs, tables, payVars, SagaInv, FollowInv, ConfirmInv, SeatFollows,
     SeatLost, attemptVars, holdVars
<1>2. /\ runAt'[r] = "Begin" /\ copy'[r] = None
      /\ \A q \in Runs \ {r} :
           /\ runAt'[q] = runAt[q] /\ runAttempt'[q] = runAttempt[q]
           /\ copy'[q] = copy[q] /\ found'[q] = found[q]
  BY <1>1 DEF Call, SagaInv, CheckoutInv, TypeOK, RunsTypeOK
<1>3. ASSUME NEW q \in Runs PROVE RunHolds(q)'
  <2>1. CASE q = r
    BY <1>1, <1>2, <2>1 DEF RunHolds, bookingVars
  <2>2. CASE q # r
    BY <1>1, <1>2, <2>2 DEF SagaInv, FollowInv, ConfirmInv, RunHolds, bookingVars, holdVars
  <2> QED
    BY <2>1, <2>2
<1>4. SeatFollows'
  BY <1>1 DEF SagaInv, FollowInv, ConfirmInv, SeatFollows, bookingVars, holdVars, PaidFor
<1> QED
  BY <1>1, <1>3, <1>4, NoHookLeft DEF SagaInv, FollowInv, ConfirmInv

LEMMA BeginFollows ==
  ASSUME SagaInv, NEW r \in Runs, BeginConfirmation(r), UNCHANGED payVars
  PROVE  ConfirmInv' /\ bookingState \in PaidFor \ {"Confirmed", "Cancelled"}
<1> DEFINE a == runAttempt[r]
<1> USE DEF SagaInv, FollowInv, ConfirmInv
<1>1. /\ Busy(r) /\ runAt[r] = "Begin" /\ a \in Attempts /\ a # None
      /\ UNCHANGED <<attemptVars, holdVars, hookVars>>
      /\ Seen(r).settled \in {None, a}
      /\ SeatLost' <=> SeatLost
  BY NoneAssumption DEF BeginConfirmation, Busy, payVars, CheckoutInv, TypeOK, RunsTypeOK,
     SeatLost, attemptVars, holdVars
<1>2. /\ runAt'[r] = "Commit" /\ runAttempt' = runAttempt /\ found' = found
      /\ \A q \in Runs \ {r} : runAt'[q] = runAt[q] /\ copy'[q] = copy[q]
  BY DEF BeginConfirmation, CheckoutInv, TypeOK, RunsTypeOK
<1>3. bookingState \in PaidFor \ {"Confirmed", "Cancelled"}
  BY <1>1, BusyIsPaid DEF CheckoutInv, TypeOK
<1>4. /\ Seen(r).state = bookingState /\ Seen(r).settled = settled
      /\ copy[r] # None => settled = None /\ \A q \in Runs : Busy(q) => q = r
      /\ copy[r] = None => SeatLost /\ settled # None
      /\ settled = None => bookingState = "PaymentSucceeded"
  BY <1>1 DEF RunHolds, Seen
<1>5. bookingState' = "Confirming" /\ settled' = a
  BY <1>1, <1>4 DEF BeginConfirmation, Save
<1>6. commitment = None /\ commitment' = None
  BY <1>1, <1>4 DEF SeatFollows, SeatLost, holdVars
<1>7. ASSUME NEW q \in Runs, q # r, Busy(q) PROVE SeatLost /\ settled = a
  BY <1>1, <1>4, <1>7
<1>8. ASSUME NEW q \in Runs PROVE RunHolds(q)'
  <2>1. CASE q = r
    BY <1>2, <1>5, <1>6, <2>1 DEF RunHolds
  <2>2. CASE q # r /\ Busy(q)
    <3>1. SeatLost' /\ settled' = settled /\ settled # None
      BY <1>1, <1>4, <1>5, <1>7, <2>2
    <3>2. ~(runAt[q] = "Begin" /\ copy[q] # None)
      BY <3>1 DEF RunHolds
    <3> QED
      BY <1>2, <1>5, <1>6, <2>2, <3>1, <3>2 DEF RunHolds
  <2>3. CASE q # r /\ ~Busy(q)
    BY <1>2, <2>3 DEF RunHolds, Busy
  <2> QED
    BY <2>1, <2>2, <2>3
<1>9. SeatFollows'
  <2>1. \A q \in Runs : Busy(q)' => q = r \/ Busy(q)
    BY <1>2 DEF Busy
  <2> QED
    BY <1>1, <1>5, <1>6, <1>7, <2>1 DEF SeatFollows, PaidFor
<1> QED
  BY <1>1, <1>3, <1>8, <1>9, NoHookLeft

(* The seat a run takes is one nobody had given up: then it is the only run. *)
LEMMA CommitFollows ==
  ASSUME SagaInv, NEW r \in Runs, CommitSeat(r), UNCHANGED payVars
  PROVE  ConfirmInv'
<1> DEFINE a == runAttempt[r]
<1> USE DEF SagaInv, FollowInv, ConfirmInv
<1>1. /\ Busy(r) /\ runAt[r] = "Commit" /\ a \in Attempts /\ a # None /\ settledAt[a] # None
      /\ UNCHANGED <<bookingVars, attemptVars, hookVars, runAttempt, copy>>
      /\ commitment = None /\ settled = a
      /\ bookingState \in {"Confirming", "ConfirmationException"}
  BY NoneAssumption DEF CommitSeat, Busy, payVars, CheckoutInv, TypeOK, RunsTypeOK, RunHolds, RunTrue
<1>2. /\ runAt'[r] = "Finish" /\ found'[r] = commitment'
      /\ \A q \in Runs \ {r} : runAt'[q] = runAt[q] /\ found'[q] = found[q]
      /\ \A q \in Runs : Busy(q)' <=> Busy(q)
  BY <1>1 DEF CommitSeat, CheckoutInv, TypeOK, RunsTypeOK, Busy
<1>3. CASE SeatFree(a)
  <2>1. ~SeatLost
    BY <1>1, <1>3, OneSettled, NoneAssumption DEF SeatFree, SeatLost, Settlement
  <2>2. /\ bookingState = "Confirming" /\ commitment' = a
        /\ \A q \in Runs : Busy(q) => q = r
    BY <1>1, <1>3, <2>1 DEF SeatFollows, CommitSeat
  <2>3. ASSUME NEW q \in Runs PROVE RunHolds(q)'
    <3>1. CASE q = r
      BY <1>1, <1>2, <2>2, <3>1 DEF RunHolds, bookingVars
    <3>2. CASE q # r
      BY <1>2, <2>2, <3>2 DEF RunHolds, Busy
    <3> QED
      BY <3>1, <3>2
  <2>4. SeatFollows'
    BY <1>1, <1>2, <2>2 DEF SeatFollows, bookingVars, PaidFor
  <2> QED
    BY <1>1, <2>3, <2>4, NoHookLeft
<1>4. CASE ~SeatFree(a)
  <2>1. commitment' = None /\ UNCHANGED holdVars
    BY <1>1, <1>4 DEF CommitSeat, holdVars
  <2>2. SeatLost'
    BY <1>1, <1>4, <2>1 DEF SeatFree, SeatLost, attemptVars, holdVars, Settlement, CheckoutInv,
       TypeOK, TablesTypeOK
  <2>3. ASSUME NEW q \in Runs PROVE RunHolds(q)'
    <3>1. CASE q = r
      BY <1>1, <1>2, <2>1, <2>2, <3>1 DEF RunHolds, bookingVars
    <3>2. CASE q # r
      BY <1>1, <1>2, <2>1, <2>2, <3>2 DEF RunHolds, bookingVars
    <3> QED
      BY <3>1, <3>2
  <2>4. SeatFollows'
    BY <1>1, <1>2, <2>1, <2>2 DEF SeatFollows, bookingVars
  <2> QED
    BY <1>1, <2>3, <2>4, NoHookLeft
<1> QED
  BY <1>3, <1>4

(* A run that found the commitment it asked for is the only one, and confirms;
   one that found none leaves the booking to a retry. *)
LEMMA FinishFollows ==
  ASSUME SagaInv, NEW r \in Runs, FinishConfirmation(r), UNCHANGED payVars
  PROVE  ConfirmInv' /\ bookingState \in {"Confirming", "ConfirmationException"}
<1> DEFINE a == runAttempt[r]
<1> USE DEF SagaInv, FollowInv, ConfirmInv
<1>1. /\ Busy(r) /\ runAt[r] = "Finish" /\ a \in Attempts /\ a # None
      /\ UNCHANGED <<settled, attemptVars, holdVars, hookVars>>
      /\ settled = a /\ bookingState \in {"Confirming", "ConfirmationException"}
      /\ IF found[r] = None THEN SeatLost ELSE commitment = found[r]
      /\ SeatLost' <=> SeatLost
      /\ bookingState' = IF found[r] = a THEN "Confirmed" ELSE "ConfirmationException"
  BY NoneAssumption DEF FinishConfirmation, Busy, payVars, CheckoutInv, TypeOK, RunsTypeOK,
     RunHolds, SeatLost, attemptVars, holdVars
<1>2. /\ runAt'[r] = "Idle"
      /\ \A q \in Runs \ {r} :
           /\ runAt'[q] = runAt[q] /\ runAttempt'[q] = runAttempt[q]
           /\ copy'[q] = copy[q] /\ found'[q] = found[q]
  BY DEF FinishConfirmation, Return, CheckoutInv, TypeOK, RunsTypeOK
<1>3. \A q \in Runs : Busy(q)' => Busy(q) /\ q # r
  BY <1>2 DEF Busy
<1>4. CASE found[r] = a
  <2>1. commitment = a /\ ~SeatLost /\ bookingState' = "Confirmed"
    BY <1>1, <1>4 DEF SeatLost
  <2>2. \A q \in Runs : ~Busy(q)'
    BY <1>1, <1>3, <2>1 DEF SeatFollows
  <2>3. ASSUME NEW q \in Runs PROVE RunHolds(q)'
    BY <2>2 DEF RunHolds, Busy
  <2>4. SeatFollows'
    BY <1>1, <2>1, <2>2 DEF SeatFollows, holdVars, PaidFor
  <2> QED
    BY <1>1, <2>3, <2>4, NoHookLeft
<1>5. CASE found[r] # a
  <2>1. SeatLost /\ bookingState' = "ConfirmationException"
    BY <1>1, <1>5 DEF SeatFollows
  <2>2. ASSUME NEW q \in Runs PROVE RunHolds(q)'
    <3>1. CASE q = r
      BY <1>2, <3>1 DEF RunHolds
    <3>2. CASE q # r
      BY <1>1, <1>2, <2>1, <3>2 DEF RunHolds, holdVars
    <3> QED
      BY <3>1, <3>2
  <2>3. SeatFollows'
    BY <1>1, <1>3, <2>1 DEF SeatFollows, SeatLost, PaidFor
  <2> QED
    BY <1>1, <2>2, <2>3, NoHookLeft
<1> QED
  BY <1>1, <1>4, <1>5

LEMMA NoForeignAttempt ==
  ASSUME SagaInv, NEW r \in Runs
  PROVE  ~RefuseForeignAttempt(r)
<1> SUFFICES ASSUME RefuseForeignAttempt(r) PROVE FALSE
  OBVIOUS
<1> USE DEF SagaInv, FollowInv, ConfirmInv
<1>1. /\ Busy(r) /\ runAt[r] = "Begin" /\ runAttempt[r] \in Attempts
      /\ settledAt[runAttempt[r]] # None
  BY DEF RefuseForeignAttempt, Busy, CheckoutInv, TypeOK, RunsTypeOK, RunTrue
<1>2. Seen(r).settled = settled
  BY <1>1 DEF RunHolds, Seen
<1>3. settled \in Attempts /\ settledAt[settled] # None /\ settled # runAttempt[r]
  BY <1>2 DEF RefuseForeignAttempt, CheckoutInv, TypeOK, TablesTypeOK, BookingTrue
<1> QED
  BY <1>1, <1>3, OneSettled

LEMMA ConfirmationFollows ==
  ASSUME SagaInv, ConfirmationStep
  PROVE  /\ FollowInv'
         /\ bookingState' # bookingState => bookingState \notin {"Confirmed", "Cancelled"}
<1>1. UNCHANGED <<payVars, cancelVars, attemptVars>>
  BY ConfirmationLeaves DEF ConfirmationStep
<1>2. ConfirmInv' /\ (bookingState' # bookingState => bookingState \notin {"Confirmed", "Cancelled"})
  <2>1. ASSUME NEW r \in Retries, RetryConfirmation(r) PROVE ConfirmInv' /\ UNCHANGED bookingVars
    BY <1>1, <2>1, RetryFollows DEF RetryConfirmation, tables
  <2>2. ASSUME NEW r \in Runs, ReturnAtOnce(r) \/ CrashRun(r)
        PROVE  ConfirmInv' /\ UNCHANGED bookingVars
    BY <1>1, <2>2, ReturnFollows DEF ReturnAtOnce, CrashRun, tables
  <2>3. ASSUME NEW r \in Runs, RunStep(r), ~ReturnAtOnce(r)
        PROVE  ConfirmInv' /\ bookingState \notin {"Confirmed", "Cancelled"}
    <3>1. CASE BeginConfirmation(r)
      BY <1>1, <3>1, BeginFollows
    <3>2. CASE CommitSeat(r)
      <4>1. Busy(r)
        BY <3>2 DEF CommitSeat, Busy
      <4> QED
        BY <1>1, <3>2, <4>1, CommitFollows, BusyIsPaid DEF SagaInv, FollowInv, CheckoutInv, TypeOK
    <3>3. CASE FinishConfirmation(r)
      BY <1>1, <3>3, FinishFollows
    <3> QED
      BY <2>3, <3>1, <3>2, <3>3, NoForeignAttempt DEF RunStep
  <2> QED
    BY <2>1, <2>2, <2>3 DEF ConfirmationStep, ConfirmationNext, bookingVars
<1>3. CancelInv'
  BY <1>1, <1>2, CancelsStay DEF SagaInv, FollowInv, attemptVars
<1>4. SucceededIsSettled'
  BY <1>1 DEF SagaInv, FollowInv, SucceededIsSettled, attemptVars
<1> QED
  BY <1>2, <1>3, <1>4 DEF FollowInv
-----------------------------------------------------------------------------
Unpaid == {"PendingPayment", "PaymentInProgress", "PaymentFailed", "PaymentCancelled"}

(* The policy lets no paid booking go back among the unpaid ones, and lets a
   booking become paid only from there. *)
LEMMA UnpaidMoves ==
  ASSUME NEW next \in {"PaymentInProgress", "PaymentFailed"}, TryTransition(next)
  PROVE  /\ settled' = settled
         /\ bookingState' # bookingState => bookingState \in Unpaid /\ bookingState' \in Unpaid
         /\ Unpaid \cap PaidFor = {}
BY DEF TryTransition, TransitionAllowed, CanMoveBooking, BookingMoves, Unpaid, PaidFor

(* What every payment step but a webhook's has in common. *)
LEMMA AsideFollows ==
  ASSUME SagaInv, UNCHANGED <<settledAt, settled, holdVars, runVars, hookVars, cancelVars>>,
         bookingState' # bookingState => bookingState \in Unpaid /\ bookingState' \in Unpaid,
         \A a \in Attempts : attemptState'[a] = "Succeeded" => attemptState[a] = "Succeeded"
  PROVE  FollowInv'
<1>1. SeatLost => SeatLost'
  BY DEF SeatLost, holdVars
<1>2. ConfirmInv'
  BY <1>1, ConfirmsStay DEF SagaInv, FollowInv, holdVars, hookVars, Settling, Unpaid, PaidFor
<1>3. CancelInv'
  BY CancelsStay DEF SagaInv, FollowInv, Unpaid
<1> QED
  BY <1>2, <1>3 DEF SagaInv, FollowInv, SucceededIsSettled

LEMMA InitiationFollows ==
  ASSUME SagaInv, UNCHANGED cancelVars, NEW i \in Initiators,
         \/ \E a \in Attempts : InitiateReadBooking(i, a)
         \/ InitiationStep(i) \/ CrashInitiation(i)
  PROVE  /\ FollowInv'
         /\ \A a \in Attempts : attemptState[a] = "Succeeded" => attemptState'[a] = "Succeeded"
         /\ bookingState' # bookingState => bookingState \in Unpaid
<1>1. UNCHANGED <<settledAt, settled, holdVars, runVars, hookVars>>
  BY InitiationMoves DEF InitiationEffect, SagaInv
<1>2. bookingState' # bookingState => bookingState \in Unpaid /\ bookingState' \in Unpaid
  <2>1. CASE FailureProject(i) \/ SessionProject(i)
    BY <2>1, UnpaidMoves DEF FailureProject, SessionProject
  <2>2. CASE ~(FailureProject(i) \/ SessionProject(i))
    BY <2>2 DEF InitiationStep, InitiateReadBooking, InitiateCheck, InitiateFind, InitiateInsert,
       GatewayAnswers, GatewayUnavailable, FailureRead, FailureWrite, SessionRead, SessionWrite,
       CrashInitiation, tables, bookingVars
  <2> QED
    BY <2>1, <2>2
<1>3. \A a \in Attempts : attemptState'[a] = "Succeeded" <=> attemptState[a] = "Succeeded"
  <2> DEFINE b == initAttempt[i]
  <2>1. CASE InitiateInsert(i)
    BY <2>1 DEF InitiateInsert, SagaInv, CheckoutInv, TypeOK, TablesTypeOK
  <2>2. CASE FailureWrite(i) \/ SessionWrite(i)
    <3>1. attemptState[b] = "Created"
      BY <2>2 DEF FailureWrite, SessionWrite, SagaInv, TurnInv, InitiationInv
    <3> QED
      BY <2>2, <3>1 DEF FailureWrite, SessionWrite, SagaInv, CheckoutInv, TypeOK, TablesTypeOK
  <2>3. CASE ~(InitiateInsert(i) \/ FailureWrite(i) \/ SessionWrite(i))
    BY <2>3 DEF InitiationStep, InitiateReadBooking, InitiateCheck, InitiateFind, GatewayAnswers,
       GatewayUnavailable, FailureRead, FailureProject, SessionRead, SessionProject,
       CrashInitiation, tables, attemptVars
  <2> QED
    BY <2>1, <2>2, <2>3
<1> QED
  BY <1>1, <1>2, <1>3, AsideFollows

(* The provider and the callback write neither the booking nor a settlement. *)
LEMMA ProviderFollows ==
  ASSUME SagaInv, UNCHANGED cancelVars,
         \/ \E a \in Attempts : ProviderAuthorizes(a) \/ ProviderCaptures(a) \/ ProviderDeclines(a)
         \/ \E c \in Callbacks, a \in Attempts : CallbackRead(c, a)
         \/ \E c \in Callbacks : CallbackWrite(c)
  PROVE  FollowInv' /\ UNCHANGED <<attemptState, bookingState>>
<1>1. UNCHANGED <<attemptState, settledAt, bookingVars, holdVars, runVars, hookVars>>
  BY DEF ProviderAuthorizes, ProviderCaptures, ProviderDeclines, CallbackRead, CallbackWrite,
     tables, attemptVars
<1> QED
  BY <1>1, AsideFollows DEF bookingVars

(* The event that settles a payment finds none settled before, so no run, no
   other webhook and no paid booking. *)
LEMMA ReceiveFollows ==
  ASSUME SagaInv, UNCHANGED cancelVars, NEW w \in Webhooks, NEW e \in sent, WebhookReceive(w, e)
  PROVE  /\ FollowInv' /\ UNCHANGED bookingState
         /\ \A a \in Attempts : attemptState[a] = "Succeeded" => attemptState'[a] = "Succeeded"
<1> DEFINE a == e.attempt
<1> USE DEF SagaInv, FollowInv
<1>1. /\ UNCHANGED <<bookingVars, holdVars, runVars, cancelVars>>
      /\ e \in Event /\ a \in Attempts /\ a \in session
      /\ TablesTypeOK /\ PayTypeOK
  BY EventMeaning DEF WebhookReceive, CheckoutInv, TypeOK, PayTypeOK, TurnInv
<1>2. CASE Outcome(e) # "Applied"
  BY <1>1, <1>2, AsideFollows DEF WebhookReceive, attemptVars, bookingVars
<1>3. CASE Outcome(e) = "Applied"
  <2>1. /\ ApplyEvent(e) /\ w \in Webhooks
        /\ attemptState[a] # Requested(e.kind) /\ attemptState[a] # "Succeeded"
        /\ CanMovePayment(attemptState[a], Requested(e.kind))
        /\ hookAt' = [hookAt EXCEPT ![w] = "Project"]
        /\ hookEvent' = [hookEvent EXCEPT ![w] = e]
    BY <1>3 DEF WebhookReceive, Outcome, EvaluateProviderEvent, IsTerminal
  <2>2. /\ attemptState' = [attemptState EXCEPT ![a] = Requested(e.kind)]
        /\ settledAt' = [settledAt EXCEPT ![a] = IF Settles(e) THEN order[a] ELSE @]
        /\ Settles(e) => order[a] # None
    BY <2>1, NoneAssumption DEF ApplyEvent, MomentSettled, Settles, CheckoutInv, MoneyTrue
  <2>3. /\ \A b \in Attempts : settledAt[b] # None => settledAt'[b] = settledAt[b]
        /\ \A b \in Attempts : settledAt[b] # None => b # a
    BY <1>1, <2>1, <2>2 DEF TablesTypeOK, TurnInv, AttemptInv
  <2>4. SucceededIsSettled'
    BY <1>1, <2>2 DEF SucceededIsSettled, Settles, TablesTypeOK
  <2>5. SeatLost => SeatLost'
    BY <1>1, <2>3, NoneAssumption DEF SeatLost, holdVars, Settlement
  <2>6. CancelInv'
    BY <1>1, <2>3, CancelsStay DEF bookingVars
  <2>7. CASE ~Settles(e)
    <3>1. \A v \in Webhooks : Settling(v)' => Settling(v)
      BY <1>1, <2>1, <2>7 DEF Settling, PayTypeOK
    <3>2. ConfirmInv'
      BY <1>1, <2>5, <3>1, ConfirmsStay DEF bookingVars, holdVars
    <3> QED
      BY <1>1, <2>1, <2>2, <2>4, <2>6, <3>2 DEF bookingVars, TablesTypeOK
  <2>8. CASE Settles(e)
    <3>1. attemptState[a] \in Live
      BY <1>1, <2>1, <2>8 DEF Settles, CanMovePayment, PaymentMoves, Live
    <3>2. \A b \in Attempts : settledAt[b] = None
      BY <1>1, <2>1, <3>1 DEF TurnInv, AttemptInv, OneLive, Live
    <3>3. /\ bookingState \notin PaidFor /\ settled = None /\ commitment = None
          /\ \A r \in Runs : ~Busy(r)
          /\ \A v \in Webhooks : ~Settling(v)
      <4>1. bookingState \notin PaidFor /\ settled = None /\ commitment = None
        BY <3>2, NoneAssumption DEF CheckoutInv, BookingTrue, TypeOK, TablesTypeOK, Settlement
      <4>2. ASSUME NEW r \in Runs PROVE ~Busy(r)
        BY <3>2 DEF CheckoutInv, TypeOK, RunsTypeOK, RunTrue, Busy
      <4>3. ASSUME NEW v \in Webhooks PROVE ~Settling(v)
        BY <3>2, EventMeaning DEF CheckoutInv, HookTrue, Settling
      <4> QED
        BY <4>1, <4>2, <4>3
    <3>4. \A v \in Webhooks : Settling(v)' => v = w
      BY <1>1, <2>1, <3>3 DEF Settling, PayTypeOK
    <3>5. \A r \in Runs : ~Busy(r)'
      BY <1>1, <3>3 DEF Busy, runVars
    <3>6. ConfirmInv'
      <4>1. ASSUME NEW v \in Webhooks PROVE HookAlone(v)'
        BY <1>1, <3>3, <3>4, <3>5 DEF HookAlone, bookingVars
      <4>2. ASSUME NEW r \in Runs PROVE RunHolds(r)'
        BY <3>5 DEF RunHolds, Busy
      <4>3. SeatFollows'
        BY <1>1, <3>3, <3>5 DEF SeatFollows, PaidFor, bookingVars, holdVars
      <4> QED
        BY <4>1, <4>2, <4>3 DEF ConfirmInv
    <3> QED
      BY <1>1, <2>4, <2>6, <3>6, <2>1, <2>2 DEF bookingVars, TablesTypeOK
  <2> QED
    BY <1>1, <2>1, <2>2, <2>7, <2>8 DEF bookingVars, TablesTypeOK
<1> QED
  BY <1>2, <1>3

(* Its projection starts the only run there is, on the booking as it is. *)
LEMMA ProjectFollows ==
  ASSUME SagaInv, UNCHANGED cancelVars, NEW w \in Webhooks, WebhookProject(w) \/ CrashWebhook(w)
  PROVE  /\ FollowInv' /\ UNCHANGED attemptVars
         /\ bookingState' # bookingState => bookingState \in Unpaid
<1> DEFINE e == hookEvent[w]
           next == Projection(e)
<1> USE DEF SagaInv, FollowInv
<1>1. /\ UNCHANGED <<attemptVars, holdVars, settled>> /\ HookDone(w)
      /\ SeatLost => SeatLost'
      /\ \A v \in Webhooks : Settling(v)' => v # w /\ Settling(v)
  BY DEF WebhookProject, CrashWebhook, tables, bookingVars, TryTransition, SeatLost, attemptVars,
     holdVars, HookDone, Settling, CheckoutInv, TypeOK, PayTypeOK
<1>2. SucceededIsSettled'
  BY <1>1 DEF SucceededIsSettled, attemptVars
<1>3. CASE UNCHANGED runVars
  <2>1. bookingState' # bookingState => bookingState \in Unpaid /\ bookingState' \in Unpaid
    <3>1. CASE WebhookProject(w) /\ next # "PaymentSucceeded"
      BY <3>1, UnpaidMoves DEF WebhookProject, Projection
    <3>2. CASE WebhookProject(w) /\ next = "PaymentSucceeded" /\ ~TransitionAllowed(next)
      BY <3>2 DEF WebhookProject, TryTransition
    <3>3. CASE WebhookProject(w) /\ next = "PaymentSucceeded" /\ TransitionAllowed(next)
      <4>1. /\ w \in Runs /\ Settling(w)
            /\ Call(w, e.attempt, [state |-> next, settled |-> settled])
        BY <3>3 DEF WebhookProject, Runs, Settling, Settles, Projection
      <4>2. runAt'[w] = "Begin" /\ runAt[w] = "Idle"
        BY <4>1 DEF Call, CheckoutInv, TypeOK, RunsTypeOK, ConfirmInv, HookAlone, Busy
      <4> QED
        BY <1>3, <4>2 DEF runVars
    <3>4. CASE CrashWebhook(w)
      BY <3>4 DEF CrashWebhook, tables, bookingVars
    <3> QED
      BY <3>1, <3>2, <3>3, <3>4
  <2>2. ConfirmInv'
    BY <1>1, <1>3, <2>1, ConfirmsStay DEF Unpaid, PaidFor, holdVars
  <2>3. CancelInv'
    BY <1>1, <2>1, CancelsStay DEF Unpaid, attemptVars
  <2> QED
    BY <1>1, <1>2, <2>1, <2>2, <2>3
<1>4. CASE ~UNCHANGED runVars
  <2>1. /\ WebhookProject(w) /\ next = "PaymentSucceeded" /\ TransitionAllowed(next)
        /\ w \in Runs /\ Settling(w)
        /\ Call(w, e.attempt, [state |-> next, settled |-> settled])
        /\ bookingState' = "PaymentSucceeded"
    BY <1>4 DEF WebhookProject, CrashWebhook, TryTransition, Runs, Settling, Settles, Projection
  <2>2. /\ bookingState \in Unpaid /\ settled = None /\ commitment = None
        /\ \A r \in Runs : ~Busy(r)
        /\ \A v \in Webhooks : Settling(v) => v = w
    BY <2>1 DEF ConfirmInv, HookAlone, SeatFollows, TransitionAllowed, CanMoveBooking,
       BookingMoves, Unpaid, PaidFor
  <2>3. /\ runAt'[w] = "Begin" /\ copy'[w] = [state |-> "PaymentSucceeded", settled |-> settled]
        /\ \A r \in Runs : Busy(r)' => r = w
    BY <2>1, <2>2 DEF Call, Busy, CheckoutInv, TypeOK, RunsTypeOK
  <2>4. [state |-> "PaymentSucceeded", settled |-> settled] # None
    BY CopyAssumption DEF BookingCopy, BookingState, CheckoutInv, TypeOK, TablesTypeOK
  <2>5. ConfirmInv'
    <3>1. ASSUME NEW v \in Webhooks PROVE HookAlone(v)'
      BY <1>1, <2>2 DEF HookAlone
    <3>2. ASSUME NEW r \in Runs PROVE RunHolds(r)'
      BY <1>1, <2>1, <2>2, <2>3, <2>4 DEF RunHolds, Busy
    <3>3. SeatFollows'
      BY <1>1, <2>1, <2>2, <2>3 DEF SeatFollows, PaidFor, holdVars
    <3> QED
      BY <3>1, <3>2, <3>3 DEF ConfirmInv
  <2>6. CancelInv'
    BY <1>1, <2>2, CancelsStay DEF Unpaid, attemptVars
  <2> QED
    BY <1>1, <1>2, <2>2, <2>5, <2>6
<1> QED
  BY <1>3, <1>4

LEMMA PaymentFollows ==
  ASSUME SagaInv, PaymentStep
  PROVE  /\ FollowInv'
         /\ \A a \in Attempts : attemptState[a] = "Succeeded" => attemptState'[a] = "Succeeded"
         /\ bookingState' # bookingState => bookingState \in Unpaid
BY InitiationFollows, ProviderFollows, ReceiveFollows, ProjectFollows
   DEF PaymentStep, PaymentNext, attemptVars
-----------------------------------------------------------------------------
(* A cancellation cancels a confirmed booking and gives up a committed seat,
   and so disturbs no run. *)
LEMMA CancelConfirms ==
  ASSUME SagaInv, CancelStep
  PROVE  /\ ConfirmInv' /\ SucceededIsSettled' /\ UNCHANGED attemptVars
         /\ bookingState' # bookingState =>
              bookingState = "Confirmed" /\ bookingState' = "Cancelled"
<1> USE DEF SagaInv, FollowInv
<1>1. UNCHANGED <<settled, attemptVars, commitment, runVars, payVars>>
  BY CancelLeaves DEF CancelStep, CancelNext, RequestEvaluate, RequestInsert, Reject, Approve, Recover,
     ApplyStep, ApplyToBooking, ReleaseInventory, AuthorizeRefund, CloseRequest, CrashApply,
     ExecuteRefund, RefundAnswered, CrashExecution, tables, bookingVars, holdVars
<1>2. /\ holdState' # holdState => commitment # None
      /\ bookingState' # bookingState =>
           /\ bookingState' = "Cancelled"
           /\ \E p \in Approvers : applyAt[p] = "Apply" /\ SeenBooking(p).state = "Confirmed"
  BY DEF CancelStep, CancelNext, RequestEvaluate, RequestInsert, Reject, Approve, Recover,
     ApplyStep, ApplyToBooking, ReleaseInventory, AuthorizeRefund, CloseRequest, CrashApply,
     ExecuteRefund, RefundAnswered, CrashExecution, tables, bookingVars, holdVars
<1>3. ASSUME NEW p \in Approvers, applyAt[p] = "Apply", SeenBooking(p).state = "Confirmed"
      PROVE  bookingState = "Confirmed"
  BY <1>3 DEF CancelInv, ApproverHolds, Deciding, SeenBooking
<1>4. bookingState' # bookingState => bookingState = "Confirmed" /\ bookingState' = "Cancelled"
  BY <1>2, <1>3
<1>5. SeatLost => SeatLost'
  BY <1>1, <1>2 DEF SeatLost, attemptVars
<1>6. ASSUME NEW w \in Webhooks PROVE HookAlone(w)'
  BY <1>1, <1>4 DEF ConfirmInv, HookAlone, Settling, Busy, payVars, hookVars, runVars, PaidFor
<1>7. \A r \in Runs : Busy(r) => bookingState' = bookingState
  BY <1>4 DEF ConfirmInv, SeatFollows
<1>8. ASSUME NEW r \in Runs PROVE RunHolds(r)'
  BY <1>1, <1>5, <1>7 DEF ConfirmInv, RunHolds, Busy, runVars
<1>9. SeatFollows'
  BY <1>1, <1>4, <1>5 DEF ConfirmInv, SeatFollows, Busy, runVars, PaidFor
<1> QED
  BY <1>1, <1>4, <1>6, <1>8, <1>9 DEF ConfirmInv, SucceededIsSettled, attemptVars

LEMMA CountsMoney == Cardinality(SettledAttempts) > 0 <=> SettledAttempts # {}
<1>1. IsFiniteSet(SettledAttempts)
  BY AttemptsAssumption, FS_Subset DEF SettledAttempts
<1> QED
  BY <1>1, FS_EmptySet, FS_CardinalityType

LEMMA RequestFollows ==
  ASSUME SagaInv,
         \/ \E q \in Requesters, entitled \in BOOLEAN : RequestEvaluate(q, entitled)
         \/ \E q \in Requesters, c \in Cancellations : RequestInsert(q, c)
         \/ \E c \in Cancellations : Reject(c)
  PROVE  CancelInv'
<1> USE DEF SagaInv, FollowInv, CancelInv, CheckoutInv, TypeOK, CancelTypeOK
<1>1. /\ UNCHANGED <<tables, cancelledBy, releasedBy, refundVars, applyVars>>
      /\ UNCHANGED <<bookingState, settledAt, refundState, refundAttempt, applyAt, applying, loaded>>
  BY DEF RequestEvaluate, RequestInsert, Reject, tables, bookingVars, attemptVars, refundVars,
     applyVars
<1>2. CASE \E q \in Requesters, entitled \in BOOLEAN : RequestEvaluate(q, entitled)
  <2> PICK q \in Requesters, entitled \in BOOLEAN : RequestEvaluate(q, entitled)
    BY <1>2
  <2>1. UNCHANGED <<requestState, snapshot>>
    BY DEF RequestEvaluate, requestVars
  <2>2. \A p \in Requesters : asking'[p] # None /\ asking'[p].entitled => asking'[p].settled > 0
    BY CountsMoney DEF RequestEvaluate
  <2> QED
    BY <1>1, <2>1, <2>2 DEF ApproverHolds, Deciding, RequestHolds, Active
<1>3. CASE \E q \in Requesters, c \in Cancellations : RequestInsert(q, c)
  <2> PICK q \in Requesters, c \in Cancellations : RequestInsert(q, c)
    BY <1>3
  <2>1. \A p \in Requesters : asking'[p] # None => asking'[p] = asking[p]
    BY DEF RequestInsert
  <2>2. CASE Active # {}
    BY <1>1, <2>1, <2>2 DEF RequestInsert, requestVars, ApproverHolds, Deciding, RequestHolds, Active
  <2>3. CASE Active = {}
    <3>1. /\ requestState' = [requestState EXCEPT ![c] = "Requested"]
          /\ snapshot' = [snapshot EXCEPT ![c] = asking[q]]
          /\ asking[q] # None /\ requestState[c] = "Absent"
      BY <2>3 DEF RequestInsert
    <3>2. \A d \in Cancellations : requestState[d] \notin ActiveCancellationStates
      BY <2>3 DEF Active
    <3>3. \A p \in Approvers : ~Deciding(p)
      BY <3>2 DEF ApproverHolds, ActiveCancellationStates
    <3>4. \A p \in Approvers : ApproverHolds(p)'
      BY <1>1, <3>3 DEF ApproverHolds, Deciding
    <3>5. ASSUME NEW d \in Cancellations PROVE RequestHolds(d)'
      <4>1. Active' = {c}
        BY <3>1, <3>2 DEF Active, ActiveCancellationStates
      <4>2. /\ requestState'[d] # "Absent" => snapshot'[d] # None
            /\ snapshot'[d] # None /\ snapshot'[d].entitled => snapshot'[d].settled > 0
        BY <3>1 DEF RequestHolds
      <4>3. requestState'[d] = "Applied" => requestState[d] = "Applied"
        BY <3>1
      <4> QED
        BY <1>1, <4>1, <4>2, <4>3 DEF RequestHolds
    <3> QED
      BY <1>1, <2>1, <3>4, <3>5
  <2> QED
    BY <2>2, <2>3
<1>4. CASE \E c \in Cancellations : Reject(c)
  <2> PICK c \in Cancellations : Reject(c)
    BY <1>4
  <2>1. /\ requestState' = [requestState EXCEPT ![c] = "Rejected"] /\ UNCHANGED <<snapshot, asking>>
        /\ requestState[c] = "Requested"
    BY DEF Reject, Decide
  <2>2. ASSUME NEW p \in Approvers PROVE ApproverHolds(p)'
    BY <1>1, <2>1 DEF ApproverHolds, Deciding
  <2>3. ASSUME NEW d \in Cancellations PROVE RequestHolds(d)'
    BY <1>1, <2>1 DEF RequestHolds, Active, ActiveCancellationStates
  <2> QED
    BY <1>1, <2>1, <2>2, <2>3
<1> QED
  BY <1>2, <1>3, <1>4

(* The active request of a booking is the one, so whoever takes it up finds
   nobody deciding. *)
LEMMA DecisionFollows ==
  ASSUME SagaInv, NEW p \in Approvers, NEW c \in Cancellations, Approve(p, c) \/ Recover(p, c)
  PROVE  CancelInv'
<1> USE DEF SagaInv, FollowInv, CancelInv, CheckoutInv, TypeOK, CancelTypeOK
<1>1. /\ UNCHANGED <<bookingState, settledAt, cancelledBy, releasedBy, refundState, refundAttempt,
                     snapshot, asking>>
      /\ requestState' = [requestState EXCEPT ![c] = "Approved"]
      /\ requestState[c] \in {"Requested", "Exception"}
      /\ applyAt' = [applyAt EXCEPT ![p] = "Apply"]
      /\ applying' = [applying EXCEPT ![p] = c]
      /\ loaded'[p] \in {None, [state |-> bookingState, by |-> cancelledBy]}
  BY DEF Approve, Recover, Decide, StartApply, tables, bookingVars, attemptVars, refundVars
<1>2. \A q \in Approvers : ~Deciding(q)
  <2> SUFFICES ASSUME NEW q \in Approvers, Deciding(q) PROVE FALSE
    OBVIOUS
  <2>1. applying[q] \in Active /\ requestState[applying[q]] \in {"Approved", "Applying"}
    BY DEF ApproverHolds, Active, ActiveCancellationStates
  <2>2. c \in Active
    BY <1>1 DEF Active, ActiveCancellationStates
  <2> QED
    BY <1>1, <2>1, <2>2 DEF RequestHolds
<1>3. ASSUME NEW q \in Approvers PROVE ApproverHolds(q)'
  <2>1. \A s \in Approvers : Deciding(s)' => s = p
    BY <1>1, <1>2 DEF Deciding
  <2> QED
    BY <1>1, <2>1 DEF ApproverHolds
<1>4. ASSUME NEW d \in Cancellations PROVE RequestHolds(d)'
  <2>1. Active' = Active
    BY <1>1 DEF Active, ActiveCancellationStates
  <2> QED
    BY <1>1, <2>1 DEF RequestHolds
<1> QED
  BY <1>1, <1>3, <1>4

(* The one approver there is moves its request on, from one stage to the next
   or to the end. *)
LEMMA OneApprover ==
  ASSUME SagaInv, NEW p \in Approvers, Deciding(p),
         UNCHANGED <<settledAt, asking, snapshot>>,
         StopApply(p) \/ \E to \in {"Release", "Refund", "Complete", "Except"} : Step(p, to)
  PROVE  /\ applying[p] \in Cancellations
         /\ \A q \in Approvers : Deciding(q)' => q = p
         /\ StopApply(p) => \A q \in Approvers : ApproverHolds(q)'
         /\ \A to \in {"Release", "Refund", "Complete", "Except"} :
              Step(p, to) => applyAt'[p] = to /\ applying' = applying /\ loaded' = loaded
<1> USE DEF SagaInv, FollowInv, CancelInv, CheckoutInv, TypeOK, CancelTypeOK
<1>1. applying[p] \in Cancellations /\ \A q \in Approvers : Deciding(q) => q = p
  BY DEF ApproverHolds
<1>2. \A q \in Approvers : Deciding(q)' => q = p
  BY <1>1 DEF Deciding, StopApply, Step
<1>3. StopApply(p) => \A q \in Approvers : ~Deciding(q)'
  BY <1>2 DEF Deciding, StopApply
<1>4. StopApply(p) => \A q \in Approvers : ApproverHolds(q)'
  BY <1>3 DEF ApproverHolds
<1> QED
  BY <1>1, <1>2, <1>4 DEF Step

LEMMA ApplyFollows ==
  ASSUME SagaInv, NEW p \in Approvers, ApplyToBooking(p)
  PROVE  CancelInv'
<1> DEFINE c == applying[p]
<1> USE DEF SagaInv, FollowInv, CancelInv, CheckoutInv, TypeOK, CancelTypeOK
<1>1. /\ UNCHANGED <<snapshot, settledAt, asking, releasedBy, refundState, refundAttempt>>
      /\ applyAt[p] = "Apply" /\ Deciding(p)
      /\ StopApply(p) \/ Step(p, "Release")
  BY DEF ApplyToBooking, Deciding, attemptVars, refundVars
<1>2. /\ c \in Cancellations /\ requestState[c] = "Approved"
      /\ \A q \in Approvers : Deciding(q)' => q = p
      /\ StopApply(p) => \A q \in Approvers : ApproverHolds(q)'
      /\ Step(p, "Release") => applyAt'[p] = "Release" /\ applying' = applying
  BY <1>1, OneApprover DEF ApproverHolds
<1>3. CASE /\ Step(p, "Release")
           /\ requestState' = [requestState EXCEPT ![c] = "Applying"]
           /\ bookingState' = "Cancelled" /\ cancelledBy' = c
           /\ bookingState = "Confirmed" \/ cancelledBy' = cancelledBy
  <2>1. \A q \in Approvers : ApproverHolds(q)'
    BY <1>2, <1>3 DEF ApproverHolds
  <2>2. Active' = Active
    BY <1>2, <1>3 DEF Active, ActiveCancellationStates
  <2>3. ASSUME NEW d \in Cancellations PROVE RequestHolds(d)'
    <3>1. refundState[d] # "Absent" => cancelledBy' = d /\ releasedBy = d
      BY <1>3, CancellationAssumption DEF RequestHolds
    <3>2. /\ requestState'[d] # "Absent" => snapshot[d] # None
          /\ requestState'[d] = "Applied" => refundState[d] # "Absent"
      BY <1>2, <1>3 DEF RequestHolds
    <3> QED
      BY <1>1, <2>2, <3>1, <3>2 DEF RequestHolds
  <2> QED
    BY <1>1, <1>3, <2>1, <2>3
<1>4. CASE StopApply(p) /\ UNCHANGED <<requestState, bookingState, cancelledBy>>
  <2>1. ASSUME NEW d \in Cancellations PROVE RequestHolds(d)'
    BY <1>1, <1>4 DEF RequestHolds, Active
  <2> QED
    BY <1>1, <1>2, <1>4, <2>1
<1>5. /\ SeenBooking(p).state = "Confirmed" => bookingState = "Confirmed"
      /\ SeenBooking(p) = [state |-> "Cancelled", by |-> c] =>
           bookingState = "Cancelled" /\ cancelledBy = c
  <2>1. loaded[p] # None /\ loaded[p].state \in {"Confirmed", "Cancelled"} =>
          loaded[p] = [state |-> bookingState, by |-> cancelledBy]
    BY <1>1 DEF ApproverHolds
  <2> QED
    BY <2>1 DEF SeenBooking
<1> QED
  BY <1>3, <1>4, <1>5 DEF ApplyToBooking

LEMMA ReleaseFollows ==
  ASSUME SagaInv, NEW p \in Approvers, ReleaseInventory(p)
  PROVE  CancelInv'
<1> DEFINE c == applying[p]
<1> USE DEF SagaInv, FollowInv, CancelInv, CheckoutInv, TypeOK, CancelTypeOK
<1>1. /\ UNCHANGED <<bookingState, snapshot, settledAt, asking, requestState, cancelledBy,
                     refundState, refundAttempt>>
      /\ applyAt[p] = "Release" /\ Deciding(p)
      /\ releasedBy' = releasedBy \/ (releasedBy = None /\ releasedBy' = c)
      /\ Step(p, IF releasedBy' = c THEN "Refund" ELSE "Except")
  BY DEF ReleaseInventory, Deciding, bookingVars, attemptVars, requestVars, refundVars
<1>2. /\ c \in Cancellations /\ requestState[c] = "Applying"
      /\ bookingState = "Cancelled" /\ cancelledBy = c
      /\ \A q \in Approvers : Deciding(q)' => q = p
      /\ applyAt'[p] \in {"Refund", "Except"} /\ applying' = applying
      /\ applyAt'[p] = "Refund" => releasedBy' = c
  BY <1>1, OneApprover DEF ApproverHolds
<1>3. \A q \in Approvers : ApproverHolds(q)'
  BY <1>1, <1>2 DEF ApproverHolds
<1>4. ASSUME NEW d \in Cancellations PROVE RequestHolds(d)'
  BY <1>1, CancellationAssumption DEF RequestHolds, Active
<1> QED
  BY <1>1, <1>2, <1>3, <1>4

(* The refund is authorised for the attempts that are settled, and these are as
   many as entitled to it. *)
LEMMA RefundFollows ==
  ASSUME SagaInv, NEW p \in Approvers, AuthorizeRefund(p)
  PROVE  CancelInv'
<1> DEFINE c == applying[p]
<1> USE DEF SagaInv, FollowInv, CancelInv, CheckoutInv, TypeOK, CancelTypeOK
<1>1. /\ UNCHANGED <<bookingState, snapshot, settledAt, asking, requestState, cancelledBy,
                     releasedBy>>
      /\ applyAt[p] = "Refund" /\ Deciding(p)
      /\ \E to \in {"Complete", "Except"} : Step(p, to)
  BY DEF AuthorizeRefund, Deciding, tables, bookingVars, attemptVars, requestVars
<1>2. /\ c \in Cancellations /\ requestState[c] = "Applying" /\ snapshot[c] # None
      /\ bookingState = "Cancelled" /\ cancelledBy = c /\ releasedBy = c
      /\ \A q \in Approvers : Deciding(q)' => q = p
      /\ applyAt'[p] \in {"Complete", "Except"} /\ applying' = applying
  BY <1>1, OneApprover DEF ApproverHolds, RequestHolds
<1>3. /\ \A d \in Cancellations \ {c} :
           refundState'[d] = refundState[d] /\ refundAttempt'[d] = refundAttempt[d]
      /\ refundState[c] # "Absent" => UNCHANGED refundVars
      /\ applyAt'[p] = "Complete" => refundState'[c] # "Absent"
  BY <1>1, <1>2, OneApprover DEF AuthorizeRefund, refundVars, Step
<1>4. ASSUME refundState'[c] \notin {"Absent", "NotRequired"}
      PROVE  refundAttempt'[c] # None /\ settledAt[refundAttempt'[c]] # None
  <2>1. CASE UNCHANGED refundVars
    BY <1>2, <1>4, <2>1 DEF RequestHolds, refundVars
  <2>2. CASE ~UNCHANGED refundVars
    <3>1. /\ Cardinality(SettledAttempts) = snapshot[c].settled /\ snapshot[c].entitled
          /\ \E a \in IF SettledAttempts = {} THEN {None} ELSE SettledAttempts :
               refundAttempt' = [refundAttempt EXCEPT ![c] = a]
      BY <1>2, <1>4, <2>2 DEF AuthorizeRefund
    <3>2. SettledAttempts # {}
      BY <1>2, <3>1, CountsMoney DEF RequestHolds
    <3>3. refundAttempt'[c] \in SettledAttempts
      BY <1>2, <3>1, <3>2
    <3> QED
      BY <3>3, NoneAssumption DEF SettledAttempts, SucceededIsSettled
  <2> QED
    BY <2>1, <2>2
<1>5. \A q \in Approvers : ApproverHolds(q)'
  BY <1>1, <1>2, <1>3 DEF ApproverHolds
<1>6. ASSUME NEW d \in Cancellations PROVE RequestHolds(d)'
  <2>1. CASE d = c
    BY <1>1, <1>2, <1>4, <2>1 DEF RequestHolds, Active
  <2>2. CASE d # c
    BY <1>1, <1>3, <2>2 DEF RequestHolds, Active
  <2> QED
    BY <2>1, <2>2
<1> QED
  BY <1>1, <1>5, <1>6

LEMMA CloseFollows ==
  ASSUME SagaInv, NEW p \in Approvers, CloseRequest(p) \/ CrashApply(p)
  PROVE  CancelInv'
<1> DEFINE c == applying[p]
<1> USE DEF SagaInv, FollowInv, CancelInv, CheckoutInv, TypeOK, CancelTypeOK
<1>1. /\ UNCHANGED <<bookingState, snapshot, settledAt, asking, cancelledBy, releasedBy,
                     refundState, refundAttempt>>
      /\ Deciding(p) /\ StopApply(p)
      /\ \/ requestState' = requestState
         \/ /\ applyAt[p] \in {"Complete", "Except"}
            /\ requestState' = [requestState EXCEPT ![c] =
                                  IF applyAt[p] = "Complete" THEN "Applied" ELSE "Exception"]
  BY DEF CloseRequest, CrashApply, Deciding, tables, bookingVars, attemptVars, requestVars, refundVars
<1>2. /\ c \in Cancellations /\ \A q \in Approvers : ApproverHolds(q)'
      /\ applyAt[p] \in {"Complete", "Except"} => requestState[c] = "Applying"
      /\ applyAt[p] = "Complete" => refundState[c] # "Absent"
  BY <1>1, OneApprover DEF ApproverHolds
<1>3. ASSUME NEW d \in Cancellations PROVE RequestHolds(d)'
  <2>1. Active' \subseteq Active
    BY <1>1, <1>2 DEF Active, ActiveCancellationStates
  <2>2. /\ requestState'[d] # "Absent" => requestState[d] # "Absent"
        /\ requestState'[d] = "Applied" => refundState[d] # "Absent"
    BY <1>1, <1>2 DEF RequestHolds
  <2> QED
    BY <1>1, <2>1, <2>2 DEF RequestHolds
<1> QED
  BY <1>1, <1>2, <1>3

(* A refund is executed, and answered, as what it is for. *)
LEMMA ExecutionFollows ==
  ASSUME SagaInv, NEW x \in Executors,
         \/ \E c \in Cancellations : ExecuteRefund(x, c)
         \/ \E answer \in RefundAnswer : RefundAnswered(x, answer)
         \/ CrashExecution(x)
  PROVE  CancelInv'
<1> USE DEF SagaInv, FollowInv, CancelInv, CheckoutInv, TypeOK, CancelTypeOK
<1>1. UNCHANGED <<bookingState, snapshot, settledAt, asking, cancelledBy, releasedBy, requestState,
                  refundAttempt, applyAt, applying, loaded>>
  BY DEF ExecuteRefund, RefundAnswered, CrashExecution, tables, bookingVars, attemptVars,
     requestVars, applyVars, refundVars
<1>2. \A d \in Cancellations :
        \/ refundState'[d] = refundState[d]
        \/ refundState[d] \notin {"Absent", "NotRequired"} /\ refundState'[d] # "Absent"
  BY DEF ExecuteRefund, RefundAnswered, CrashExecution, Executable, RefundAnswer,
     OneExecutionPerRefund, refundVars
<1>3. ASSUME NEW d \in Cancellations PROVE RequestHolds(d)'
  BY <1>1, <1>2 DEF RequestHolds, Active
<1>4. ASSUME NEW q \in Approvers PROVE ApproverHolds(q)'
  BY <1>1, <1>2 DEF ApproverHolds, Deciding
<1> QED
  BY <1>1, <1>3, <1>4

LEMMA CancelFollows ==
  ASSUME SagaInv, CancelStep
  PROVE  FollowInv'
<1>1. ASSUME NEW p \in Approvers, ApplyStep(p) \/ CrashApply(p) PROVE CancelInv'
  BY <1>1, ApplyFollows, ReleaseFollows, RefundFollows, CloseFollows DEF ApplyStep
<1>2. CancelInv'
  BY <1>1, RequestFollows, DecisionFollows, ExecutionFollows DEF CancelStep, CancelNext
<1> QED
  BY <1>2, CancelConfirms DEF FollowInv
-----------------------------------------------------------------------------
LEMMA QuietFollows ==
  ASSUME SagaInv, UNCHANGED vars
  PROVE  FollowInv'
<1>1. UNCHANGED <<settledAt, settled, holdVars, runVars, hookVars, cancelVars, bookingState,
                  attemptState>>
  BY DEF vars, tables, bookingVars, attemptVars, payVars
<1> QED
  BY <1>1, AsideFollows

(* Every step keeps what the booking, its seat and its refund follow from, and
   none takes back what ended. *)
LEMMA FollowStep ==
  ASSUME SagaInv, [Next]_vars
  PROVE  /\ FollowInv'
         /\ \A a \in Attempts : attemptState[a] = "Succeeded" => attemptState'[a] = "Succeeded"
         /\ bookingState = "Confirmed" => bookingState' \in {"Confirmed", "Cancelled"}
         /\ bookingState = "Cancelled" => bookingState' = "Cancelled"
<1>1. CASE UNCHANGED vars
  BY <1>1, QuietFollows DEF vars, tables, bookingVars, attemptVars
<1>2. CASE HoldStep
  BY <1>2, HoldFollows, HoldLeaves DEF HoldStep, HoldNext, HoldLapses, HoldEnds, HoldReadByGet,
     HoldOverwrittenByGet, bookingVars, attemptVars
<1>3. CASE ConfirmationStep
  BY <1>3, ConfirmationFollows, ConfirmationLeaves DEF attemptVars
<1>4. CASE PaymentStep
  BY <1>4, PaymentFollows DEF Unpaid
<1>5. CASE CancelStep
  BY <1>5, CancelFollows, CancelConfirms DEF attemptVars
<1> QED
  BY <1>1, <1>2, <1>3, <1>4, <1>5 DEF Next

(* With initiations in turn the checkout never leaves SagaInv, whatever
   webhooks, retries, cancellations, refunds and deaths there are. *)
THEOREM SagaInvariant ==
  ASSUME InTurn
  PROVE  Spec => []SagaInv
<1>1. Init => SagaInv
  BY CheckoutInit, TurnInit, FollowInit DEF SagaInv
<1>2. SagaInv /\ [Next]_vars => SagaInv'
  BY CheckoutStep, TurnStep, FollowStep DEF SagaInv
<1> QED
  BY <1>1, <1>2, PTL DEF Spec

(* A confirmed booking keeps the seat of the attempt it names, one in
   ConfirmationException keeps no seat besides the money, and only a cancelled
   booking's seat is given up, for any number of requests of each kind. *)
THEOREM SeatFollowsBookingInTurn ==
  ASSUME InTurn
  PROVE  Spec => []SeatFollowsBooking
<1>1. SagaInv => SeatFollowsBooking
  <2> SUFFICES ASSUME SagaInv PROVE SeatFollowsBooking
    OBVIOUS
  <2> USE DEF SagaInv, FollowInv
  <2>1. bookingState = "Confirmed" => commitment # None /\ settled = commitment
    BY DEF CheckoutInv, BookingTrue, ConfirmInv, SeatFollows
  <2>2. bookingState = "ConfirmationException" => commitment = None
    BY DEF ConfirmInv, SeatFollows, SeatLost
  <2>3. releasedBy # None => bookingState = "Cancelled"
    BY DEF CancelInv
  <2> QED
    BY <2>1, <2>2, <2>3 DEF SeatFollowsBooking
<1> QED
  BY <1>1, SagaInvariant, PTL

(* Money is given back only for the request that cancelled the booking and
   released its seat, and for a payment that was settled, over any number of
   approvals, recoveries, executions and deaths. *)
THEOREM GivenBackTheorem ==
  ASSUME InTurn
  PROVE  Spec => []GivenBackInOrder
<1>1. SagaInv => GivenBackInOrder
  BY DEF SagaInv, FollowInv, CancelInv, RequestHolds, GivenBackInOrder
<1> QED
  BY <1>1, SagaInvariant, PTL

(* No event, retry, approval or slow request takes back a settled payment, a
   confirmation or a cancellation. *)
THEOREM NothingRegressesInTurn ==
  ASSUME InTurn
  PROVE  Spec => NothingRegresses
<1>1. SagaInv /\ [Next]_vars =>
        /\ [\A a \in Attempts : attemptState[a] = "Succeeded" => attemptState'[a] = "Succeeded"]_vars
        /\ [bookingState = "Confirmed" => bookingState' \in {"Confirmed", "Cancelled"}]_vars
        /\ [bookingState = "Cancelled" => bookingState' = "Cancelled"]_vars
  BY FollowStep
<1> QED
  BY <1>1, SagaInvariant, PTL DEF Spec, NothingRegresses, SettledAttemptStays, ConfirmedStays,
     CancelledStays
-----------------------------------------------------------------------------
(* The ledger of the booking: each step of the checkout is one entry or none. *)
LEMMA LedgerInit == Init => Book!Opened
BY DEF Init, TablesInit, CancelInit, Book!Opened, BookingStatus, SettledPayments, RefundDecision

(* A settled payment stays one, and there is never a second. *)
LEMMA OnePaymentEntered ==
  ASSUME SagaInv, SagaInv', [Next]_vars, SettledPayments' # SettledPayments
  PROVE  SettledPayments = {} /\ \E a \in Attempts : SettledPayments' = {a}
<1> USE DEF SagaInv
<1>1. \A a \in SettledPayments : a \in SettledPayments'
  BY FollowStep DEF SettledPayments, TurnInv, AttemptInv, FollowInv, SucceededIsSettled
<1>2. \A a, b \in SettledPayments' : a = b
  BY DEF SettledPayments, TurnInv, AttemptInv, OneLive, Live
<1>3. PICK a \in SettledPayments' : a \notin SettledPayments
  BY <1>1
<1>4. SettledPayments' = {a} /\ a \in Attempts
  BY <1>2, <1>3 DEF SettledPayments
<1> QED
  BY <1>1, <1>3, <1>4

LEMMA PaymentEntry ==
  ASSUME SagaInv, SagaInv', PaymentStep
  PROVE  [Book!Entry]_(Book!ledger)
<1> USE DEF SagaInv
<1>1. /\ UNCHANGED <<commitment, cancelledBy, releasedBy, refundState>>
      /\ bookingState' \in {bookingState, "PaymentInProgress", "PaymentFailed", "PaymentSucceeded"}
  BY DEF PaymentStep, PaymentNext, InitiationStep, InitiateReadBooking, InitiateCheck,
     InitiateFind, InitiateInsert, GatewayAnswers, GatewayUnavailable, FailureRead, FailureWrite,
     FailureProject, SessionRead, SessionWrite, SessionProject, CrashInitiation,
     ProviderAuthorizes, ProviderCaptures, ProviderDeclines, CallbackRead, CallbackWrite,
     WebhookReceive, WebhookProject, CrashWebhook, TryTransition, Projection,
     tables, bookingVars, holdVars, cancelVars, refundVars
<1>2. BookingStatus' = BookingStatus
  BY <1>1, PaymentFollows DEF BookingStatus, Unpaid
<1>3. RefundDecision' = RefundDecision
  BY <1>1 DEF RefundDecision
<1>4. CASE SettledPayments' = SettledPayments
  BY <1>1, <1>2, <1>3, <1>4 DEF Book!ledger
<1>5. CASE SettledPayments' # SettledPayments
  <2>1. PICK a \in Attempts : SettledPayments = {} /\ SettledPayments' = {a}
    BY <1>5, OnePaymentEntered DEF Next
  <2>2. BookingStatus = "open"
    BY <2>1 DEF SettledPayments, BookingStatus, CheckoutInv, BookingTrue, PaidFor
  <2>3. Book!Pay(a)
    BY <1>1, <1>2, <1>3, <2>1, <2>2 DEF Book!Pay
  <2> QED
    BY <2>3 DEF Book!Entry
<1> QED
  BY <1>4, <1>5

LEMMA ConfirmationEntry ==
  ASSUME SagaInv, SagaInv', ConfirmationStep
  PROVE  [Book!Entry]_(Book!ledger)
<1> USE DEF SagaInv, FollowInv
<1>1. /\ UNCHANGED <<settledAt, cancelledBy, releasedBy, refundState>>
      /\ UNCHANGED commitment \/ UNCHANGED bookingState
      /\ bookingState' \in {bookingState, "Confirming", "Confirmed", "ConfirmationException"}
      /\ commitment' \in {commitment} \cup Attempts
  BY ConfirmationLeaves DEF ConfirmationStep, ConfirmationNext, RetryConfirmation, RunStep, CrashRun,
     ReturnAtOnce, RefuseForeignAttempt, BeginConfirmation, CommitSeat, FinishConfirmation, Save,
     tables, attemptVars, bookingVars, holdVars, cancelVars, refundVars,
     CheckoutInv, TypeOK, RunsTypeOK
<1>2. SettledPayments' = SettledPayments /\ RefundDecision' = RefundDecision
  BY <1>1 DEF SettledPayments, RefundDecision
<1>3. CASE commitment' # commitment
  <2>1. commitment = None /\ commitment' \in Attempts /\ bookingState' = bookingState
    <3>1. [commitment # None => commitment' = commitment]_vars
      BY CommitmentStep DEF Next
    <3>2. commitment = None
      BY <1>3, <3>1 DEF vars, tables, holdVars
    <3> QED
      BY <1>1, <1>3, <3>2
  <2>2. commitment' \in SettledPayments
    BY <1>2, <2>1, NoneAssumption DEF CheckoutInv, BookingTrue, SettledPayments, Settlement
  <2>3. BookingStatus' = BookingStatus /\ BookingStatus = "open"
    <3>1. bookingState \notin {"Confirmed", "Cancelled"}
      BY <2>1 DEF CheckoutInv, BookingTrue
    <3>2. bookingState' \in {"Confirming", "Confirmed", "Cancelled"}
      BY <2>1, NoneAssumption DEF ConfirmInv, SeatFollows
    <3> QED
      BY <2>1, <3>1, <3>2 DEF BookingStatus
  <2>4. Book!Sell(commitment')
    BY <1>1, <1>2, <2>1, <2>2, <2>3 DEF Book!Sell
  <2> QED
    BY <2>1, <2>4 DEF Book!Entry
<1>4. CASE commitment' = commitment /\ BookingStatus' = BookingStatus
  BY <1>1, <1>2, <1>4 DEF Book!ledger
<1>5. CASE commitment' = commitment /\ BookingStatus' # BookingStatus
  <2>1. /\ bookingState' # bookingState /\ bookingState \notin {"Confirmed", "Cancelled"}
        /\ bookingState' \in {"Confirming", "Confirmed", "ConfirmationException"}
    BY <1>1, <1>5, ConfirmationFollows DEF BookingStatus
  <2>2. CASE bookingState' = "Confirming"
    <3>1. bookingState = "ConfirmationException"
      BY <1>5, <2>1, <2>2 DEF BookingStatus
    <3>2. Book!TryAgain
      BY <1>1, <1>2, <1>5, <2>2, <3>1 DEF Book!TryAgain, BookingStatus
    <3> QED
      BY <3>2 DEF Book!Entry
  <2>3. CASE bookingState' = "Confirmed"
    <3>1. commitment # None /\ commitment \in SettledPayments
      BY <1>5, <2>3, NoneAssumption DEF CheckoutInv, BookingTrue, TypeOK, TablesTypeOK,
         SettledPayments, Settlement
    <3>2. BookingStatus = "open" /\ BookingStatus' = "confirmed"
      BY <2>1, <2>3, <3>1 DEF BookingStatus, ConfirmInv, SeatFollows
    <3>3. Book!Confirm
      BY <1>1, <1>2, <1>5, <3>1, <3>2 DEF Book!Confirm
    <3> QED
      BY <3>3 DEF Book!Entry
  <2>4. CASE bookingState' = "ConfirmationException"
    <3>1. commitment = None /\ SettledPayments # {}
      BY <1>2, <1>5, <2>4 DEF CheckoutInv, BookingTrue, PaidFor, SettledPayments, ConfirmInv,
         SeatFollows
    <3>2. BookingStatus = "open" /\ BookingStatus' = "exception"
      BY <2>1, <2>4 DEF BookingStatus
    <3>3. Book!PutAside
      BY <1>1, <1>2, <1>5, <3>1, <3>2 DEF Book!PutAside
    <3> QED
      BY <3>3 DEF Book!Entry
  <2> QED
    BY <2>1, <2>2, <2>3, <2>4
<1> QED
  BY <1>3, <1>4, <1>5

(* The transactions of a cancellation are three entries, made by one request. *)
LEMMA CancelEntry ==
  ASSUME SagaInv, SagaInv', CancelStep
  PROVE  [Book!Entry]_(Book!ledger)
<1> USE DEF SagaInv, FollowInv
<1>1. UNCHANGED <<settledAt, commitment>>
  BY CancelLeaves DEF attemptVars, CancelStep, CancelNext, RequestEvaluate, RequestInsert, Reject,
     Approve, Recover, ApplyStep, ApplyToBooking, ReleaseInventory, AuthorizeRefund, CloseRequest,
     CrashApply, ExecuteRefund, RefundAnswered, CrashExecution, tables, holdVars
<1>2. SettledPayments' = SettledPayments
  BY <1>1 DEF SettledPayments
<1>3. ASSUME NEW p \in Approvers, ApplyToBooking(p) PROVE [Book!Entry]_(Book!ledger)
  <2>1. /\ UNCHANGED <<releasedBy, refundState>> /\ applying[p] \in Cancellations
        /\ \/ UNCHANGED <<bookingState, cancelledBy>>
           \/ bookingState' = "Cancelled" /\ cancelledBy' = applying[p] /\ SeenBooking(p).state = "Confirmed"
    BY <1>3 DEF ApplyToBooking, refundVars, CancelInv, ApproverHolds, Deciding
  <2>2. RefundDecision' = RefundDecision
    BY <2>1 DEF RefundDecision
  <2>3. CASE UNCHANGED <<bookingState, cancelledBy>>
    BY <1>1, <1>2, <2>1, <2>2, <2>3 DEF Book!ledger, BookingStatus
  <2>4. CASE ~UNCHANGED <<bookingState, cancelledBy>>
    <3>1. bookingState = "Confirmed"
      BY <1>3, <2>1, <2>4 DEF ApplyToBooking, CancelInv, ApproverHolds, Deciding, SeenBooking
    <3>2. Book!Cancel(applying[p])
      BY <1>1, <1>2, <2>1, <2>2, <2>4, <3>1 DEF Book!Cancel, BookingStatus
    <3> QED
      BY <2>1, <3>2 DEF Book!Entry
  <2> QED
    BY <2>3, <2>4
<1>4. ASSUME NEW p \in Approvers, ReleaseInventory(p) PROVE [Book!Entry]_(Book!ledger)
  <2>1. /\ UNCHANGED <<bookingState, cancelledBy, refundState>>
        /\ releasedBy' = releasedBy \/ (releasedBy = None /\ releasedBy' = applying[p])
        /\ bookingState = "Cancelled" /\ cancelledBy = applying[p]
    BY <1>4 DEF ReleaseInventory, bookingVars, refundVars, CancelInv, ApproverHolds, Deciding
  <2>2. BookingStatus' = BookingStatus /\ BookingStatus = "cancelled" /\ RefundDecision' = RefundDecision
    BY <2>1 DEF BookingStatus, RefundDecision
  <2>3. UNCHANGED Book!ledger \/ Book!ReturnSeat
    BY <1>1, <1>2, <2>1, <2>2 DEF Book!ledger, Book!ReturnSeat
  <2> QED
    BY <2>3 DEF Book!Entry
<1>5. ASSUME NEW p \in Approvers, AuthorizeRefund(p) PROVE [Book!Entry]_(Book!ledger)
  <2> DEFINE c == applying[p]
  <2>1. /\ UNCHANGED <<bookingState, cancelledBy, releasedBy>>
        /\ c \in Cancellations /\ releasedBy = c
        /\ \/ refundState' = refundState
           \/ /\ refundState[c] = "Absent"
              /\ \E to \in {"Authorized", "NotRequired"} : refundState' = [refundState EXCEPT ![c] = to]
    BY <1>5 DEF AuthorizeRefund, tables, bookingVars, refundVars, CancelInv, ApproverHolds, Deciding
  <2>2. BookingStatus' = BookingStatus
    BY <2>1 DEF BookingStatus
  <2>3. CASE refundState' = refundState
    BY <1>1, <1>2, <2>1, <2>2, <2>3 DEF Book!ledger, RefundDecision
  <2>4. CASE refundState' # refundState
    <3>1. PICK to \in {"Authorized", "NotRequired"} : refundState' = [refundState EXCEPT ![c] = to]
      BY <2>1, <2>4
    <3> DEFINE due == IF to = "NotRequired" THEN "notDue" ELSE "due"
    <3>2. RefundDecision[c] = "none" /\ RefundDecision' = [RefundDecision EXCEPT ![c] = due]
      BY <2>1, <2>4, <3>1 DEF RefundDecision, CheckoutInv, TypeOK, CancelTypeOK
    <3>3. Book!GiveBack(c, due)
      BY <1>1, <1>2, <2>1, <2>2, <3>2 DEF Book!GiveBack
    <3> QED
      BY <2>1, <3>3 DEF Book!Entry
  <2> QED
    BY <2>3, <2>4
<1>6. ASSUME \/ \E x \in Executors, c \in Cancellations : ExecuteRefund(x, c)
             \/ \E x \in Executors, answer \in RefundAnswer : RefundAnswered(x, answer)
             \/ \E x \in Executors : CrashExecution(x)
      PROVE  UNCHANGED Book!ledger
  <2>1. /\ UNCHANGED <<bookingState, cancelledBy, releasedBy>>
        /\ \A d \in Cancellations :
             \/ refundState'[d] = refundState[d]
             \/ /\ refundState[d] \notin {"Absent", "NotRequired"}
                /\ refundState'[d] \notin {"Absent", "NotRequired"}
    BY <1>6 DEF ExecuteRefund, RefundAnswered, CrashExecution, Executable, RefundAnswer,
       OneExecutionPerRefund, refundVars, tables, bookingVars, CheckoutInv, TypeOK, CancelTypeOK
  <2>2. RefundDecision' = RefundDecision
    BY <2>1 DEF RefundDecision
  <2> QED
    BY <1>1, <1>2, <2>1, <2>2 DEF Book!ledger, BookingStatus
<1>7. ASSUME \/ \E q \in Requesters, entitled \in BOOLEAN : RequestEvaluate(q, entitled)
             \/ \E q \in Requesters, c \in Cancellations : RequestInsert(q, c)
             \/ \E c \in Cancellations : Reject(c)
             \/ \E p \in Approvers, c \in Cancellations : Approve(p, c) \/ Recover(p, c)
             \/ \E p \in Approvers : CloseRequest(p) \/ CrashApply(p)
      PROVE  UNCHANGED Book!ledger
  <2>1. UNCHANGED <<bookingState, cancelledBy, releasedBy, refundState>>
    BY <1>7 DEF RequestEvaluate, RequestInsert, Reject, Approve, Recover, CloseRequest, CrashApply,
       refundVars, tables, bookingVars
  <2> QED
    BY <1>1, <1>2, <2>1 DEF Book!ledger, BookingStatus, RefundDecision
<1> QED
  BY <1>3, <1>4, <1>5, <1>6, <1>7 DEF CancelStep, CancelNext, ApplyStep

LEMMA LedgerStep == SagaInv /\ SagaInv' /\ [Next]_vars => [Book!Entry]_(Book!ledger)
<1> SUFFICES ASSUME SagaInv, SagaInv', [Next]_vars PROVE [Book!Entry]_(Book!ledger)
  OBVIOUS
<1>1. CASE UNCHANGED vars \/ HoldStep
  <2>1. UNCHANGED <<bookingState, settledAt, commitment, cancelledBy, releasedBy, refundState>>
    BY <1>1 DEF vars, tables, bookingVars, attemptVars, holdVars, cancelVars, refundVars, HoldStep,
       HoldNext, HoldLapses, HoldEnds, HoldReadByGet, HoldOverwrittenByGet
  <2> QED
    BY <2>1 DEF Book!ledger, BookingStatus, SettledPayments, RefundDecision
<1> QED
  BY <1>1, PaymentEntry, ConfirmationEntry, CancelEntry DEF Next

(* With initiations in turn the checkout implements the booking's ledger: one
   payment, one seat for it, one confirmation, one cancellation, one return and
   one refund, in that order, for any number of requests that overlap and die. *)
THEOREM LedgerTheorem ==
  ASSUME InTurn
  PROVE  Spec => ImplementsLedger
BY LedgerInit, LedgerStep, SagaInvariant, PTL DEF Spec, ImplementsLedger, Book!Ledger
=============================================================================
