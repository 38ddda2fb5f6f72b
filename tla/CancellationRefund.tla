-------------------------- MODULE CancellationRefund --------------------------
(***************************************************************************)
(* CancellationRefundService: the customer's request with its entitlement  *)
(* snapshot, the operator's decision, and what an approval sets off in     *)
(* turn, one transaction per schema: the booking is cancelled, its seat    *)
(* released, a refund authorised, the request completed.  A failure on the *)
(* way parks the request in Exception, from which it can be recovered.     *)
(*                                                                         *)
(* Versions are left out: every write is made under the row lock after the *)
(* state was looked at, and a stale version only refuses the request.      *)
(***************************************************************************)
EXTENDS CheckoutTables, Integers, FiniteSets

CONSTANTS
  Cancellations,  \* identities cancellation requests may take
  Requesters,     \* concurrent POST .../cancellation-requests
  Approvers,      \* concurrent approvals and recoveries
  Executors       \* concurrent refund executions

ASSUME CancellationAssumption == None \notin Cancellations
ASSUME AttemptsAssumption == IsFiniteSet(Attempts)

VARIABLES
  requestState,   \* booking_cancellation_requests.State; "Absent" until inserted
  snapshot,       \* the entitlement stored with it
  cancelledBy,    \* bookings.CancellationRequestId
  releasedBy,     \* inventory_releases.CancellationRequestId of the commitment
  refundState,    \* refunds.State by request; "Absent" until inserted
  refundAttempt,  \* refunds.PaymentAttemptId
  asking,         \* the snapshot each requester has computed
  applyAt,        \* the transaction each approver is about to make
  applying,       \* the request it decides
  loaded,         \* the booking it tracks; None when not loaded
  executing       \* the refund each executor has sent to the provider

requestVars == <<requestState, snapshot>>
refundVars == <<refundState, refundAttempt>>
applyVars == <<applyAt, applying, loaded>>
cancelVars == <<requestVars, cancelledBy, releasedBy, refundVars, asking,
                applyVars, executing>>

BookingCancellationState ==
  {"Requested", "Approved", "Rejected", "Applying", "Applied", "Exception"}
ActiveCancellationStates == {"Requested", "Approved", "Applying", "Exception"}
RefundState ==
  {"NotRequired", "Authorized", "Processing", "PartiallyRefunded", "Refunded", "Failed"}

(* settled: how many attempts of the booking's price are settled; entitled:
   whether the policy leaves anything to refund *)
Snapshot == [settled : 0..Cardinality(Attempts), entitled : BOOLEAN]

SettledAttempts == {a \in Attempts : attemptState[a] = "Succeeded"}
Active == {c \in Cancellations : requestState[c] \in ActiveCancellationStates}

CancelInit ==
  /\ requestState = [c \in Cancellations |-> "Absent"]
  /\ snapshot = [c \in Cancellations |-> None]
  /\ cancelledBy = None
  /\ releasedBy = None
  /\ refundState = [c \in Cancellations |-> "Absent"]
  /\ refundAttempt = [c \in Cancellations |-> None]
  /\ asking = [q \in Requesters |-> None]
  /\ applyAt = [p \in Approvers |-> "Idle"]
  /\ applying = [p \in Approvers |-> None]
  /\ loaded = [p \in Approvers |-> None]
  /\ executing = [x \in Executors |-> None]

CancelTypeOK ==
  /\ requestState \in [Cancellations -> BookingCancellationState \cup {"Absent"}]
  /\ snapshot \in [Cancellations -> Snapshot \cup {None}]
  /\ cancelledBy \in Cancellations \cup {None}
  /\ releasedBy \in Cancellations \cup {None}
  /\ refundState \in [Cancellations -> RefundState \cup {"Absent"}]
  /\ refundAttempt \in [Cancellations -> Attempts \cup {None}]
  /\ asking \in [Requesters -> Snapshot \cup {None}]
  /\ applyAt \in [Approvers -> {"Idle", "Apply", "Release", "Refund", "Complete", "Except"}]
  /\ applying \in [Approvers -> Cancellations \cup {None}]
  /\ loaded \in [Approvers ->
                  [state : BookingState, by : Cancellations \cup {None}] \cup {None}]
  /\ executing \in [Executors -> Cancellations \cup {None}]
-----------------------------------------------------------------------------
(* CreateRequestAsync: the booking, the active request and the settled
   attempts are read without locks and the entitlement computed ... *)
RequestEvaluate(q, entitled) ==
  /\ asking[q] = None
  /\ bookingState = "Confirmed"
  /\ Active = {}
  /\ entitled => SettledAttempts # {}
  /\ asking' = [asking EXCEPT ![q] =
                  [settled |-> Cardinality(SettledAttempts), entitled |-> entitled]]
  /\ UNCHANGED <<tables, requestVars, cancelledBy, releasedBy, refundVars, applyVars, executing>>

(* ... and the request is inserted, unless the unique index on the active
   request of a booking refuses it. *)
RequestInsert(q, c) ==
  /\ asking[q] # None
  /\ requestState[c] = "Absent"
  /\ IF Active = {}
     THEN /\ requestState' = [requestState EXCEPT ![c] = "Requested"]
          /\ snapshot' = [snapshot EXCEPT ![c] = asking[q]]
     ELSE UNCHANGED requestVars
  /\ asking' = [asking EXCEPT ![q] = None]
  /\ UNCHANGED <<tables, cancelledBy, releasedBy, refundVars, applyVars, executing>>

Decide(c, from, to) ==
  /\ requestState[c] = from
  /\ requestState' = [requestState EXCEPT ![c] = to]
  /\ UNCHANGED snapshot

Reject(c) ==
  /\ Decide(c, "Requested", "Rejected")
  /\ UNCHANGED <<tables, cancelledBy, releasedBy, refundVars, asking, applyVars, executing>>

StartApply(p, c, l) ==
  /\ applyAt[p] = "Idle"
  /\ applyAt' = [applyAt EXCEPT ![p] = "Apply"]
  /\ applying' = [applying EXCEPT ![p] = c]
  /\ loaded' = [loaded EXCEPT ![p] = l]

(* The approval loads the booking, unlocked, for its outbox message, and so
   tracks it from here on; the recovery does not. *)
Approve(p, c) ==
  /\ Decide(c, "Requested", "Approved")
  /\ StartApply(p, c, [state |-> bookingState, by |-> cancelledBy])
  /\ UNCHANGED <<tables, cancelledBy, releasedBy, refundVars, asking, executing>>

Recover(p, c) ==
  /\ Decide(c, "Exception", "Approved")
  /\ StartApply(p, c, None)
  /\ UNCHANGED <<tables, cancelledBy, releasedBy, refundVars, asking, executing>>

StopApply(p) ==
  /\ applyAt' = [applyAt EXCEPT ![p] = "Idle"]
  /\ applying' = [applying EXCEPT ![p] = None]
  /\ loaded' = [loaded EXCEPT ![p] = None]

(* Mutants of Step: a failed release or refund is stepped over; the failure
   ends the request without a trace. *)
StepOver(p, to) ==
  /\ applyAt' = [applyAt EXCEPT ![p] = IF to = "Except" THEN "Refund" ELSE to]
  /\ UNCHANGED <<applying, loaded>>
StepOrStop(p, to) ==
  IF to = "Except" THEN StopApply(p)
  ELSE applyAt' = [applyAt EXCEPT ![p] = to] /\ UNCHANGED <<applying, loaded>>

Step(p, to) == applyAt' = [applyAt EXCEPT ![p] = to] /\ UNCHANGED <<applying, loaded>>

SeenBooking(p) ==
  IF loaded[p] = None THEN [state |-> bookingState, by |-> cancelledBy] ELSE loaded[p]

(* ApplyApprovedAsync, booking transaction.  Anything but a confirmed booking,
   or one this request cancelled before, answers 409 and leaves the request
   Approved. *)
ApplyToBooking(p) ==
  LET c == applying[p]
      seenBy == SeenBooking(p)
  IN
  /\ applyAt[p] = "Apply"
  /\ \/ /\ seenBy.state = "Confirmed"
        /\ bookingState' = "Cancelled"
        /\ cancelledBy' = c
        /\ requestState' = [requestState EXCEPT ![c] = "Applying"]
        /\ Step(p, "Release")
     \/ /\ seenBy = [state |-> "Cancelled", by |-> c]
        /\ requestState' = [requestState EXCEPT ![c] = "Applying"]
        /\ Step(p, "Release")
        /\ UNCHANGED <<bookingState, cancelledBy>>
     \/ /\ seenBy.state # "Confirmed"
        /\ seenBy # [state |-> "Cancelled", by |-> c]
        /\ StopApply(p)
        /\ UNCHANGED <<requestState, bookingState, cancelledBy>>
  /\ UNCHANGED <<snapshot, settled, attemptVars, holdVars, releasedBy, refundVars,
                 asking, executing>>

(* ReleaseInventoryAsync.  No commitment, a hold that is neither committed nor
   released, or a release recorded for another request: Exception. *)
ReleaseInventory(p) ==
  LET c == applying[p]
      possible == /\ commitment # None /\ releasedBy = None
                  /\ holdState \in {"Committed", "Released"}
  IN
  /\ applyAt[p] = "Release"
  /\ releasedBy' = IF possible THEN c ELSE releasedBy
  /\ holdState' = IF possible THEN "Released" ELSE holdState
  /\ Step(p, IF releasedBy' = c THEN "Refund" ELSE "Except")
  /\ UNCHANGED <<bookingVars, attemptVars, lapsed, staleGet, commitment, requestVars,
                 cancelledBy, refundVars, asking, executing>>

(* AuthorizeRefundAsync, for the attempt settled last *)
AuthorizeRefund(p) ==
  LET c == applying[p]
      reconciles == Cardinality(SettledAttempts) = snapshot[c].settled
  IN
  /\ applyAt[p] = "Refund"
  /\ \/ /\ refundState[c] # "Absent"
        /\ Step(p, "Complete")
        /\ UNCHANGED refundVars
     \/ /\ refundState[c] = "Absent" /\ reconciles
        /\ refundState' = [refundState EXCEPT ![c] =
                             IF snapshot[c].entitled THEN "Authorized" ELSE "NotRequired"]
        /\ \E a \in IF SettledAttempts = {} THEN {None} ELSE SettledAttempts :
             refundAttempt' = [refundAttempt EXCEPT ![c] = a]
        /\ Step(p, "Complete")
     \/ /\ refundState[c] = "Absent" /\ ~reconciles
        /\ Step(p, "Except")
        /\ UNCHANGED refundVars
  /\ UNCHANGED <<tables, requestVars, cancelledBy, releasedBy, asking, executing>>

(* Mutant of CloseRequest: the outcome of the steps is not looked at. *)
CloseApplied(p) ==
  /\ applyAt[p] \in {"Complete", "Except"}
  /\ requestState' = [requestState EXCEPT ![applying[p]] = "Applied"]
  /\ StopApply(p)
  /\ UNCHANGED <<tables, snapshot, cancelledBy, releasedBy, refundVars, asking, executing>>

(* The last transaction: the request is Applied, or Exception. *)
CloseRequest(p) ==
  /\ applyAt[p] \in {"Complete", "Except"}
  /\ requestState' = [requestState EXCEPT ![applying[p]] =
                        IF applyAt[p] = "Complete" THEN "Applied" ELSE "Exception"]
  /\ StopApply(p)
  /\ UNCHANGED <<tables, snapshot, cancelledBy, releasedBy, refundVars, asking, executing>>

CrashApply(p) ==
  /\ MayCrash /\ applyAt[p] # "Idle"
  /\ StopApply(p)
  /\ UNCHANGED <<tables, requestVars, cancelledBy, releasedBy, refundVars, asking, executing>>

(* Mutant of Executable: a refund under way may be executed again. *)
ExecutableAgain == {"Authorized", "Processing", "Failed"}

Executable == {"Authorized", "Failed"}

(* ExecuteRefundAsync: Processing is saved before the provider is called ... *)
ExecuteRefund(x, c) ==
  /\ executing[x] = None
  /\ refundState[c] \in Executable
  /\ paymentId[refundAttempt[c]] # None
  /\ refundState' = [refundState EXCEPT ![c] = "Processing"]
  /\ executing' = [executing EXCEPT ![x] = c]
  /\ UNCHANGED <<tables, requestVars, cancelledBy, releasedBy, refundAttempt, asking, applyVars>>

(* ... and its answer after.  Pending leaves the refund Processing. *)
RefundAnswered(x, answer) ==
  /\ executing[x] # None
  /\ refundState' = [refundState EXCEPT ![executing[x]] = answer]
  /\ executing' = [executing EXCEPT ![x] = None]
  /\ UNCHANGED <<tables, requestVars, cancelledBy, releasedBy, refundAttempt, asking, applyVars>>

CrashExecution(x) ==
  /\ MayCrash /\ executing[x] # None
  /\ executing' = [executing EXCEPT ![x] = None]
  /\ UNCHANGED <<tables, requestVars, cancelledBy, releasedBy, refundVars, asking, applyVars>>

(* Succeeded in full or in part, Pending, Failed, Unavailable *)
RefundAnswer == {"Refunded", "PartiallyRefunded", "Processing", "Failed", "Authorized"}

ApplyStep(p) ==
  ApplyToBooking(p) \/ ReleaseInventory(p) \/ AuthorizeRefund(p) \/ CloseRequest(p)

CancelNext ==
  \/ \E q \in Requesters, entitled \in BOOLEAN : RequestEvaluate(q, entitled)
  \/ \E q \in Requesters, c \in Cancellations : RequestInsert(q, c)
  \/ \E c \in Cancellations : Reject(c)
  \/ \E p \in Approvers, c \in Cancellations : Approve(p, c) \/ Recover(p, c)
  \/ \E p \in Approvers : ApplyStep(p) \/ CrashApply(p)
  \/ \E x \in Executors, c \in Cancellations : ExecuteRefund(x, c)
  \/ \E x \in Executors, answer \in RefundAnswer : RefundAnswered(x, answer)
  \/ \E x \in Executors : CrashExecution(x)
=============================================================================
