---------------------------- MODULE Confirmation ----------------------------
(***************************************************************************)
(* ConfirmationService.ProcessAsync: three transactions, each on one       *)
(* schema, that turn a settled payment into a committed seat and a         *)
(* confirmed booking.  It runs inside the webhook request that settled the *)
(* payment, or inside an operator's retry.                                 *)
(*                                                                         *)
(* The booking is read FOR UPDATE, but an entity the request already       *)
(* tracks is not refreshed by that query: a run started by a webhook works *)
(* on the copy TryTransitionAsync loaded, a retry on the row as it is.     *)
(* Saving writes only the columns whose value differs from the copy.       *)
(***************************************************************************)
EXTENDS CheckoutTables

CONSTANTS
  Webhooks,      \* concurrent webhook requests
  Retries        \* concurrent operator retries

Runs == Webhooks \cup Retries

VARIABLES
  runAt,         \* the transaction each run is about to make
  runAttempt,    \* the paymentAttemptId it was called with
  copy,          \* the tracked booking it starts from; None when not loaded
  found          \* attempt named by the commitment it found or made

runVars == <<runAt, runAttempt, copy, found>>

BookingCopy == [state : BookingState, settled : Attempts \cup {None}]

ASSUME CopyAssumption == None \notin BookingCopy

RunsInit ==
  /\ runAt = [r \in Runs |-> "Idle"]
  /\ runAttempt = [r \in Runs |-> None]
  /\ copy = [r \in Runs |-> None]
  /\ found = [r \in Runs |-> None]

RunsTypeOK ==
  /\ runAt \in [Runs -> {"Idle", "Begin", "Commit", "Finish"}]
  /\ runAttempt \in [Runs -> Attempts \cup {None}]
  /\ copy \in [Runs -> BookingCopy \cup {None}]
  /\ found \in [Runs -> Attempts \cup {None}]
  /\ \A r \in Runs : runAt[r] # "Idle" => runAttempt[r] \in Attempts

(* Mutant of Call: the settled payment is not handed on. *)
CallForgotten(r, a, c) == UNCHANGED runVars

(* ProcessAsync is called in r with attempt a and the tracked booking c *)
Call(r, a, c) ==
  /\ runAt' = [runAt EXCEPT ![r] = "Begin"]
  /\ runAttempt' = [runAttempt EXCEPT ![r] = a]
  /\ copy' = [copy EXCEPT ![r] = c]
  /\ UNCHANGED found

Return(r) ==
  /\ runAt' = [runAt EXCEPT ![r] = "Idle"]
  /\ runAttempt' = [runAttempt EXCEPT ![r] = None]
  /\ copy' = [copy EXCEPT ![r] = None]
  /\ found' = [found EXCEPT ![r] = None]

(* the booking entity as r sees it under the row lock *)
Seen(r) ==
  IF copy[r] = None THEN [state |-> bookingState, settled |-> settled] ELSE copy[r]

(* Mutant of Save: the entity is not tracked, so nothing is written. *)
SaveUntracked(column, old, new) == column

(* column value after saving `new' over an entity loaded with `old' *)
Save(column, old, new) == IF old = new THEN column ELSE new
-----------------------------------------------------------------------------
(* POST .../confirmation/retry.  The booking is read without a lock and not
   tracked; the audit message is saved before ProcessAsync is called. *)
RetryConfirmation(r) ==
  /\ r \in Retries /\ runAt[r] = "Idle"
  /\ bookingState = "ConfirmationException"
  /\ settled # None
  /\ Call(r, settled, None)
  /\ UNCHANGED tables

(* The payment is not settled any more, or the booking is seen confirmed. *)
ReturnAtOnce(r) ==
  /\ runAt[r] = "Begin"
  /\ \/ attemptState[runAttempt[r]] # "Succeeded"
     \/ Seen(r).state = "Confirmed"
  /\ Return(r)
  /\ UNCHANGED tables

(* Another attempt already settled the booking: foreign_payment_attempt. *)
RefuseForeignAttempt(r) ==
  /\ runAt[r] = "Begin"
  /\ attemptState[runAttempt[r]] = "Succeeded"
  /\ Seen(r).state # "Confirmed"
  /\ Seen(r).settled \notin {None, runAttempt[r]}
  /\ bookingState' = Save(bookingState, Seen(r).state, "ConfirmationException")
  /\ Return(r)
  /\ UNCHANGED <<settled, attemptVars, holdVars>>

(* First transaction: Confirming, whatever the state was. *)
BeginConfirmation(r) ==
  LET a == runAttempt[r] IN
  /\ runAt[r] = "Begin"
  /\ attemptState[a] = "Succeeded"
  /\ Seen(r).state # "Confirmed"
  /\ Seen(r).settled \in {None, a}
  /\ bookingState' = Save(bookingState, Seen(r).state, "Confirming")
  /\ settled' = Save(settled, Seen(r).settled, a)
  /\ runAt' = [runAt EXCEPT ![r] = "Commit"]
  /\ copy' = [copy EXCEPT ![r] = [state |-> "Confirming", settled |-> a]]
  /\ UNCHANGED <<runAttempt, found, attemptVars, holdVars>>

(* Mutants of SeatFree: an existing commitment is made again; the moment of
   settlement is not compared with the hold's expiry. *)
SeatFreeAgain(a) == holdState \in {"Active", "Committed"} /\ settledAt[a] = "inTime"
SeatFreeWhenever(a) == commitment = None /\ holdState = "Active"

(* The hold is still active in the table, was never committed, and outlived
   the moment attempt a was settled. *)
SeatFree(a) == commitment = None /\ holdState = "Active" /\ settledAt[a] = "inTime"

(* Second transaction, under the hold row lock. *)
CommitSeat(r) ==
  LET a == runAttempt[r] IN
  /\ runAt[r] = "Commit"
  /\ commitment' = IF SeatFree(a) THEN a ELSE commitment
  /\ holdState' = IF SeatFree(a) THEN "Committed" ELSE holdState
  /\ found' = [found EXCEPT ![r] = commitment']
  /\ runAt' = [runAt EXCEPT ![r] = "Finish"]
  /\ UNCHANGED <<runAttempt, copy, bookingVars, attemptVars, lapsed, staleGet>>

(* Mutants of FinishConfirmation: Confirmed whatever was found; the clock is
   asked again. *)
FinishUnseated(r) ==
  /\ runAt[r] = "Finish"
  /\ bookingState' = "Confirmed"
  /\ Return(r)
  /\ UNCHANGED <<settled, attemptVars, holdVars>>
FinishUnlessLapsed(r) ==
  /\ runAt[r] = "Finish"
  /\ bookingState' = IF found[r] = runAttempt[r] /\ ~lapsed
                     THEN "Confirmed" ELSE "ConfirmationException"
  /\ Return(r)
  /\ UNCHANGED <<settled, attemptVars, holdVars>>

(* Third transaction.  The copy says Confirming since the first one, so the
   look for a booking that is already confirmed finds none. *)
FinishConfirmation(r) ==
  /\ runAt[r] = "Finish"
  /\ bookingState' = IF found[r] = runAttempt[r]
                     THEN "Confirmed" ELSE "ConfirmationException"
  /\ Return(r)
  /\ UNCHANGED <<settled, attemptVars, holdVars>>

(* The request dies between two transactions. *)
CrashRun(r) ==
  /\ MayCrash /\ runAt[r] # "Idle"
  /\ Return(r)
  /\ UNCHANGED tables

RunStep(r) ==
  \/ ReturnAtOnce(r) \/ RefuseForeignAttempt(r)
  \/ BeginConfirmation(r) \/ CommitSeat(r) \/ FinishConfirmation(r)

ConfirmationNext ==
  \/ \E r \in Retries : RetryConfirmation(r)
  \/ \E r \in Runs : RunStep(r) \/ CrashRun(r)
=============================================================================
