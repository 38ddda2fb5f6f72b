----------------------------- MODULE TravelPapers -----------------------------
(***************************************************************************)
(* The passport documents and the visa cases of a booking's travellers.    *)
(* A customer's page authorises an upload (which supersedes the earlier    *)
(* ones), puts the file and asks for it to be checked, once per upload; an *)
(* operator reviews what was checked; a visa case moves along VisaPolicy.  *)
(* Submissions and cases are saved under EF Core's comparison of their     *)
(* Version, which a review or a transition counts up and an upload and a   *)
(* check do not.                                                           *)
(***************************************************************************)
EXTENDS BookedParty, Sequences

CONSTANTS
  RequiredKinds,   \* DocumentPolicy.RequiredKinds
  Uploaders,       \* customer pages uploading
  Reviewers,       \* operators reviewing documents
  Officers         \* operators working on visa cases

Requirements == Travellers \X RequiredKinds

VARIABLES
  required,        \* requirement rows
  submissions,     \* the submissions of each requirement, oldest first
  upload,          \* what each customer page is in the middle of
  review,          \* the review each reviewer's request is about to save
  visa,            \* visa_cases.Status; "Absent" while there is no row
  visaVersion,     \* visa_cases.Version
  transition       \* the transition each officer's request is about to save

documentVars == <<required, submissions, upload, review>>
visaVars == <<visa, visaVersion, transition>>

Verdicts == {"Approved", "CorrectionRequired", "Rejected"}
Superseding == {"Superseded", "Deleted"}
MalwareStatus == {"Pending", "Safe", "Unsafe", "Indeterminate"}
Submission == [state : {"Quarantined", "UnderReview"} \cup Verdicts \cup Superseding,
               malware : MalwareStatus, version : Nat]

VisaStatus == {"NotStarted", "AwaitingDocuments", "ReadyToSubmit", "Submitted",
               "Processing", "Approved", "ActionRequired", "Rejected"}

(* Mutant of AllowedNext: a rejected case is taken up again. *)
AllowedNextAgain(status) ==
  CASE status = "NotStarted" -> {"AwaitingDocuments"}
    [] status = "AwaitingDocuments" -> {"ReadyToSubmit"}
    [] status = "ReadyToSubmit" -> {"Submitted"}
    [] status = "Submitted" -> {"Processing"}
    [] status = "Processing" -> {"Approved", "Rejected"}
    [] status \in {"Approved", "Rejected"} -> {"Processing"}
    [] OTHER -> {}

(* VisaPolicy.AllowedNext; nothing follows Approved and Rejected *)
AllowedNext(status) ==
  CASE status = "NotStarted" -> {"AwaitingDocuments"}
    [] status = "AwaitingDocuments" -> {"ReadyToSubmit"}
    [] status = "ReadyToSubmit" -> {"Submitted", "AwaitingDocuments"}
    [] status = "Submitted" -> {"Processing", "ActionRequired"}
    [] status = "Processing" -> {"Approved", "ActionRequired", "Rejected"}
    [] status = "ActionRequired" -> {"AwaitingDocuments", "ReadyToSubmit", "Submitted"}
    [] OTHER -> {}

(* The newest submission of requirement q is approved. *)
NewestApproved(q) ==
  /\ submissions[q] # <<>>
  /\ submissions[q][Len(submissions[q])].state = "Approved"

RequirementsOf(t) == {q \in required : q[1] = t}

(* readiness as the customer page, the manifest and the handover compute it *)
DocumentsReady(t) ==
  RequirementsOf(t) # {} /\ \A q \in RequirementsOf(t) : NewestApproved(q)

(* readiness as a visa transition computes it: from the submissions there are,
   grouped by requirement, so a requirement without any is not asked for *)
DocumentsReadyForVisa(t) ==
  /\ RequirementsOf(t) # {}
  /\ \A q \in RequirementsOf(t) : submissions[q] # <<>> => NewestApproved(q)

Upload == [requirement : Requirements, at : {"replacing", "checking", "scanned"},
           olds : SUBSET (Nat \X Nat), item : Nat, version : Nat]
Review == [requirement : Requirements, item : Nat, version : Nat, verdict : Verdicts]
Transition == [traveller : Travellers, version : Nat, next : VisaStatus,
               at : {"documents", "save"}]

(* Nothing was opened yet, or the documents of `prepared' are all approved and
   their visa cases are, after four or five transitions, in `status' *)
PapersInit(prepared, status) ==
  /\ required = prepared \X RequiredKinds
  /\ submissions = [q \in Requirements |->
       IF q[1] \in prepared
         THEN <<[state |-> "Approved", malware |-> "Safe", version |-> 1]>> ELSE <<>>]
  /\ upload = [c \in Uploaders |-> None]
  /\ review = [v \in Reviewers |-> None]
  /\ visa = [t \in Travellers |-> IF t \in prepared THEN status ELSE "Absent"]
  /\ visaVersion = [t \in Travellers |->
       IF t \notin prepared THEN 0 ELSE IF status = "Approved" THEN 5 ELSE 4]
  /\ transition = [v \in Officers |-> None]

PapersTypeOK ==
  /\ required \subseteq Requirements
  /\ submissions \in [Requirements -> Seq(Submission)]
  /\ upload \in [Uploaders -> Upload \cup {None}]
  /\ review \in [Reviewers -> Review \cup {None}]
  /\ visa \in [Travellers -> VisaStatus \cup {"Absent"}]
  /\ visaVersion \in [Travellers -> Nat]
  /\ transition \in [Officers -> Transition \cup {None}]
-----------------------------------------------------------------------------
(* The customer's first look makes the requirements of the party of that
   moment; as soon as there is one, nobody's are made any more. *)
OpenDocuments ==
  /\ bookingState = "Confirmed"
  /\ required = {}
  /\ Spend("open")
  /\ required' = party \X RequiredKinds
  /\ UNCHANGED <<submissions, upload, review, visaVars>>

(* POST .../requirements/{q}/uploads: the live submissions are read *)
StartUpload(c, q) ==
  /\ upload[c] = None
  /\ bookingState = "Confirmed"
  /\ q \in required
  /\ Spend("upload")
  /\ upload' = [upload EXCEPT ![c] =
       [requirement |-> q, at |-> "replacing", item |-> 0, version |-> 0,
        olds |-> {<<i, submissions[q][i].version>> :
                  i \in {j \in DOMAIN submissions[q] : submissions[q][j].state \notin Superseding}}]]
  /\ UNCHANGED <<required, submissions, review, visaVars>>

(* and superseded together with the insertion of the new one; a single one
   whose version is another by now makes the whole save fail *)
SaveUpload(c) ==
  LET u == upload[c]
      q == u.requirement
      old == {x[1] : x \in u.olds}
      saves == \A x \in u.olds : submissions[q][x[1]].version = x[2]
      replaced == [i \in DOMAIN submissions[q] |->
        IF i \in old THEN [submissions[q][i] EXCEPT !.state = "Superseded"] ELSE submissions[q][i]]
  IN
  /\ upload[c] # None /\ u.at = "replacing"
  /\ IF saves
       THEN /\ submissions' = [submissions EXCEPT ![q] =
                 Append(replaced, [state |-> "Quarantined", malware |-> "Pending", version |-> 0])]
            /\ upload' = [upload EXCEPT ![c] =
                 [u EXCEPT !.at = "checking", !.olds = {}, !.item = Len(submissions[q]) + 1]]
       ELSE /\ UNCHANGED submissions
            /\ upload' = [upload EXCEPT ![c] = None]
  /\ UNCHANGED <<left, required, review, visaVars>>

(* POST .../submissions/{s}/complete: the submission is read *)
CheckUpload(c) ==
  LET u == upload[c] IN
  /\ upload[c] # None /\ u.at = "checking"
  /\ upload' = [upload EXCEPT ![c] =
       IF /\ bookingState = "Confirmed"
          /\ submissions[u.requirement][u.item].state = "Quarantined"
         THEN [u EXCEPT !.at = "scanned", !.version = submissions[u.requirement][u.item].version]
         ELSE None]
  /\ UNCHANGED <<left, required, submissions, review, visaVars>>

(* and the outcome of validation and scan is written over it: of the state only
   when it is Safe, and whatever the state is by now *)
SaveCheck(c, malware) ==
  LET u == upload[c]
      q == u.requirement
      s == submissions[q][u.item]
  IN
  /\ upload[c] # None /\ u.at = "scanned"
  /\ submissions' =
       IF s.version # u.version THEN submissions
       ELSE [submissions EXCEPT ![q][u.item] =
              [s EXCEPT !.malware = malware, !.state = IF malware = "Safe" THEN "UnderReview" ELSE @]]
  /\ upload' = [upload EXCEPT ![c] = None]
  /\ UNCHANGED <<left, required, review, visaVars>>

(* POST /operator/documents/{s}/review: read, compared and decided *)
BeginReview(v, q, i, verdict) ==
  /\ review[v] = None
  /\ submissions[q][i].state = "UnderReview" /\ submissions[q][i].malware = "Safe"
  /\ Spend("review")
  /\ review' = [review EXCEPT ![v] =
       [requirement |-> q, item |-> i, version |-> submissions[q][i].version, verdict |-> verdict]]
  /\ UNCHANGED <<required, submissions, upload, visaVars>>

(* Mutant of ReviewSaves: the last review wins. *)
ReviewSavesLast(v) == TRUE

ReviewSaves(v) ==
  submissions[review[v].requirement][review[v].item].version = review[v].version

SaveReview(v) ==
  LET r == review[v]
      s == submissions[r.requirement][r.item]
  IN
  /\ review[v] # None
  /\ submissions' =
       IF ReviewSaves(v)
         THEN [submissions EXCEPT ![r.requirement][r.item] =
                [s EXCEPT !.state = r.verdict, !.version = @ + 1]]
         ELSE submissions
  /\ review' = [review EXCEPT ![v] = None]
  /\ UNCHANGED <<left, required, upload, visaVars>>

PapersStep ==
  \/ OpenDocuments
  \/ \E c \in Uploaders :
       \/ SaveUpload(c) \/ CheckUpload(c)
       \/ \E q \in Requirements : StartUpload(c, q)
       \/ \E malware \in MalwareStatus \ {"Pending"} : SaveCheck(c, malware)
  \/ \E v \in Reviewers :
       \/ SaveReview(v)
       \/ \E q \in required, verdict \in Verdicts :
            \E i \in DOMAIN submissions[q] : BeginReview(v, q, i, verdict)
-----------------------------------------------------------------------------
(* EnsureCases, called by the customer's status page and the operator's queue:
   a case for every traveller of the booking who has none *)
EnsureCases ==
  /\ bookingState = "Confirmed"
  /\ Spend("open")
  /\ visa' = [t \in Travellers |->
       IF t \in party /\ visa[t] = "Absent" THEN "NotStarted" ELSE visa[t]]
  /\ UNCHANGED <<visaVersion, transition, documentVars>>

(* POST /operator/visa-cases/{t}/transition: the case is read, its version is
   the one shown, and the policy allows the step *)
BeginTransition(v, t, next) ==
  /\ transition[v] = None
  /\ next \in AllowedNext(visa[t])
  /\ Spend("visa")
  /\ transition' = [transition EXCEPT ![v] =
       [traveller |-> t, version |-> visaVersion[t], next |-> next,
        at |-> IF next = "ReadyToSubmit" THEN "documents" ELSE "save"]]
  /\ UNCHANGED <<visa, visaVersion, documentVars>>

TransitionReadDocuments(v) ==
  /\ transition[v] # None /\ transition[v].at = "documents"
  /\ transition' = [transition EXCEPT ![v] =
       IF DocumentsReadyForVisa(transition[v].traveller)
         THEN [transition[v] EXCEPT !.at = "save"] ELSE None]
  /\ UNCHANGED <<left, visa, visaVersion, documentVars>>

SaveTransition(v) ==
  LET t == transition[v].traveller
      saves == visaVersion[t] = transition[v].version
  IN
  /\ transition[v] # None /\ transition[v].at = "save"
  /\ visa' = IF saves THEN [visa EXCEPT ![t] = transition[v].next] ELSE visa
  /\ visaVersion' = IF saves THEN [visaVersion EXCEPT ![t] = @ + 1] ELSE visaVersion
  /\ transition' = [transition EXCEPT ![v] = None]
  /\ UNCHANGED <<left, documentVars>>

VisaStep ==
  \/ EnsureCases
  \/ \E v \in Officers :
       \/ TransitionReadDocuments(v) \/ SaveTransition(v)
       \/ \E t \in Travellers, next \in VisaStatus : BeginTransition(v, t, next)

PapersNext == PapersStep \/ VisaStep
=============================================================================
