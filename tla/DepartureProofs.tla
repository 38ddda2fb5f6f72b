---------------------------- MODULE DepartureProofs ----------------------------
(***************************************************************************)
(* Proofs about the composition, for every value of the constants: the     *)
(* documents and the visa cases; the amendments; and the handover, which   *)
(* relies on all of them.                                                  *)
(***************************************************************************)
EXTENDS AccommodationProofs

(* A submission's version counts its reviews: it is 0 exactly as long as
   nobody decided on it, so a request that read it undecided and finds the
   version it read finds it undecided. *)
Sound(s) ==
  /\ s \in Submission
  /\ s.state \in {"Quarantined", "UnderReview"} => s.version = 0
  /\ s.state \in Verdicts => s.version > 0

SubmissionsSound ==
  /\ submissions \in [Requirements -> Seq(Submission)]
  /\ \A q \in Requirements : \A i \in DOMAIN submissions[q] : Sound(submissions[q][i])

UploadHolds(c) ==
  upload[c] # None =>
    /\ upload[c].at # "replacing" => upload[c].item \in DOMAIN submissions[upload[c].requirement]
    /\ upload[c].at = "scanned" => upload[c].version = 0

ReviewHolds(v) ==
  review[v] # None =>
    review[v].version = 0 /\ review[v].item \in DOMAIN submissions[review[v].requirement]

(* A transition that will be saved still follows from the case it was read. *)
TransitionHolds(v) ==
  LET t == transition[v].traveller IN
  transition[v] # None =>
    /\ transition[v].version <= visaVersion[t]
    /\ transition[v].version = visaVersion[t] => transition[v].next \in AllowedNext(visa[t])

PapersInv ==
  /\ PapersTypeOK
  /\ SubmissionsSound
  /\ \A c \in Uploaders : UploadHolds(c)
  /\ \A v \in Reviewers : ReviewHolds(v)
  /\ \A v \in Officers : TransitionHolds(v)
-----------------------------------------------------------------------------
LEMMA ReviewedRecord ==
  ASSUME NEW s \in Submission, s.version = 0, NEW verdict \in Verdicts
  PROVE  Sound([s EXCEPT !.state = verdict, !.version = @ + 1])
<1> DEFINE x == [s EXCEPT !.state = verdict, !.version = 1]
<1>1. s.version + 1 = 1
  OBVIOUS
<1>2. [s EXCEPT !.state = verdict, !.version = @ + 1] = x
  BY <1>1
<1>3. x \in Submission /\ x.version = 1 /\ x.state = verdict
  BY DEF Submission
<1>4. Sound(x)
  BY <1>3 DEF Sound, Verdicts
<1> QED
  BY <1>2, <1>4

LEMMA ScannedRecord ==
  ASSUME NEW u \in Upload, NEW version, version = 0
  PROVE  LET scanned == [u EXCEPT !.at = "scanned", !.version = version]
         IN  /\ scanned \in Upload /\ scanned.requirement = u.requirement
             /\ scanned.item = u.item /\ scanned.version = 0
BY DEF Upload

(* Replacing one element, or adding one, keeps a sequence of S one. *)
LEMMA SequenceChanged ==
  ASSUME NEW S, NEW s \in Seq(S), NEW i \in DOMAIN s, NEW x \in S
  PROVE  /\ [s EXCEPT ![i] = x] \in Seq(S)
         /\ DOMAIN [s EXCEPT ![i] = x] = DOMAIN s
         /\ [s EXCEPT ![i] = x][i] = x
         /\ \A j \in DOMAIN s \ {i} : [s EXCEPT ![i] = x][j] = s[j]
OBVIOUS

LEMMA SequenceMapped ==
  ASSUME NEW S, NEW s \in Seq(S), NEW f \in [DOMAIN s -> S]
  PROVE  f \in Seq(S) /\ Len(f) = Len(s)
OBVIOUS

LEMMA SequenceGrown ==
  ASSUME NEW S, NEW s \in Seq(S), NEW x \in S
  PROVE  /\ Append(s, x) \in Seq(S)
         /\ DOMAIN s \subseteq DOMAIN Append(s, x)
         /\ Len(s) + 1 \in DOMAIN Append(s, x)
         /\ \A i \in DOMAIN s : Append(s, x)[i] = s[i]
         /\ \A i \in DOMAIN Append(s, x) \ DOMAIN s : Append(s, x)[i] = x
OBVIOUS
-----------------------------------------------------------------------------
LEMMA OthersLeavePapers ==
  ASSUME [Next]_vars
  PROVE  PapersNext \/ UNCHANGED <<documentVars, visaVars>>
BY DEF Next, vars, CancellationStep, AccommodationStep, AmendmentStep, PaperStep, HandoverStep

(* What one step may do to the submissions of a requirement: nothing is lost,
   everything stays sound and a verdict is only ever superseded. *)
Continues(before, after) ==
  /\ after \in Seq(Submission)
  /\ DOMAIN before \subseteq DOMAIN after
  /\ \A i \in DOMAIN after : Sound(after[i])
  /\ \A i \in DOMAIN before :
       before[i].state \in Verdicts => after[i].state \in {before[i].state} \cup Superseding

LEMMA SupersedingContinues ==
  ASSUME NEW s \in Seq(Submission), \A i \in DOMAIN s : Sound(s[i]), NEW old
  PROVE  LET replaced == [i \in DOMAIN s |->
               IF i \in old THEN [s[i] EXCEPT !.state = "Superseded"] ELSE s[i]]
             new == [state |-> "Quarantined", malware |-> "Pending", version |-> 0]
         IN  Continues(s, Append(replaced, new)) /\ Len(s) + 1 \in DOMAIN Append(replaced, new)
<1> DEFINE replaced == [i \in DOMAIN s |->
             IF i \in old THEN [s[i] EXCEPT !.state = "Superseded"] ELSE s[i]]
           new == [state |-> "Quarantined", malware |-> "Pending", version |-> 0]
<1>1. ASSUME NEW i \in DOMAIN s
      PROVE  Sound(replaced[i]) /\ replaced[i].state \in {s[i].state, "Superseded"}
  BY <1>1 DEF Sound, Submission, Superseding, Verdicts
<1>2. replaced \in [DOMAIN s -> Submission]
  BY <1>1 DEF Sound
<1>3. replaced \in Seq(Submission) /\ Len(replaced) = Len(s) /\ DOMAIN replaced = DOMAIN s
  BY <1>2, SequenceMapped
<1>4. new \in Submission /\ Sound(new)
  BY DEF Submission, Sound, MalwareStatus, Verdicts
<1> HIDE DEF replaced, new
<1>5. /\ Append(replaced, new) \in Seq(Submission)
      /\ DOMAIN s \subseteq DOMAIN Append(replaced, new)
      /\ Len(s) + 1 \in DOMAIN Append(replaced, new)
      /\ \A i \in DOMAIN s : Append(replaced, new)[i] = replaced[i]
      /\ \A i \in DOMAIN Append(replaced, new) \ DOMAIN s : Append(replaced, new)[i] = new
  BY <1>3, <1>4, SequenceGrown
<1>6. Continues(s, Append(replaced, new))
  BY <1>1, <1>4, <1>5 DEF Continues, Superseding
<1> QED
  BY <1>5, <1>6 DEF replaced, new

LEMMA ChangingContinues ==
  ASSUME NEW s \in Seq(Submission), \A i \in DOMAIN s : Sound(s[i]),
         NEW i \in DOMAIN s, NEW x, Sound(x), s[i].state \notin Verdicts
  PROVE  Continues(s, [s EXCEPT ![i] = x])
BY SequenceChanged DEF Continues, Sound

LEMMA StayingContinues ==
  ASSUME NEW s \in Seq(Submission), \A i \in DOMAIN s : Sound(s[i])
  PROVE  Continues(s, s)
BY DEF Continues
-----------------------------------------------------------------------------
LEMMA SubmissionsContinue ==
  ASSUME PapersInv, [Next]_vars
  PROVE  /\ submissions' \in [Requirements -> Seq(Submission)]
         /\ \A q \in Requirements : Continues(submissions[q], submissions'[q])
<1> USE DEF PapersInv, SubmissionsSound
<1>1. CASE UNCHANGED submissions
  BY <1>1, StayingContinues
<1>2. ASSUME NEW c \in Uploaders, SaveUpload(c), submissions' # submissions
      PROVE  /\ submissions' \in [Requirements -> Seq(Submission)]
             /\ \A q \in Requirements : Continues(submissions[q], submissions'[q])
  <2> DEFINE q == upload[c].requirement
             old == {x[1] : x \in upload[c].olds}
             replaced == [i \in DOMAIN submissions[q] |->
               IF i \in old THEN [submissions[q][i] EXCEPT !.state = "Superseded"]
               ELSE submissions[q][i]]
             new == [state |-> "Quarantined", malware |-> "Pending", version |-> 0]
  <2>1. q \in Requirements
    BY <1>2 DEF SaveUpload, PapersTypeOK, Upload
  <2>2. submissions' = [submissions EXCEPT ![q] = Append(replaced, new)]
    BY <1>2 DEF SaveUpload
  <2>3. Continues(submissions[q], Append(replaced, new))
    BY <2>1, SupersedingContinues
  <2> HIDE DEF replaced, new
  <2>4. Append(replaced, new) \in Seq(Submission)
    BY <2>3 DEF Continues
  <2> QED
    BY <2>1, <2>2, <2>3, <2>4, StayingContinues
<1>3. ASSUME NEW q \in Requirements, NEW i \in DOMAIN submissions[q], NEW x, Sound(x),
             submissions[q][i].state \notin Verdicts,
             submissions' = [submissions EXCEPT ![q][i] = x]
      PROVE  /\ submissions' \in [Requirements -> Seq(Submission)]
             /\ \A p \in Requirements : Continues(submissions[p], submissions'[p])
  <2> DEFINE s == [submissions[q] EXCEPT ![i] = x]
  <2>1. submissions' = [submissions EXCEPT ![q] = s]
    BY <1>3
  <2>2. Continues(submissions[q], s)
    BY <1>3, ChangingContinues
  <2>3. s \in Seq(Submission)
    BY <2>2 DEF Continues
  <2> HIDE DEF s
  <2> QED
    BY <2>1, <2>2, <2>3, StayingContinues
<1>4. ASSUME NEW c \in Uploaders, NEW malware \in MalwareStatus \ {"Pending"},
             SaveCheck(c, malware), submissions' # submissions
      PROVE  \E q \in Requirements : \E i \in DOMAIN submissions[q] : \E x :
               /\ Sound(x) /\ submissions[q][i].state \notin Verdicts
               /\ submissions' = [submissions EXCEPT ![q][i] = x]
  <2> DEFINE q == upload[c].requirement
             i == upload[c].item
             s == submissions[q][i]
             x == [s EXCEPT !.malware = malware,
                            !.state = IF malware = "Safe" THEN "UnderReview" ELSE @]
  <2>1. q \in Requirements /\ i \in DOMAIN submissions[q] /\ upload[c].version = 0
    BY <1>4 DEF SaveCheck, PapersTypeOK, Upload, UploadHolds
  <2>2. s.version = 0 /\ submissions' = [submissions EXCEPT ![q][i] = x]
    BY <1>4, <2>1 DEF SaveCheck
  <2>3. Sound(s) /\ s.state \notin Verdicts
    BY <2>1, <2>2 DEF Sound
  <2>4. Sound(x)
    BY <2>2, <2>3 DEF Sound, Submission, Verdicts
  <2> QED
    BY <2>1, <2>2, <2>3, <2>4
<1>5. ASSUME NEW v \in Reviewers, SaveReview(v), submissions' # submissions
      PROVE  \E q \in Requirements : \E i \in DOMAIN submissions[q] : \E x :
               /\ Sound(x) /\ submissions[q][i].state \notin Verdicts
               /\ submissions' = [submissions EXCEPT ![q][i] = x]
  <2> DEFINE q == review[v].requirement
             i == review[v].item
             s == submissions[q][i]
             x == [s EXCEPT !.state = review[v].verdict, !.version = @ + 1]
  <2>1. q \in Requirements /\ i \in DOMAIN submissions[q] /\ review[v].version = 0
        /\ review[v].verdict \in Verdicts
    BY <1>5 DEF SaveReview, PapersTypeOK, Review, ReviewHolds
  <2>2. s.version = 0 /\ submissions' = [submissions EXCEPT ![q][i] = x]
    BY <1>5, <2>1 DEF SaveReview, ReviewSaves
  <2>3. Sound(s) /\ s.state \notin Verdicts
    BY <2>1, <2>2 DEF Sound
  <2>4. Sound(x)
    BY <2>1, <2>2, <2>3, ReviewedRecord DEF Sound
  <2> QED
    BY <2>1, <2>2, <2>3, <2>4
<1>6. \/ UNCHANGED submissions
      \/ \E c \in Uploaders : SaveUpload(c)
      \/ \E c \in Uploaders, malware \in MalwareStatus \ {"Pending"} : SaveCheck(c, malware)
      \/ \E v \in Reviewers : SaveReview(v)
  BY OthersLeavePapers
     DEF PapersNext, PapersStep, VisaStep, documentVars, OpenDocuments, CheckUpload, StartUpload,
         BeginReview, EnsureCases, TransitionReadDocuments, SaveTransition, BeginTransition
<1> QED
  BY <1>1, <1>2, <1>3, <1>4, <1>5, <1>6

-----------------------------------------------------------------------------
(* Submissions that were there stay there, so an upload or a review still
   points at the one it read. *)
LEMMA UploadsStep ==
  ASSUME PapersInv, [Next]_vars
  PROVE  upload' \in [Uploaders -> Upload \cup {None}] /\ \A c \in Uploaders : UploadHolds(c)'
<1> USE DEF PapersInv, PapersTypeOK
<1>1. \A q \in Requirements : DOMAIN submissions[q] \subseteq DOMAIN submissions'[q]
  BY SubmissionsContinue DEF Continues
<1>2. ASSUME NEW c \in Uploaders, upload'[c] = upload[c] PROVE UploadHolds(c)'
  BY <1>1, <1>2 DEF UploadHolds, Upload
<1>3. CASE UNCHANGED upload
  BY <1>2, <1>3
<1>4. ASSUME NEW d \in Uploaders, NEW u \in Upload \cup {None},
             upload' = [upload EXCEPT ![d] = u],
             u # None => /\ u.at # "replacing" => u.item \in DOMAIN submissions'[u.requirement]
                         /\ u.at = "scanned" => u.version = 0
      PROVE  upload' \in [Uploaders -> Upload \cup {None}] /\ \A c \in Uploaders : UploadHolds(c)'
  BY <1>2, <1>4 DEF UploadHolds
<1>5. ASSUME NEW d \in Uploaders, NEW q \in Requirements, StartUpload(d, q)
      PROVE  upload' \in [Uploaders -> Upload \cup {None}] /\ \A c \in Uploaders : UploadHolds(c)'
  <2> DEFINE olds == {<<i, submissions[q][i].version>> :
                  i \in {j \in DOMAIN submissions[q] : submissions[q][j].state \notin Superseding}}
             u == [requirement |-> q, at |-> "replacing", item |-> 0, version |-> 0, olds |-> olds]
  <2>1. ASSUME NEW i \in DOMAIN submissions[q] PROVE i \in Nat /\ submissions[q][i].version \in Nat
    <3>1. Sound(submissions[q][i]) /\ submissions[q] \in Seq(Submission)
      BY DEF SubmissionsSound
    <3> QED
      BY <3>1 DEF Sound, Submission
  <2>2. olds \subseteq Nat \X Nat
    BY <2>1
  <2>3. upload' = [upload EXCEPT ![d] = u]
    BY <1>5 DEF StartUpload
  <2> HIDE DEF olds
  <2>4. u \in Upload
    BY <2>2 DEF Upload
  <2> QED
    BY <1>4, <2>3, <2>4
<1>6. ASSUME NEW d \in Uploaders, SaveUpload(d)
      PROVE  upload' \in [Uploaders -> Upload \cup {None}] /\ \A c \in Uploaders : UploadHolds(c)'
  <2> DEFINE q == upload[d].requirement
             old == {x[1] : x \in upload[d].olds}
             replaced == [i \in DOMAIN submissions[q] |->
               IF i \in old THEN [submissions[q][i] EXCEPT !.state = "Superseded"]
               ELSE submissions[q][i]]
             new == [state |-> "Quarantined", malware |-> "Pending", version |-> 0]
             u == [upload[d] EXCEPT !.at = "checking", !.olds = {}, !.item = Len(submissions[q]) + 1]
  <2>1. upload[d] \in Upload /\ q \in Requirements /\ submissions[q] \in Seq(Submission)
    BY <1>6 DEF SaveUpload, Upload
  <2>2. CASE upload' = [upload EXCEPT ![d] = None]
    BY <1>4, <2>2
  <2>3. CASE /\ submissions' = [submissions EXCEPT ![q] = Append(replaced, new)]
             /\ upload' = [upload EXCEPT ![d] = u]
    <3>1. Len(submissions[q]) + 1 \in DOMAIN Append(replaced, new)
      BY <2>1, SupersedingContinues DEF SubmissionsSound
    <3> HIDE DEF replaced, new
    <3>2. Len(submissions[q]) + 1 \in DOMAIN submissions'[q]
      BY <2>1, <2>3, <3>1
    <3>3. Len(submissions[q]) + 1 \in Nat
      BY <2>1
    <3>4. u \in Upload /\ u.requirement = q /\ u.item = Len(submissions[q]) + 1 /\ u.at = "checking"
      BY <2>1, <3>3 DEF Upload
    <3> QED
      BY <1>4, <2>3, <3>2, <3>4
  <2> QED
    BY <1>6, <2>2, <2>3 DEF SaveUpload
<1>7. ASSUME NEW d \in Uploaders, CheckUpload(d)
      PROVE  upload' \in [Uploaders -> Upload \cup {None}] /\ \A c \in Uploaders : UploadHolds(c)'
  <2> DEFINE q == upload[d].requirement
             i == upload[d].item
             u == [upload[d] EXCEPT !.at = "scanned", !.version = submissions[q][i].version]
  <2>1. upload[d] \in Upload /\ q \in Requirements /\ i \in DOMAIN submissions[q]
        /\ submissions' = submissions
    BY <1>7 DEF CheckUpload, Upload, UploadHolds
  <2>2. CASE upload' = [upload EXCEPT ![d] = None]
    BY <1>4, <2>2
  <2>3. CASE submissions[q][i].state = "Quarantined" /\ upload' = [upload EXCEPT ![d] = u]
    <3>1. submissions[q][i].version = 0
      BY <2>1, <2>3 DEF SubmissionsSound, Sound
    <3>2. u \in Upload /\ u.requirement = q /\ u.item = i /\ u.version = 0
      BY <2>1, <3>1, ScannedRecord
    <3> QED
      BY <1>4, <2>1, <2>3, <3>2
  <2> QED
    BY <1>7, <2>2, <2>3 DEF CheckUpload
<1>8. ASSUME NEW d \in Uploaders, NEW malware, SaveCheck(d, malware)
      PROVE  upload' \in [Uploaders -> Upload \cup {None}] /\ \A c \in Uploaders : UploadHolds(c)'
  BY <1>4, <1>8 DEF SaveCheck
<1> QED
  BY <1>3, <1>5, <1>6, <1>7, <1>8, OthersLeavePapers
     DEF PapersNext, PapersStep, VisaStep, documentVars, OpenDocuments, SaveReview,
         BeginReview, EnsureCases, TransitionReadDocuments, SaveTransition, BeginTransition

LEMMA ReviewsStep ==
  ASSUME PapersInv, [Next]_vars
  PROVE  review' \in [Reviewers -> Review \cup {None}] /\ \A v \in Reviewers : ReviewHolds(v)'
<1> USE DEF PapersInv, PapersTypeOK
<1>1. \A q \in Requirements : DOMAIN submissions[q] \subseteq DOMAIN submissions'[q]
  BY SubmissionsContinue DEF Continues
<1>2. ASSUME NEW v \in Reviewers, review'[v] = review[v] PROVE ReviewHolds(v)'
  BY <1>1, <1>2 DEF ReviewHolds, Review
<1>3. CASE UNCHANGED review
  BY <1>2, <1>3
<1>4. ASSUME NEW w \in Reviewers, NEW q \in required, NEW verdict \in Verdicts,
             NEW i \in DOMAIN submissions[q], BeginReview(w, q, i, verdict)
      PROVE  review' \in [Reviewers -> Review \cup {None}] /\ \A v \in Reviewers : ReviewHolds(v)'
  <2> DEFINE r == [requirement |-> q, item |-> i, version |-> submissions[q][i].version,
                   verdict |-> verdict]
  <2>1. q \in Requirements /\ i \in Nat /\ submissions' = submissions
    BY <1>4 DEF BeginReview
  <2>2. submissions[q][i].version = 0
    BY <1>4, <2>1 DEF BeginReview, SubmissionsSound, Sound
  <2>3. r \in Review /\ review' = [review EXCEPT ![w] = r]
    BY <1>4, <2>1, <2>2 DEF BeginReview, Review
  <2>4. ReviewHolds(w)'
    BY <2>1, <2>2, <2>3 DEF ReviewHolds
  <2> QED
    BY <1>2, <2>3, <2>4
<1>5. ASSUME NEW w \in Reviewers, SaveReview(w)
      PROVE  review' \in [Reviewers -> Review \cup {None}] /\ \A v \in Reviewers : ReviewHolds(v)'
  <2>1. review' = [review EXCEPT ![w] = None]
    BY <1>5 DEF SaveReview
  <2>2. ReviewHolds(w)'
    BY <2>1 DEF ReviewHolds
  <2> QED
    BY <1>2, <2>1, <2>2
<1> QED
  BY <1>3, <1>4, <1>5, OthersLeavePapers
     DEF PapersNext, PapersStep, VisaStep, documentVars, OpenDocuments, CheckUpload, StartUpload,
         SaveUpload, SaveCheck, EnsureCases, TransitionReadDocuments, SaveTransition, BeginTransition

-----------------------------------------------------------------------------
LEMMA AllowedIsStatus ==
  \A status : /\ AllowedNext(status) \subseteq VisaStatus
              /\ status \in {"Absent", "Approved", "Rejected"} => AllowedNext(status) = {}
BY DEF AllowedNext, VisaStatus

(* A case moves only by a transition of its version, and along AllowedNext. *)
CasesContinue ==
  /\ visa' \in [Travellers -> VisaStatus \cup {"Absent"}]
  /\ visaVersion' \in [Travellers -> Nat]
  /\ \A t \in Travellers :
       /\ visaVersion'[t] >= visaVersion[t]
       /\ visaVersion'[t] = visaVersion[t] => visa'[t] = visa[t] \/ visa[t] = "Absent"
       /\ visa'[t] # visa[t] => visa[t] = "Absent" \/ visa'[t] \in AllowedNext(visa[t])

LEMMA CasesStep ==
  ASSUME PapersInv, [Next]_vars
  PROVE  CasesContinue
<1> USE DEF PapersInv, PapersTypeOK
<1>1. CASE UNCHANGED <<visa, visaVersion>>
  BY <1>1 DEF CasesContinue
<1>2. CASE EnsureCases
  BY <1>2 DEF EnsureCases, CasesContinue, VisaStatus
<1>3. ASSUME NEW v \in Officers, SaveTransition(v) PROVE CasesContinue
  <2> DEFINE t == transition[v].traveller
  <2>1. t \in Travellers /\ transition[v] # None
    BY <1>3 DEF SaveTransition, Transition
  <2>2. CASE visaVersion[t] = transition[v].version
    <3>1. /\ visa' = [visa EXCEPT ![t] = transition[v].next]
          /\ visaVersion' = [visaVersion EXCEPT ![t] = @ + 1]
      BY <1>3, <2>2 DEF SaveTransition
    <3>2. transition[v].next \in AllowedNext(visa[t])
      BY <2>1, <2>2 DEF TransitionHolds
    <3>3. transition[v].next \in VisaStatus
      BY <3>2, AllowedIsStatus
    <3> QED
      BY <2>1, <3>1, <3>2, <3>3 DEF CasesContinue
  <2>3. CASE visaVersion[t] # transition[v].version
    BY <1>1, <1>3, <2>3 DEF SaveTransition
  <2> QED
    BY <2>2, <2>3
<1>4. \/ UNCHANGED <<visa, visaVersion>> \/ EnsureCases
      \/ \E v \in Officers : SaveTransition(v)
  BY OthersLeavePapers
     DEF PapersNext, PapersStep, VisaStep, visaVars, OpenDocuments, CheckUpload, StartUpload,
         SaveUpload, SaveCheck, SaveReview, BeginReview, TransitionReadDocuments, BeginTransition
<1> QED
  BY <1>1, <1>2, <1>3, <1>4

LEMMA TransitionsStep ==
  ASSUME PapersInv, [Next]_vars
  PROVE  transition' \in [Officers -> Transition \cup {None}] /\ \A v \in Officers : TransitionHolds(v)'
<1> USE DEF PapersInv, PapersTypeOK
<1>1. CasesContinue
  BY CasesStep
<1>2. ASSUME NEW v \in Officers, transition[v] # None, transition'[v] # None,
             transition'[v].traveller = transition[v].traveller,
             transition'[v].version = transition[v].version,
             transition'[v].next = transition[v].next
      PROVE  TransitionHolds(v)'
  <2> DEFINE t == transition[v].traveller
  <2>1. t \in Travellers /\ transition[v].version \in Nat
    BY <1>2 DEF Transition
  <2>2. /\ transition[v].version <= visaVersion[t]
        /\ transition[v].version = visaVersion[t] => transition[v].next \in AllowedNext(visa[t])
    BY <1>2 DEF TransitionHolds
  <2>3. visaVersion[t] \in Nat /\ visaVersion'[t] \in Nat /\ visaVersion'[t] >= visaVersion[t]
    BY <1>1, <2>1 DEF CasesContinue
  <2>4. transition[v].version <= visaVersion'[t]
    BY <2>1, <2>2, <2>3
  <2>5. transition[v].version = visaVersion'[t] =>
          visaVersion'[t] = visaVersion[t] /\ transition[v].version = visaVersion[t]
    BY <2>1, <2>2, <2>3
  <2>6. transition[v].version = visaVersion'[t] => visa'[t] = visa[t]
    BY <1>1, <2>1, <2>2, <2>5, AllowedIsStatus DEF CasesContinue
  <2> QED
    BY <1>2, <2>2, <2>4, <2>5, <2>6 DEF TransitionHolds
<1>3. ASSUME NEW v \in Officers, transition'[v] = transition[v] PROVE TransitionHolds(v)'
  BY <1>2, <1>3 DEF TransitionHolds
<1>4. ASSUME NEW w \in Officers, transition' = [transition EXCEPT ![w] = None]
      PROVE  transition' \in [Officers -> Transition \cup {None}] /\ \A v \in Officers : TransitionHolds(v)'
  <2>1. TransitionHolds(w)'
    BY <1>4 DEF TransitionHolds
  <2> QED
    BY <1>3, <1>4, <2>1
<1>5. ASSUME NEW w \in Officers, NEW t \in Travellers, NEW next \in VisaStatus,
             BeginTransition(w, t, next)
      PROVE  transition' \in [Officers -> Transition \cup {None}] /\ \A v \in Officers : TransitionHolds(v)'
  <2> DEFINE x == [traveller |-> t, version |-> visaVersion[t], next |-> next,
                   at |-> IF next = "ReadyToSubmit" THEN "documents" ELSE "save"]
  <2>1. x \in Transition /\ transition' = [transition EXCEPT ![w] = x]
    BY <1>5 DEF BeginTransition, Transition
  <2>2. TransitionHolds(w)'
    BY <1>5, <2>1 DEF BeginTransition, TransitionHolds
  <2> QED
    BY <1>3, <2>1, <2>2
<1>6. ASSUME NEW w \in Officers, TransitionReadDocuments(w)
      PROVE  transition' \in [Officers -> Transition \cup {None}] /\ \A v \in Officers : TransitionHolds(v)'
  <2> DEFINE x == [transition[w] EXCEPT !.at = "save"]
  <2>1. transition[w] \in Transition /\ transition[w] # None
    BY <1>6 DEF TransitionReadDocuments
  <2>2. CASE transition' = [transition EXCEPT ![w] = x]
    <3>1. /\ x \in Transition /\ x.traveller = transition[w].traveller
          /\ x.version = transition[w].version /\ x.next = transition[w].next
      BY <2>1 DEF Transition
    <3>2. TransitionHolds(w)'
      <4>1. CASE transition'[w] = None
        BY <4>1 DEF TransitionHolds
      <4> QED
        BY <1>2, <2>1, <2>2, <3>1, <4>1
    <3> QED
      BY <1>3, <2>2, <3>1, <3>2
  <2> QED
    BY <1>4, <1>6, <2>2 DEF TransitionReadDocuments
<1>7. CASE UNCHANGED transition
  BY <1>3, <1>7
<1>8. \/ UNCHANGED transition
      \/ \E w \in Officers :
           \/ TransitionReadDocuments(w) \/ SaveTransition(w)
           \/ \E t \in Travellers, next \in VisaStatus : BeginTransition(w, t, next)
  BY OthersLeavePapers
     DEF PapersNext, PapersStep, VisaStep, visaVars, OpenDocuments, CheckUpload, StartUpload,
         SaveUpload, SaveCheck, SaveReview, BeginReview, EnsureCases
<1> QED
  BY <1>4, <1>5, <1>6, <1>7, <1>8 DEF SaveTransition
-----------------------------------------------------------------------------
LEMMA PapersInvInit == Init => PapersInv
<1> SUFFICES ASSUME Init PROVE PapersInv
  OBVIOUS
<1>1. PICK s \in Scenarios : PapersInit(s.prepared, s.visas) /\ s.prepared \subseteq Travellers
                             /\ s.visas \in {"Processing", "Approved"}
  BY ScenariosAssumption DEF Init, Parties
<1> DEFINE approved == [state |-> "Approved", malware |-> "Safe", version |-> 1]
<1>2. approved \in Submission /\ Sound(approved)
  BY DEF Submission, Sound, Verdicts, MalwareStatus
<1>3. \A q \in Requirements : submissions[q] = <<>> \/ submissions[q] = <<approved>>
  BY <1>1 DEF PapersInit
<1> HIDE DEF approved
<1>4. SubmissionsSound
  <2>1. \A q \in Requirements : submissions[q] \in Seq(Submission)
    <3>1. <<>> \in Seq(Submission) /\ <<approved>> \in Seq(Submission)
      BY <1>2
    <3> QED
      BY <1>3, <3>1
  <2>2. submissions \in [Requirements -> Seq(Submission)]
    BY <1>1, <2>1 DEF PapersInit
  <2>3. \A q \in Requirements : \A i \in DOMAIN submissions[q] : Sound(submissions[q][i])
    BY <1>2, <1>3
  <2> QED
    BY <2>2, <2>3 DEF SubmissionsSound
<1>5. PapersTypeOK
  <2>1. required \subseteq Requirements
    BY <1>1 DEF PapersInit, Requirements
  <2>2. visa \in [Travellers -> VisaStatus \cup {"Absent"}] /\ visaVersion \in [Travellers -> Nat]
    BY <1>1 DEF PapersInit, VisaStatus
  <2> QED
    BY <1>1, <1>4, <2>1, <2>2 DEF PapersInit, PapersTypeOK, SubmissionsSound
<1> QED
  BY <1>1, <1>4, <1>5 DEF PapersInv, PapersInit, UploadHolds, ReviewHolds, TransitionHolds

LEMMA PapersInvStep == PapersInv /\ BookingTypeOK /\ [Next]_vars => PapersInv'
<1> SUFFICES ASSUME PapersInv, BookingTypeOK, [Next]_vars PROVE PapersInv'
  OBVIOUS
<1>1. SubmissionsSound'
  BY SubmissionsContinue DEF SubmissionsSound, Continues
<1>2. required' \subseteq Requirements
  BY OthersLeavePapers
     DEF PapersInv, PapersTypeOK, BookingTypeOK, Requirements, PapersNext, PapersStep, VisaStep,
         documentVars, OpenDocuments, CheckUpload, StartUpload, SaveUpload, SaveCheck, SaveReview,
         BeginReview, EnsureCases, TransitionReadDocuments, SaveTransition, BeginTransition
<1>3. /\ visa' \in [Travellers -> VisaStatus \cup {"Absent"}]
      /\ visaVersion' \in [Travellers -> Nat]
  BY CasesStep DEF CasesContinue
<1> QED
  BY <1>1, <1>2, <1>3, UploadsStep, ReviewsStep, TransitionsStep
     DEF PapersInv, PapersTypeOK, SubmissionsSound
-----------------------------------------------------------------------------
(* A preview carries a version that was the booking's, and if it still is, the
   travellers it shows are the booking's. *)
PreviewHolds(a) ==
  amendAt[a] # "editing" =>
    /\ envelope[a].version <= bookingVersion
    /\ amendAt[a] # "previewing" /\ envelope[a].version = bookingVersion =>
         envelope[a].shown = party

AmendInv == BookingTypeOK /\ AmendTypeOK /\ \A a \in Amenders : PreviewHolds(a)

(* A request that is about to write the handover row read it before it was
   completed, and a snapshot past its visas counted approved ones. *)
ClosingHolds(h) ==
  closing[h] # None =>
    /\ closing[h].version <= handoverVersion
    /\ closing[h].at = "save" /\ completed => closing[h].version < handoverVersion
    /\ closing[h].at \in {"rooms", "row", "save"} =>
         \A t \in closing[h].travellers : visa[t] = "Approved"

NamingHolds(g) ==
  naming[g] # None =>
    /\ naming[g].version <= handoverVersion
    /\ completed => naming[g].version < handoverVersion

HandoverInv ==
  /\ HandoverTypeOK /\ HandedOverHaveVisas
  /\ \A h \in Closers : ClosingHolds(h)
  /\ \A g \in Leads : NamingHolds(g)

DepartureInv == RoomsInv /\ AmendInv /\ PapersInv /\ HandoverInv
-----------------------------------------------------------------------------
LEMMA PartiesAreParties == \A P \in Parties : P \in SUBSET Travellers
BY DEF Parties

LEMMA AllowancesStep ==
  ASSUME left \in [Operations -> Nat], [Next]_vars
  PROVE  left' \in [Operations -> Nat]
<1>1. ASSUME NEW op, Spend(op) PROVE left' \in [Operations -> Nat]
  <2>1. CASE op \in Operations
    <3>1. left[op] - 1 \in Nat
      BY <1>1, <2>1 DEF Spend
    <3> QED
      BY <1>1, <3>1 DEF Spend
  <2>2. CASE op \notin Operations
    BY <1>1, <2>2 DEF Spend
  <2> QED
    BY <2>1, <2>2
<1>2. CASE CancellationStep
  BY <1>1, <1>2 DEF CancellationStep, CancelBooking
<1>3. CASE AccommodationStep
  BY <1>1, <1>3 DEF AccommodationStep, AccommodationNext, RoomStep, LoadRooms, LoadRows,
     AssignReadRows, AssignReadPrevious, UnassignReadRows, SaveCreate, SaveAssign, SaveUnassign,
     SaveLock, BeginCreate, BeginLock, BeginAssign, BeginUnassign
<1>4. CASE AmendmentStep
  BY <1>1, <1>4 DEF AmendmentStep, AmendmentNext, AmendStep, PreviewReadBooking,
     PreviewReadTravellers, PreviewExpires, ConfirmReadBooking, SaveAmendment
<1>5. CASE PaperStep
  BY <1>1, <1>5 DEF PaperStep, PapersNext, PapersStep, VisaStep, OpenDocuments, StartUpload,
     SaveUpload, CheckUpload, SaveCheck, BeginReview, SaveReview, EnsureCases, BeginTransition,
     TransitionReadDocuments, SaveTransition
<1>6. CASE HandoverStep
  BY <1>1, <1>6 DEF HandoverStep, HandoverNext, BeginSnapshot, ReadTravellers, ReadDocuments,
     ReadVisas, ReadAssignments, ReadHandover, Goes, SaveCompletion, BeginNaming, SaveNaming
<1>7. CASE UNCHANGED vars
  BY <1>7 DEF vars
<1> QED
  BY <1>2, <1>3, <1>4, <1>5, <1>6, <1>7 DEF Next

(* The booking's row is written by amendments and the cancellation only. *)
LEMMA OthersLeaveBooking ==
  ASSUME [Next]_vars
  PROVE  \/ AmendmentNext
         \/ UNCHANGED <<party, bookingVersion, amendVars>> /\
              (bookingState' = "Cancelled" \/ bookingState' = bookingState)
BY DEF Next, vars, bookingRow, CancellationStep, AccommodationStep, AmendmentStep, PaperStep,
   HandoverStep, CancelBooking

(* A preview that another page's step leaves alone still holds: a version that
   changed is newer than every preview made before. *)
LEMMA PreviewKept ==
  ASSUME NEW a \in Amenders, PreviewHolds(a), AmendTypeOK, BookingTypeOK,
         bookingVersion' \in Nat, amendAt'[a] = amendAt[a], envelope'[a] = envelope[a],
         \/ bookingVersion' = bookingVersion /\ party' = party
         \/ bookingVersion' = bookingVersion + 1
  PROVE  PreviewHolds(a)'
<1> SUFFICES ASSUME amendAt[a] # "editing" PROVE PreviewHolds(a)'
  BY DEF PreviewHolds
<1>1. envelope[a].version \in Nat /\ bookingVersion \in Nat
  BY DEF AmendTypeOK, BookingTypeOK, Envelope
<1>2. envelope[a].version <= bookingVersion
  BY DEF PreviewHolds
<1>3. CASE bookingVersion' = bookingVersion /\ party' = party
  BY <1>3 DEF PreviewHolds
<1>4. CASE bookingVersion' = bookingVersion + 1
  <2>1. envelope[a].version <= bookingVersion' /\ envelope[a].version # bookingVersion'
    BY <1>1, <1>2, <1>4
  <2> QED
    BY <2>1 DEF PreviewHolds
<1> QED
  BY <1>3, <1>4

LEMMA AmendInvStep == AmendInv /\ [Next]_vars => AmendInv'
<1> SUFFICES ASSUME AmendInv, [Next]_vars PROVE AmendInv'
  OBVIOUS
<1> USE DEF AmendInv
<1>1. left' \in [Operations -> Nat]
  BY AllowancesStep DEF BookingTypeOK
<1>2. CASE UNCHANGED <<party, bookingVersion, amendVars>>
           /\ (bookingState' = "Cancelled" \/ bookingState' = bookingState)
  <2>1. BookingTypeOK' /\ AmendTypeOK'
    BY <1>1, <1>2 DEF BookingTypeOK, AmendTypeOK, amendVars
  <2>2. \A a \in Amenders : PreviewHolds(a)'
    BY <1>2, <2>1, PreviewKept DEF amendVars, BookingTypeOK
  <2> QED
    BY <2>1, <2>2
<1>3. ASSUME NEW a \in Amenders, AmendStep(a) PROVE AmendInv'
  <2>1. /\ bookingState' = bookingState
        /\ \/ bookingVersion' = bookingVersion /\ party' = party
           \/ bookingVersion' = bookingVersion + 1
    BY <1>3 DEF AmendStep, PreviewReadBooking, PreviewReadTravellers, PreviewExpires,
       ConfirmReadBooking, SaveAmendment, bookingRow
  <2>2. bookingVersion' \in Nat \ {0}
    BY <2>1 DEF BookingTypeOK
  <2>3. party' \in SUBSET Travellers
    BY <1>3 DEF AmendStep, PreviewReadBooking, PreviewReadTravellers, PreviewExpires,
       ConfirmReadBooking, SaveAmendment, bookingRow, BookingTypeOK, AmendTypeOK, Envelope
  <2>4. BookingTypeOK'
    BY <1>1, <2>1, <2>2, <2>3 DEF BookingTypeOK
  <2>5. ASSUME NEW now \in {"editing", "previewing", "preview", "confirming"},
               NEW e \in Envelope \cup {None}, now # "editing" => e \in Envelope,
               amendAt' = [amendAt EXCEPT ![a] = now], envelope' = [envelope EXCEPT ![a] = e],
               now # "editing" =>
                 /\ e.version <= bookingVersion'
                 /\ now # "previewing" /\ e.version = bookingVersion' => e.shown = party'
        PROVE  AmendInv'
    <3>1. AmendTypeOK'
      BY <2>5 DEF AmendTypeOK
    <3>2. PreviewHolds(a)'
      BY <2>5 DEF PreviewHolds, AmendTypeOK
    <3>3. \A x \in Amenders \ {a} : PreviewHolds(x)'
      BY <2>1, <2>2, <2>5, PreviewKept DEF AmendTypeOK
    <3> QED
      BY <2>4, <3>1, <3>2, <3>3
  <2>6. CASE \E P \in Parties : PreviewReadBooking(a, P)
    <3>1. PICK P \in Parties : PreviewReadBooking(a, P)
      BY <2>6
    <3> DEFINE e == [version |-> bookingVersion, shown |-> {}, proposed |-> P]
    <3>2. e \in Envelope
      BY PartiesAreParties DEF Envelope, BookingTypeOK
    <3>3. bookingVersion' = bookingVersion /\ bookingVersion \in Nat
      BY <3>1 DEF PreviewReadBooking, bookingRow, BookingTypeOK
    <3>4. /\ amendAt' = [amendAt EXCEPT ![a] = "previewing"]
          /\ envelope' = [envelope EXCEPT ![a] = e]
      BY <3>1 DEF PreviewReadBooking
    <3>5. e.version <= bookingVersion'
      BY <3>3
    <3> HIDE DEF e
    <3> QED
      BY <2>5, <3>2, <3>4, <3>5
  <2>7. CASE PreviewReadTravellers(a)
    <3> DEFINE e == [envelope[a] EXCEPT !.shown = party]
    <3>1. envelope[a] \in Envelope /\ envelope[a].version <= bookingVersion
          /\ UNCHANGED <<bookingVersion, party>>
      BY <2>7 DEF PreviewReadTravellers, AmendTypeOK, PreviewHolds, bookingRow
    <3>2. e \in Envelope /\ e.version = envelope[a].version /\ e.shown = party
      BY <3>1 DEF Envelope, BookingTypeOK
    <3>3. /\ amendAt' = [amendAt EXCEPT ![a] = "preview"]
          /\ envelope' = [envelope EXCEPT ![a] = e]
      BY <2>7 DEF PreviewReadTravellers
    <3> HIDE DEF e
    <3> QED
      BY <2>5, <3>1, <3>2, <3>3
  <2>8. CASE PreviewExpires(a) \/ SaveAmendment(a)
    BY <2>5, <2>8 DEF PreviewExpires, SaveAmendment, Drop
  <2>9. CASE ConfirmReadBooking(a)
    <3>1. envelope[a] \in Envelope /\ UNCHANGED <<bookingVersion, party, envelope>>
          /\ envelope[a].version <= bookingVersion
          /\ (envelope[a].version = bookingVersion => envelope[a].shown = party)
      BY <2>9 DEF ConfirmReadBooking, AmendTypeOK, PreviewHolds, bookingRow
    <3>2. /\ amendAt' = [amendAt EXCEPT ![a] = "confirming"]
          /\ envelope' = [envelope EXCEPT ![a] = envelope[a]]
      BY <2>9, <3>1 DEF ConfirmReadBooking, AmendTypeOK
    <3> QED
      BY <2>5, <3>1, <3>2
  <2> QED
    BY <1>3, <2>6, <2>7, <2>8, <2>9 DEF AmendStep
<1> QED
  BY <1>2, <1>3, OthersLeaveBooking DEF AmendmentNext
-----------------------------------------------------------------------------
(* An approval is for good, whichever component steps. *)
LEMMA ApprovalsStay ==
  ASSUME PapersInv, [Next]_vars, NEW t \in Travellers, visa[t] \in {"Approved", "Rejected"}
  PROVE  visa'[t] = visa[t]
BY CasesStep, AllowedIsStatus DEF CasesContinue

LEMMA OthersLeaveHandover ==
  ASSUME [Next]_vars
  PROVE  HandoverStep \/ UNCHANGED handoverVars
BY DEF Next, vars, CancellationStep, AccommodationStep, AmendmentStep, PaperStep

(* What a write of the handover row does: it counts up, and completes the
   departure or not, but never touches a completed one. *)
RowWritten ==
  /\ handoverVersion' = handoverVersion + 1
  /\ ~completed

LEMMA CompletionsWrite ==
  ASSUME HandoverInv, NEW h \in Closers, SaveCompletion(h)
  PROVE  \/ UNCHANGED handoverRow
         \/ /\ RowWritten /\ completed' = TRUE /\ leader' = leader
            /\ handedOver' = closing[h].travellers
            /\ handedOver' \subseteq Travellers
            /\ \A t \in handedOver' : visa[t] = "Approved"
<1>1. CASE RowAsRead(closing[h].version)
  <2>1. closing[h] \in Snapshot /\ closing[h].at = "save" /\ ClosingHolds(h)
    BY DEF HandoverInv, SaveCompletion, HandoverTypeOK
  <2>2. closing[h].version = handoverVersion
    BY <1>1 DEF RowAsRead
  <2>3. closing[h].version \in Nat /\ closing[h].travellers \subseteq Travellers
    BY <2>1 DEF Snapshot
  <2>4. ~completed
    BY <2>1, <2>2, <2>3 DEF ClosingHolds, SaveCompletion
  <2> QED
    BY <1>1, <2>1, <2>3, <2>4 DEF SaveCompletion, RowWritten, ClosingHolds
<1>2. CASE ~RowAsRead(closing[h].version)
  BY <1>2 DEF SaveCompletion, handoverRow
<1> QED
  BY <1>1, <1>2

LEMMA NamingsWrite ==
  ASSUME HandoverInv, NEW g \in Leads, SaveNaming(g)
  PROVE  \/ UNCHANGED handoverRow
         \/ /\ RowWritten /\ UNCHANGED <<completed, handedOver>>
            /\ leader' \in Leaders \cup {None}
<1>1. CASE RowAsRead(naming[g].version)
  <2>1. naming[g] \in Naming /\ NamingHolds(g) /\ naming[g] # None
    BY DEF HandoverInv, SaveNaming, HandoverTypeOK
  <2>2. naming[g].version = handoverVersion /\ naming[g].version \in Nat
    BY <1>1, <2>1 DEF RowAsRead, Naming
  <2>3. ~completed
    BY <2>1, <2>2 DEF NamingHolds
  <2> QED
    BY <1>1, <2>1, <2>3 DEF SaveNaming, RowWritten, Naming
<1>2. CASE ~RowAsRead(naming[g].version)
  BY <1>2 DEF SaveNaming, handoverRow
<1> QED
  BY <1>1, <1>2

LEMMA RowIsKeptOrWritten ==
  ASSUME HandoverInv, [Next]_vars
  PROVE  /\ UNCHANGED handoverRow \/ RowWritten
         /\ handoverVersion' \in Nat /\ completed' \in BOOLEAN
         /\ leader' \in Leaders \cup {None} /\ handedOver' \subseteq Travellers
         /\ \/ UNCHANGED <<completed, handedOver>>
            \/ \A t \in handedOver' : visa[t] = "Approved"
<1> USE DEF HandoverInv, HandoverTypeOK
<1>1. CASE UNCHANGED handoverRow
  BY <1>1 DEF handoverRow
<1>2. CASE \E h \in Closers : SaveCompletion(h)
  <2>1. CASE /\ RowWritten /\ completed' = TRUE /\ leader' = leader
             /\ handedOver' \subseteq Travellers
             /\ \A t \in handedOver' : visa[t] = "Approved"
    <3>1. handoverVersion' \in Nat
      BY <2>1 DEF RowWritten
    <3>2. completed' \in BOOLEAN /\ leader' \in Leaders \cup {None}
      BY <2>1
    <3> QED
      BY <2>1, <3>1, <3>2
  <2> QED
    BY <1>1, <1>2, <2>1, CompletionsWrite
<1>3. CASE \E g \in Leads : SaveNaming(g)
  <2>1. CASE /\ RowWritten /\ UNCHANGED <<completed, handedOver>>
             /\ leader' \in Leaders \cup {None}
    <3>1. handoverVersion' \in Nat
      BY <2>1 DEF RowWritten
    <3>2. completed' \in BOOLEAN /\ handedOver' \subseteq Travellers
      BY <2>1
    <3> QED
      BY <2>1, <3>1, <3>2
  <2> QED
    BY <1>1, <1>3, <2>1, NamingsWrite
<1>4. \/ UNCHANGED handoverRow
      \/ \E h \in Closers : SaveCompletion(h)
      \/ \E g \in Leads : SaveNaming(g)
  BY OthersLeaveHandover DEF HandoverStep, HandoverNext, handoverVars, BeginSnapshot,
     ReadTravellers, ReadDocuments, ReadVisas, ReadAssignments, ReadHandover, Goes, BeginNaming
<1> QED
  BY <1>1, <1>2, <1>3, <1>4

(* Requests that are not saved keep up with the row. *)
LEMMA ClosingKept ==
  ASSUME HandoverInv, PapersInv, [Next]_vars, NEW h \in Closers, closing'[h] = closing[h]
  PROVE  ClosingHolds(h)'
<1> SUFFICES ASSUME closing[h] # None PROVE ClosingHolds(h)'
  BY DEF ClosingHolds
<1>1. closing[h] \in Snapshot /\ ClosingHolds(h)
  BY DEF HandoverInv, HandoverTypeOK
<1>2. closing[h].version \in Nat /\ handoverVersion \in Nat /\ closing[h].travellers \subseteq Travellers
      /\ closing[h].version <= handoverVersion
  BY <1>1 DEF Snapshot, HandoverInv, HandoverTypeOK, ClosingHolds
<1>3. closing[h].at \in {"rooms", "row", "save"} =>
        \A t \in closing[h].travellers : visa'[t] = "Approved"
  BY <1>1, <1>2, ApprovalsStay DEF ClosingHolds
<1>4. CASE UNCHANGED handoverRow
  BY <1>1, <1>3, <1>4 DEF ClosingHolds, handoverRow
<1>5. CASE RowWritten
  <2>1. closing[h].version < handoverVersion'
    BY <1>2, <1>5 DEF RowWritten
  <2>2. closing[h].version <= handoverVersion'
    BY <1>2, <1>5 DEF RowWritten
  <2> QED
    BY <1>3, <2>1, <2>2 DEF ClosingHolds
<1> QED
  BY <1>4, <1>5, RowIsKeptOrWritten

LEMMA NamingKept ==
  ASSUME HandoverInv, [Next]_vars, NEW g \in Leads, naming'[g] = naming[g]
  PROVE  NamingHolds(g)'
<1> SUFFICES ASSUME naming[g] # None PROVE NamingHolds(g)'
  BY DEF NamingHolds
<1>1. naming[g] \in Naming /\ NamingHolds(g)
  BY DEF HandoverInv, HandoverTypeOK
<1>2. naming[g].version \in Nat /\ handoverVersion \in Nat /\ naming[g].version <= handoverVersion
  BY <1>1 DEF Naming, HandoverInv, HandoverTypeOK, NamingHolds
<1>3. CASE UNCHANGED handoverRow
  BY <1>1, <1>3 DEF NamingHolds, handoverRow
<1>4. CASE RowWritten
  <2>1. naming[g].version < handoverVersion' /\ naming[g].version <= handoverVersion'
    BY <1>2, <1>4 DEF RowWritten
  <2> QED
    BY <2>1 DEF NamingHolds
<1> QED
  BY <1>3, <1>4, RowIsKeptOrWritten


LEMMA ClosingsStep ==
  ASSUME HandoverInv, PapersInv, BookingTypeOK, [Next]_vars
  PROVE  closing' \in [Closers -> Snapshot \cup {None}] /\ \A h \in Closers : ClosingHolds(h)'
<1> USE DEF HandoverInv, HandoverTypeOK
<1>1. CASE UNCHANGED closing
  BY <1>1, ClosingKept
<1>2. ASSUME NEW h \in Closers, NEW c \in Snapshot \cup {None},
             closing' = [closing EXCEPT ![h] = c], ClosingHolds(h)'
      PROVE  closing' \in [Closers -> Snapshot \cup {None}] /\ \A x \in Closers : ClosingHolds(x)'
  <2>1. \A x \in Closers \ {h} : ClosingHolds(x)'
    BY <1>2, ClosingKept
  <2> QED
    BY <1>2, <2>1
<1>3. ASSUME NEW h \in Closers, closing' = [closing EXCEPT ![h] = None]
      PROVE  closing' \in [Closers -> Snapshot \cup {None}] /\ \A x \in Closers : ClosingHolds(x)'
  BY <1>2, <1>3 DEF ClosingHolds
<1>4. ASSUME NEW h \in Closers, BeginSnapshot(h)
      PROVE  closing' \in [Closers -> Snapshot \cup {None}] /\ \A x \in Closers : ClosingHolds(x)'
  <2> DEFINE c == [at |-> "travellers", paid |-> PaymentsCover, travellers |-> {},
                   version |-> handoverVersion]
  <2>1. c \in Snapshot /\ closing' = [closing EXCEPT ![h] = c] /\ handoverVersion' = handoverVersion
    BY <1>4 DEF BeginSnapshot, Snapshot, PaymentsCover, handoverRow
  <2>2. ClosingHolds(h)'
    BY <2>1 DEF ClosingHolds
  <2> QED
    BY <1>2, <2>1, <2>2
(* a query that goes on: nothing but where the snapshot is, and whom it counts,
   changes, and the row does not *)
<1>5. ASSUME NEW h \in Closers, NEW c \in Snapshot, closing[h] # None,
             closing' = [closing EXCEPT ![h] = c], UNCHANGED <<handoverRow, visa>>,
             c.version = closing[h].version,
             c.at = "save" => ~completed,
             c.at \in {"rooms", "row", "save"} => \A t \in c.travellers : visa[t] = "Approved"
      PROVE  closing' \in [Closers -> Snapshot \cup {None}] /\ \A x \in Closers : ClosingHolds(x)'
  <2>1. ClosingHolds(h)'
    BY <1>5 DEF ClosingHolds, handoverRow
  <2> QED
    BY <1>2, <1>5, <2>1
<1>6. ASSUME NEW h \in Closers, HandoverStep, ReadTravellers(h)
      PROVE  closing' \in [Closers -> Snapshot \cup {None}] /\ \A x \in Closers : ClosingHolds(x)'
  <2> DEFINE c == [closing[h] EXCEPT !.at = "documents", !.travellers = party]
  <2>1. closing[h] \in Snapshot /\ closing[h] # None
    BY <1>6 DEF ReadTravellers
  <2>2. c \in Snapshot /\ c.version = closing[h].version /\ c.at = "documents"
    BY <2>1 DEF Snapshot, BookingTypeOK
  <2>3. CASE closing' = [closing EXCEPT ![h] = c]
    BY <1>5, <1>6, <2>1, <2>2, <2>3 DEF ReadTravellers, HandoverStep, visaVars
  <2> QED
    BY <1>3, <1>6, <2>3 DEF ReadTravellers
<1>7. ASSUME NEW h \in Closers, HandoverStep,
             NEW from, NEW to \in {"visas", "rooms", "row", "save"}, NEW ready,
             Goes(h, from, to, ready),
             ready => \/ to = "visas"
                      \/ to = "rooms" /\ \A t \in closing[h].travellers : visa[t] = "Approved"
                      \/ /\ from \in {"rooms", "row"}
                         /\ to = "row" \/ ~completed
      PROVE  closing' \in [Closers -> Snapshot \cup {None}] /\ \A x \in Closers : ClosingHolds(x)'
  <2> DEFINE c == [closing[h] EXCEPT !.at = to]
  <2>1. closing[h] \in Snapshot /\ closing[h] # None /\ closing[h].at = from
    BY <1>7 DEF Goes
  <2>2. c \in Snapshot /\ c.version = closing[h].version /\ c.at = to
        /\ c.travellers = closing[h].travellers
    BY <2>1 DEF Snapshot
  <2>3. CASE closing' = [closing EXCEPT ![h] = c] /\ ready
    <3>1. to = "save" => ~completed
      BY <1>7, <2>3
    <3>2. to \in {"rooms", "row", "save"} => \A t \in closing[h].travellers : visa[t] = "Approved"
      BY <1>7, <2>1, <2>3 DEF ClosingHolds
    <3> QED
      BY <1>5, <1>7, <2>1, <2>2, <2>3, <3>1, <3>2 DEF Goes, HandoverStep, visaVars
  <2> QED
    BY <1>3, <1>7, <2>3 DEF Goes
<1>8. ASSUME NEW h \in Closers, HandoverStep,
             ReadDocuments(h) \/ ReadVisas(h) \/ ReadAssignments(h) \/ ReadHandover(h)
      PROVE  closing' \in [Closers -> Snapshot \cup {None}] /\ \A x \in Closers : ClosingHolds(x)'
  BY <1>7, <1>8 DEF ReadDocuments, ReadVisas, ReadAssignments, ReadHandover, VisaReady
<1>9. ASSUME NEW h \in Closers, SaveCompletion(h)
      PROVE  closing' \in [Closers -> Snapshot \cup {None}] /\ \A x \in Closers : ClosingHolds(x)'
  BY <1>3, <1>9 DEF SaveCompletion
<1>10. \/ UNCHANGED closing
       \/ HandoverStep /\ \E h \in Closers :
            \/ BeginSnapshot(h) \/ ReadTravellers(h) \/ ReadDocuments(h) \/ ReadVisas(h)
            \/ ReadAssignments(h) \/ ReadHandover(h) \/ SaveCompletion(h)
  BY OthersLeaveHandover DEF HandoverStep, HandoverNext, handoverVars, BeginNaming, SaveNaming
<1> QED
  BY <1>1, <1>4, <1>6, <1>8, <1>9, <1>10

LEMMA NamingsStep ==
  ASSUME HandoverInv, [Next]_vars
  PROVE  naming' \in [Leads -> Naming \cup {None}] /\ \A g \in Leads : NamingHolds(g)'
<1> USE DEF HandoverInv, HandoverTypeOK
<1>1. CASE UNCHANGED naming
  BY <1>1, NamingKept
<1>2. ASSUME NEW g \in Leads, NEW n \in Naming \cup {None},
             naming' = [naming EXCEPT ![g] = n], NamingHolds(g)'
      PROVE  naming' \in [Leads -> Naming \cup {None}] /\ \A x \in Leads : NamingHolds(x)'
  <2>1. \A x \in Leads \ {g} : NamingHolds(x)'
    BY <1>2, NamingKept
  <2> QED
    BY <1>2, <2>1
<1>3. ASSUME NEW g \in Leads, NEW name \in Leaders \cup {None}, BeginNaming(g, name)
      PROVE  naming' \in [Leads -> Naming \cup {None}] /\ \A x \in Leads : NamingHolds(x)'
  <2> DEFINE n == [name |-> name, version |-> handoverVersion]
  <2>1. n \in Naming /\ naming' = [naming EXCEPT ![g] = n] /\ UNCHANGED handoverRow /\ ~completed
    BY <1>3 DEF BeginNaming, Naming
  <2>2. NamingHolds(g)'
    BY <2>1 DEF NamingHolds, handoverRow
  <2> QED
    BY <1>2, <2>1, <2>2
<1>4. ASSUME NEW g \in Leads, SaveNaming(g)
      PROVE  naming' \in [Leads -> Naming \cup {None}] /\ \A x \in Leads : NamingHolds(x)'
  <2>1. naming' = [naming EXCEPT ![g] = None]
    BY <1>4 DEF SaveNaming
  <2> QED
    BY <1>2, <2>1 DEF NamingHolds
<1>5. \/ UNCHANGED naming
      \/ \E g \in Leads : SaveNaming(g) \/ \E name \in Leaders \cup {None} : BeginNaming(g, name)
  BY OthersLeaveHandover DEF HandoverStep, HandoverNext, handoverVars, BeginSnapshot,
     ReadTravellers, ReadDocuments, ReadVisas, ReadAssignments, ReadHandover, Goes, SaveCompletion
<1> QED
  BY <1>1, <1>3, <1>4, <1>5


LEMMA HandoverInvStep ==
  HandoverInv /\ PapersInv /\ BookingTypeOK /\ [Next]_vars => HandoverInv'
<1> SUFFICES ASSUME HandoverInv, PapersInv, BookingTypeOK, [Next]_vars PROVE HandoverInv'
  OBVIOUS
<1>1. HandoverTypeOK'
  BY RowIsKeptOrWritten, ClosingsStep, NamingsStep DEF HandoverTypeOK
<1>2. HandedOverHaveVisas'
  <2>1. \A t \in Travellers : visa[t] = "Approved" => visa'[t] = "Approved"
    BY ApprovalsStay
  <2>2. handedOver' \subseteq Travellers
    BY RowIsKeptOrWritten
  <2>3. CASE UNCHANGED <<completed, handedOver>>
    BY <2>1, <2>2, <2>3 DEF HandoverInv, HandedOverHaveVisas
  <2>4. CASE \A t \in handedOver' : visa[t] = "Approved"
    BY <2>1, <2>2, <2>4 DEF HandedOverHaveVisas
  <2> QED
    BY <2>3, <2>4, RowIsKeptOrWritten
<1> QED
  BY <1>1, <1>2, ClosingsStep, NamingsStep DEF HandoverInv

LEMMA DepartureInvInit == Init => DepartureInv
<1> SUFFICES ASSUME Init PROVE DepartureInv
  OBVIOUS
<1>1. PICK s \in Scenarios : s.party \in Parties /\ BookingInit(s.party) /\ left = s.left
                             /\ s.left \in [Operations -> Nat]
  BY ScenariosAssumption DEF Init
<1>2. BookingTypeOK
  BY <1>1, PartiesAreParties DEF BookingInit, BookingTypeOK
<1>3. AmendInv
  BY <1>2 DEF Init, AmendInit, AmendTypeOK, AmendInv, PreviewHolds
<1>4. HandoverInv
  BY DEF Init, HandoverInit, HandoverInv, HandoverTypeOK, HandedOverHaveVisas, ClosingHolds,
     NamingHolds
<1> QED
  BY <1>3, <1>4, RoomsInvInit, PapersInvInit DEF DepartureInv

LEMMA DepartureInvStep == DepartureInv /\ [Next]_vars => DepartureInv'
BY RoomsInvStep, AmendInvStep, PapersInvStep, HandoverInvStep DEF DepartureInv, AmendInv

(* Every reachable state satisfies the invariant of all the components. *)
THEOREM DepartureInvariant == Spec => []DepartureInv
BY DepartureInvInit, DepartureInvStep, PTL DEF Spec

(* All tables, pages and requests stay well-formed. *)
THEOREM DepartureTypes == Spec => []TypeOK
<1>1. DepartureInv => TypeOK
  BY DEF DepartureInv, RoomsInv, AmendInv, PapersInv, HandoverInv, TypeOK
<1> QED
  BY <1>1, DepartureInvariant, PTL

(* VS-28:12: whoever was counted by the completing snapshot has an approved
   visa, however late the snapshot was saved: an approval is for good. *)
THEOREM HandedOverVisasTheorem == Spec => []HandedOverHaveVisas
<1>1. DepartureInv => HandedOverHaveVisas
  BY DEF DepartureInv, HandoverInv
<1> QED
  BY <1>1, DepartureInvariant, PTL

(* VS-25:65: an amendment replaces exactly the party its preview showed. *)
THEOREM AmendmentTheorem == Spec => AmendsWhatWasPreviewed
<1> DEFINE AsPreviewed ==
             bookingVersion' # bookingVersion =>
               \E a \in Amenders :
                 /\ amendAt[a] = "confirming"
                 /\ envelope[a].shown = party /\ envelope[a].proposed = party'
<1>1. DepartureInv /\ [Next]_vars => AsPreviewed
  <2> SUFFICES ASSUME AmendInv, [Next]_vars, bookingVersion' # bookingVersion
               PROVE  \E a \in Amenders :
                        /\ amendAt[a] = "confirming"
                        /\ envelope[a].shown = party /\ envelope[a].proposed = party'
    BY DEF DepartureInv
  <2>1. PICK a \in Amenders : SaveAmendment(a) /\ AmendmentSaves(a)
    BY OthersLeaveBooking DEF AmendmentNext, AmendStep, PreviewReadBooking, PreviewReadTravellers,
       PreviewExpires, ConfirmReadBooking, SaveAmendment, bookingRow
  <2> QED
    BY <2>1 DEF AmendInv, PreviewHolds, SaveAmendment, AmendmentSaves
<1> QED
  BY <1>1, DepartureInvariant, PTL DEF Spec, AmendsWhatWasPreviewed

(* VS-13:13: approved and rejected visa cases stay as they are, and a document
   that was decided on is only ever superseded, whatever overlaps. *)
THEOREM VerdictsTheorem == Spec => VerdictsStand
<1> DEFINE Stand ==
      /\ \A q \in Requirements : \A i \in DOMAIN submissions[q] :
           submissions[q][i].state \in Verdicts =>
             submissions'[q][i].state \in {submissions[q][i].state} \cup Superseding
      /\ \A t \in Travellers :
           visa[t] \in {"Approved", "Rejected"} => visa'[t] = visa[t]
<1>1. DepartureInv /\ [Next]_vars => Stand
  BY SubmissionsContinue, ApprovalsStay DEF DepartureInv, Continues
<1> QED
  BY <1>1, DepartureInvariant, PTL DEF Spec, VerdictsStand

(* VS-28:20: nothing is written to the handover row once it is completed. *)
THEOREM FrozenTheorem == Spec => CompletedIsFrozen
<1>1. DepartureInv /\ [Next]_vars => (completed => UNCHANGED handoverRow)
  BY RowIsKeptOrWritten DEF DepartureInv, RowWritten
<1> QED
  BY <1>1, DepartureInvariant, PTL DEF Spec, CompletedIsFrozen

=============================================================================
