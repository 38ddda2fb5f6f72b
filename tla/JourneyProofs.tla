---------------------------- MODULE JourneyProofs ----------------------------
(***************************************************************************)
(* Proofs about BookingJourney for every number of tabs, holds and keys,   *)
(* every set of quotes and pools, and every allowance.                     *)
(***************************************************************************)
EXTENDS BookingJourney, SequenceTheorems, TLAPS

(* the request a message is, or answers *)
Asked(m) == IF m.kind = "answer" THEN m.re ELSE m
AboutBooking(m) == Asked(m).kind \in {"book", "save"}

(* A message names its own tab, and holds that exist. *)
Named(m) ==
  /\ Asked(m).tab = m.tab
  /\ Asked(m).kind # "secure" => Asked(m).hold \in Holds!Rows
  /\ m.kind = "answer" /\ m.what \in Statuses \cup {"exists"} => m.about \in Holds!Rows
  /\ m.kind = "answer" /\ m.what = "booking" => m.about \in DOMAIN bookings
  /\ m.kind = "answer" /\ m.what = "gone" => Asked(m).kind = "secure"

HoldViews == {"active", "preparing", "refused", "unbookable", "payment"}

(* A page hears only answers to its own requests: a booking page those about
   the hold it was opened for, a plan page those about holds. *)
Heard(m) ==
  m.heard =>
    IF AboutBooking(m)
    THEN view[m.tab] = "preparing" /\ shown[m.tab] = Asked(m).hold
    ELSE view[m.tab] \in PlanViews

TypeInv ==
  /\ TypeOK
  /\ Holds!ReadersHoldRows
  /\ \A m \in wire : Named(m)
  /\ \A t \in Tabs : view[t] \in HoldViews => shown[t] # None

(* Rows are never taken away or changed, so what was true of a hold stays so. *)
TableKept ==
  /\ Holds!TypeOK' /\ Holds!ReadersHoldRows'
  /\ Holds!Rows \subseteq Holds!Rows'
  /\ \A h \in Holds!Rows : row'[h] = row[h]
-----------------------------------------------------------------------------
LEMMA MaterializedStates ==
  ASSUME Holds!TypeOK, NEW rows, NEW t
  PROVE  /\ Holds!Materialized(rows, t)
              \in [HoldIds -> {"Absent", "Active", "Released", "Expired", "Committed"}]
         /\ \A h \in HoldIds :
              Holds!Materialized(rows, t)[h] = "Absent" <=> state[h] = "Absent"
BY DEF Holds!Materialized, Holds!Lapsed, Holds!TypeOK, Holds!HoldState

(* Every table action the journey uses keeps the table's types and rows. *)
LEMMA TableStep ==
  ASSUME Holds!TypeOK, Holds!ReadersHoldRows,
         \/ \E q \in Quotes, k \in Keys, h \in HoldIds : Holds!CreateHold(q, k, h)
         \/ \E q \in Quotes, k \in Keys : Holds!ReplayHold(q, k)
         \/ \E t \in Tabs, h \in HoldIds : Holds!GetHoldRead(t, h)
         \/ \E t \in Tabs : Holds!GetHoldWrite(t)
         \/ \E h \in HoldIds : Holds!ReleaseHold(h)
         \/ \E h \in HoldIds, s \in 0..MaxTime : Holds!CommitHold(h, s)
         \/ Holds!Tick
         \/ UNCHANGED holdVars
  PROVE  TableKept
<1> USE BoundsAssumption, NoneAssumption DEF TableKept, Holds!TypeOK, Holds!Rows,
      Holds!ReadersHoldRows, Holds!HoldState
<1>1. ASSUME NEW q \in Quotes, NEW k \in Keys, NEW h \in HoldIds, Holds!CreateHold(q, k, h)
      PROVE  TableKept
  <2> DEFINE mat == Holds!Materialized(Holds!RowsOf(Quote[q].pool), now)
             r == [quote |-> q, key |-> k,
                   expires |-> Holds!CalculateExpiry(now, Quote[q].expires)]
  <2>1. /\ mat \in [HoldIds -> {"Absent", "Active", "Released", "Expired", "Committed"}]
        /\ \A x \in HoldIds : mat[x] = "Absent" <=> state[x] = "Absent"
    BY MaterializedStates
  <2>2. r \in Holds!HoldRow
    BY JourneyQuoteAssumption DEF Holds!HoldRow, Holds!CalculateExpiry
  <2>3. /\ state[h] = "Absent"
        /\ state' = [mat EXCEPT ![h] = "Active"] /\ row' = [row EXCEPT ![h] = r]
        /\ UNCHANGED <<now, capacity, commitment, reading>>
    BY <1>1 DEF Holds!CreateHold
  <2> HIDE DEF mat, r
  <2> QED
    BY <2>1, <2>2, <2>3
<1>2. ASSUME NEW q \in Quotes, NEW k \in Keys, Holds!ReplayHold(q, k)
      PROVE  TableKept
  BY <1>2, MaterializedStates DEF Holds!ReplayHold
<1>3. ASSUME NEW t \in Tabs, NEW h \in HoldIds, Holds!GetHoldRead(t, h)
      PROVE  TableKept
  BY <1>3 DEF Holds!GetHoldRead
<1>4. ASSUME NEW t \in Tabs, Holds!GetHoldWrite(t)
      PROVE  TableKept
  BY <1>4 DEF Holds!GetHoldWrite
<1>5. ASSUME NEW h \in HoldIds, Holds!ReleaseHold(h)
      PROVE  TableKept
  BY <1>5 DEF Holds!ReleaseHold
<1>6. ASSUME NEW h \in HoldIds, NEW s \in 0..MaxTime, Holds!CommitHold(h, s)
      PROVE  TableKept
  BY <1>6 DEF Holds!CommitHold
<1>7. CASE Holds!Tick
  BY <1>7 DEF Holds!Tick
<1>8. CASE UNCHANGED holdVars
  BY <1>8 DEF holdVars
<1> QED
  BY <1>1, <1>2, <1>3, <1>4, <1>5, <1>6, <1>7, <1>8
-----------------------------------------------------------------------------
(* What a step does to the messages: those it keeps were there, those it adds
   are typed and name what exists after it. *)
WireKept ==
  \A x \in wire' : x \in wire \/ (x \in Requests \cup Answers /\ Named(x)')

LEMMA NamesStay ==
  ASSUME TypeInv, TableKept, DOMAIN bookings \subseteq DOMAIN bookings', NEW x, Named(x)
  PROVE  Named(x)'
BY DEF Named, TableKept, Asked

LEMMA WireStep ==
  ASSUME TypeInv, TableKept, DOMAIN bookings \subseteq DOMAIN bookings', WireKept
  PROVE  wire' \subseteq Requests \cup Answers /\ \A x \in wire' : Named(x)'
BY NamesStay DEF WireKept, TypeInv, TypeOK

(* A message nobody waits for any more is as typed as it was. *)
LEMMA MutedRequest ==
  ASSUME NEW m \in Requests
  PROVE  /\ [m EXCEPT !.heard = FALSE] \in Requests
         /\ [m EXCEPT !.heard = FALSE].heard = FALSE
         /\ [m EXCEPT !.heard = FALSE].tab = m.tab
         /\ [m EXCEPT !.heard = FALSE].kind = m.kind
         /\ m.kind # "secure" => [m EXCEPT !.heard = FALSE].hold = m.hold
BY DEF Requests

LEMMA NextStage ==
  ASSUME NEW m \in Requests, m.kind # "secure", NEW k \in {"getting", "save"}
  PROVE  /\ [m EXCEPT !.kind = k] \in Requests
         /\ [m EXCEPT !.kind = k].kind = k
         /\ [m EXCEPT !.kind = k].heard = m.heard
         /\ [m EXCEPT !.kind = k].tab = m.tab
         /\ [m EXCEPT !.kind = k].hold = m.hold
BY DEF Requests

LEMMA RequestKinds ==
  ASSUME NEW m \in Requests
  PROVE  /\ m.kind \in {"secure", "get", "getting", "release", "book", "save"}
         /\ m.tab \in Tabs /\ m.heard \in BOOLEAN /\ Asked(m) = m
         /\ m.kind = "secure" => m.quote \in Quotes /\ m.key \in Keys
         /\ m.kind # "secure" => m.hold \in HoldIds
BY DEF Requests, Asked

LEMMA AnswerFields ==
  ASSUME NEW a \in Answers
  PROVE  /\ a.kind = "answer" /\ a.heard = TRUE /\ a.tab \in Tabs
         /\ a.re \in Requests /\ Asked(a) = a.re
         /\ a.about \in Nat \cup {None}
BY DEF Answers, Asked

Outcomes == Statuses \cup {"gone", "exists", "unavailable", "failed", "booking",
                           "unbookable", "refused"}

LEMMA AnswerType ==
  ASSUME NEW m \in Requests, NEW what \in Outcomes, NEW about \in Nat \cup {None}
  PROVE  /\ Answer(m, what, about) \in Answers
         /\ Answer(m, what, about).what = what
         /\ Answer(m, what, about).about = about
         /\ Answer(m, what, about).re = m
         /\ Answer(m, what, about).tab = m.tab
         /\ Answer(m, what, about).kind = "answer"
         /\ Asked(Answer(m, what, about)) = m
BY RequestKinds DEF Answer, Answers, Outcomes, Asked

LEMMA FailureType ==
  ASSUME NEW m \in Requests
  PROVE  /\ Answer(m, "failed", None) \in Answers
         /\ Answer(m, "failed", None).what = "failed"
         /\ Answer(m, "failed", None).tab = m.tab
         /\ Asked(Answer(m, "failed", None)) = m
BY RequestKinds DEF Answer, Answers, Asked

LEMMA MessageKinds ==
  ASSUME TypeInv, NEW m \in wire
  PROVE  /\ m.tab \in Tabs
         /\ m.kind = "answer" => m \in Answers
         /\ m.kind # "answer" => m \in Requests
BY RequestKinds, AnswerFields DEF TypeInv, TypeOK

LEMMA UnheardMessages ==
  ASSUME TypeInv, NEW t \in Tabs, NEW x \in Unheard(t)
  PROVE  \/ x \in wire /\ x.tab # t
         \/ x \in Requests /\ x.tab = t /\ ~x.heard /\ Named(x)
<1>1. CASE \E y \in wire : y.tab = t /\ y.kind # "answer" /\ x = [y EXCEPT !.heard = FALSE]
  <2>1. PICK y \in wire : y.tab = t /\ y.kind # "answer" /\ x = [y EXCEPT !.heard = FALSE]
    BY <1>1
  <2>2. y \in Requests /\ Named(y)
    BY <2>1, MessageKinds DEF TypeInv
  <2>3. x \in Requests /\ x.tab = t /\ ~x.heard /\ x.kind = y.kind
        /\ (y.kind # "secure" => x.hold = y.hold)
    BY <2>1, <2>2, MutedRequest
  <2>4. Named(x)
    BY <2>1, <2>2, <2>3, RequestKinds DEF Named
  <2> QED
    BY <2>3, <2>4
<1> QED
  BY <1>1 DEF Unheard

(* the answer to a request names what exists *)
LEMMA ReplyKept ==
  ASSUME TypeInv, TableKept, DOMAIN bookings \subseteq DOMAIN bookings',
         NEW m \in wire, m.kind # "answer", NEW what \in Outcomes, NEW about,
         Reply(m, what, about),
         what \in Statuses \cup {"exists"} => about \in Holds!Rows',
         what = "booking" => about \in DOMAIN bookings' \cap Nat,
         what = "gone" => m.kind = "secure",
         what \notin Statuses \cup {"exists", "booking"} => about = None
  PROVE  WireKept
<1>1. m \in Requests /\ Named(m)' /\ Asked(m) = m
  BY MessageKinds, NamesStay, RequestKinds DEF TypeInv
<1>2. about \in Nat \cup {None}
  BY BoundsAssumption DEF Holds!Rows, HoldIds
<1>3. Named(Answer(m, what, about))'
  BY <1>1, <1>2, AnswerType DEF Named
<1>4. Answer(m, what, about) \in Answers
  BY <1>1, <1>2, AnswerType
<1>5. ASSUME NEW x \in wire' PROVE x \in wire \/ x = Answer(m, what, about)
  BY <1>5 DEF Reply
<1> QED
  BY <1>3, <1>4, <1>5 DEF WireKept
-----------------------------------------------------------------------------
Growing == TableKept /\ DOMAIN bookings \subseteq DOMAIN bookings'

(* all of TypeInv but the table of holds and the messages *)
RestTyped ==
  /\ bookings \in Seq([hold : HoldIds, quote : Quotes, key : Tabs \X HoldIds])
  /\ issued \subseteq Quotes
  /\ left \in [Operations -> Nat]
  /\ PagesTypeOK
  /\ \A t \in Tabs : view[t] \in HoldViews => shown[t] # None

LEMMA Assembled ==
  ASSUME TypeInv, Growing, RestTyped', WireKept
  PROVE  TypeInv'
BY WireStep DEF TypeInv, TypeOK, TablesTypeOK, RestTyped, Growing, TableKept

LEMMA SpendType ==
  ASSUME left \in [Operations -> Nat], NEW op \in Operations, Spend(op)
  PROVE  left' \in [Operations -> Nat]
<1>1. left[op] - 1 \in Nat
  BY DEF Spend
<1> QED
  BY <1>1 DEF Spend

LEMMA PagesStay ==
  ASSUME TypeInv, Growing, UNCHANGED page
  PROVE  PagesTypeOK' /\ \A t \in Tabs : view'[t] \in HoldViews => shown'[t] # None
BY DEF TypeInv, TypeOK, PagesTypeOK, Growing, TableKept, page

(* A request of the plan or booking page for a hold it shows is well named. *)
LEMMA AboutNamed ==
  ASSUME TypeInv, Growing, NEW t \in Tabs, NEW h \in Holds!Rows,
         NEW k \in {"get", "release", "book"}
  PROVE  /\ About(k, t, h) \in Requests
         /\ About(k, t, h).tab = t /\ About(k, t, h).kind = k
         /\ About(k, t, h).hold = h /\ About(k, t, h).heard
         /\ Named(About(k, t, h))'
<1>1. h \in HoldIds /\ h \in Holds!Rows'
  BY DEF Growing, TableKept, Holds!Rows
<1> QED
  BY <1>1 DEF About, Requests, Named, Asked

LEMMA SecureNamed ==
  ASSUME NEW t \in Tabs, NEW q \in Quotes, NEW k \in Keys
  PROVE  /\ Secure(t, q, k) \in Requests
         /\ Secure(t, q, k).tab = t /\ Secure(t, q, k).kind = "secure"
         /\ Named(Secure(t, q, k))'
BY DEF Secure, Requests, Named, Asked

LEMMA PageTypeStep ==
  ASSUME TypeInv, NEW t \in Tabs,
         \/ \E q \in Quotes : CreateQuote(t, q)
         \/ ResetQuote(t) \/ QuoteTimer(t) \/ SecureAvailability(t)
         \/ Refresh(t) \/ ExpiryTimer(t) \/ ReleaseHold(t) \/ Reload(t)
         \/ \E h \in HoldIds : OpenBooking(t, h)
         \/ RetryBooking(t)
  PROVE  TypeInv' /\ Growing /\ UNCHANGED <<holdVars, bookings>>
<1>1. Growing /\ UNCHANGED <<holdVars, bookings>>
  <2>1. UNCHANGED <<holdVars, bookings>>
    BY DEF CreateQuote, ResetQuote, QuoteTimer, SecureAvailability, Refresh, ExpiryTimer,
       ReleaseHold, Reload, OpenBooking, RetryBooking
  <2>2. TableKept
    BY <2>1, TableStep DEF TypeInv, TypeOK, TablesTypeOK
  <2> QED
    BY <2>1, <2>2 DEF Growing
<1>2. UNCHANGED <<Holds!Rows, bookings>>
  BY <1>1 DEF holdVars, Holds!Rows
<1> SUFFICES RestTyped' /\ WireKept
  BY <1>1, Assembled
<1> USE DEF RestTyped, TypeInv, TypeOK, TablesTypeOK, PagesTypeOK, WireKept, HoldViews
<1>3. ASSUME NEW q \in Quotes, CreateQuote(t, q) PROVE RestTyped' /\ WireKept
  <2>1. left' \in [Operations -> Nat]
    BY <1>3, SpendType DEF CreateQuote, Operations
  <2>2. keyOf' \in [Tabs -> [Quotes -> 0..MaxKeys]]
    BY <1>3, BoundsAssumption DEF CreateQuote, Forget
  <2> QED
    BY <1>2, <1>3, <2>1, <2>2 DEF CreateQuote, PlanViews
<1>4. CASE ResetQuote(t)
  <2>1. left' \in [Operations -> Nat]
    BY <1>4, SpendType DEF ResetQuote, Operations
  <2>2. keyOf' \in [Tabs -> [Quotes -> 0..MaxKeys]]
    BY <1>4, BoundsAssumption DEF ResetQuote, Forget
  <2> QED
    BY <1>2, <1>4, <2>1, <2>2 DEF ResetQuote, PlanViews
<1>5. CASE QuoteTimer(t)
  BY <1>2, <1>5 DEF QuoteTimer, storage
<1>6. CASE SecureAvailability(t)
  <2> DEFINE q == quote[t]
             n == IF keyOf[t][q] = 0 THEN made[t] + 1 ELSE keyOf[t][q]
  <2>1. left' \in [Operations -> Nat]
    BY <1>6, SpendType DEF SecureAvailability, Operations
  <2>2. q \in Quotes /\ n <= MaxKeys
    BY <1>6 DEF SecureAvailability
  <2>3. keyOf[t][q] \in 0..MaxKeys /\ made[t] \in 0..MaxKeys
    BY <2>2
  <2>4. n \in 1..MaxKeys
    BY <2>2, <2>3, BoundsAssumption
  <2>5. keyOf' \in [Tabs -> [Quotes -> 0..MaxKeys]] /\ made' \in [Tabs -> 0..MaxKeys]
    BY <1>6, <2>2, <2>4, BoundsAssumption DEF SecureAvailability
  <2>6. wire' = wire \cup {Secure(t, q, <<t, n>>)}
    BY <1>6 DEF SecureAvailability
  <2>7. UNCHANGED <<quote, stale, arrived, issued>>
        /\ view' = [view EXCEPT ![t] = "securing"] /\ shown' = [shown EXCEPT ![t] = None]
    BY <1>6 DEF SecureAvailability
  <2> HIDE DEF q, n
  <2>8. <<t, n>> \in Keys
    BY <2>4 DEF Keys
  <2>9. WireKept
    BY <2>2, <2>6, <2>8, SecureNamed
  <2> QED
    BY <1>2, <2>1, <2>5, <2>7, <2>9 DEF PlanViews
<1>7. CASE Refresh(t) \/ ExpiryTimer(t)
  <2>1. left' \in [Operations -> Nat]
    BY <1>7, SpendType DEF Refresh, ExpiryTimer, Operations
  <2>2. shown[t] \in Holds!Rows /\ wire' = wire \cup {About("get", t, shown[t])}
    BY <1>7 DEF Refresh, ExpiryTimer, LoadHold
  <2>3. WireKept
    BY <1>1, <2>2, AboutNamed
  <2> QED
    BY <1>1, <1>2, <1>7, <2>1, <2>3, PagesStay DEF Refresh, ExpiryTimer
<1>8. CASE ReleaseHold(t)
  <2>1. left' \in [Operations -> Nat]
    BY <1>8, SpendType DEF ReleaseHold, Operations
  <2>2. shown[t] \in Holds!Rows /\ wire' = wire \cup {About("release", t, shown[t])}
    BY <1>8 DEF ReleaseHold
  <2>3. WireKept
    BY <1>1, <2>2, AboutNamed
  <2> QED
    BY <1>2, <1>8, <2>1, <2>3 DEF ReleaseHold, PlanViews, storage
<1>9. CASE Reload(t)
  <2>1. left' \in [Operations -> Nat]
    BY <1>9, SpendType DEF Reload, Operations
  <2>2. WireKept
    BY <1>1, <1>9, UnheardMessages, NamesStay DEF Reload, Growing
  <2> QED
    BY <1>2, <1>9, <2>1, <2>2 DEF Reload, PlanViews, storage
<1>10. ASSUME NEW h \in HoldIds, OpenBooking(t, h) PROVE RestTyped' /\ WireKept
  <2>1. left' \in [Operations -> Nat]
    BY <1>10, SpendType DEF OpenBooking, Operations
  <2>2. h \in Holds!Rows /\ h # None
    BY <1>10, NoneAssumption DEF OpenBooking
  <2>3. WireKept
    BY <1>1, <1>10, <2>2, UnheardMessages, NamesStay, AboutNamed DEF OpenBooking, Growing
  <2> QED
    BY <1>2, <1>10, <2>1, <2>2, <2>3 DEF OpenBooking, storage
<1>11. CASE RetryBooking(t)
  <2>1. left' \in [Operations -> Nat]
    BY <1>11, SpendType DEF RetryBooking, Operations
  <2>2. shown[t] \in Holds!Rows /\ wire' = wire \cup {About("book", t, shown[t])}
    BY <1>11 DEF RetryBooking
  <2>3. WireKept
    BY <1>1, <2>2, AboutNamed
  <2> QED
    BY <1>2, <1>11, <2>1, <2>3 DEF RetryBooking, storage
<1> QED
  BY <1>3, <1>4, <1>5, <1>6, <1>7, <1>8, <1>9, <1>10, <1>11
-----------------------------------------------------------------------------
(* the rows a booking is saved beside *)
LEMMA BookingAppended ==
  ASSUME bookings \in Seq([hold : HoldIds, quote : Quotes, key : Tabs \X HoldIds]),
         NEW b \in [hold : HoldIds, quote : Quotes, key : Tabs \X HoldIds],
         bookings' = Append(bookings, b)
  PROVE  /\ bookings' \in Seq([hold : HoldIds, quote : Quotes, key : Tabs \X HoldIds])
         /\ DOMAIN bookings' = DOMAIN bookings \cup {Len(bookings) + 1}
         /\ Len(bookings) + 1 \notin DOMAIN bookings /\ Len(bookings) \in Nat
         /\ bookings'[Len(bookings) + 1] = b
         /\ \A c \in DOMAIN bookings : c \in Nat /\ bookings'[c] = bookings[c]
OBVIOUS

LEMMA BookingColumns ==
  ASSUME TypeInv, NEW b \in DOMAIN bookings
  PROVE  /\ bookings[b].hold \in HoldIds /\ bookings[b].quote \in Quotes
         /\ bookings[b].key \in Tabs \X HoldIds
<1>1. bookings[b] \in [hold : HoldIds, quote : Quotes, key : Tabs \X HoldIds]
  BY ElementOfSeq, LenProperties DEF TypeInv, TypeOK, TablesTypeOK
<1> QED
  BY <1>1

LEMMA RowColumns ==
  ASSUME TypeInv, NEW h \in Holds!Rows
  PROVE  /\ h \in HoldIds /\ row[h].quote \in Quotes
         /\ row[h].key \in Keys /\ row[h].expires \in Nat
BY DEF TypeInv, TypeOK, TablesTypeOK, Holds!TypeOK, Holds!Rows, Holds!HoldRow

(* What handling a request does to the tables: it keeps the table of holds, or
   appends a booking of the hold the request is about. *)
NewBooking(m) ==
  [hold |-> m.hold, quote |-> row[m.hold].quote, key |-> BookingKey(m)]
BookingInserted(m) ==
  /\ m.kind = "save" /\ UNCHANGED holdVars
  /\ ForKey(BookingKey(m)) = {} /\ ForHold(m.hold) = {}
  /\ ~QuoteBooked(row[m.hold].quote)
  /\ bookings' = Append(bookings, NewBooking(m))

LEMMA ServerTables ==
  ASSUME TypeInv, NEW m \in wire, Handled(m)
  PROVE  /\ Growing /\ UNCHANGED <<issued, page>> /\ left' \in [Operations -> Nat]
         /\ bookings' \in Seq([hold : HoldIds, quote : Quotes, key : Tabs \X HoldIds])
         /\ UNCHANGED bookings \/ BookingInserted(m)
         /\ m \in Requests /\ Named(m)
<1>1. m \in Requests /\ Named(m)
  BY MessageKinds DEF TypeInv, Handled, HoldCreated, HoldReplayed, HoldRefused, GetRead,
     GetAnswered, HoldReleased, BookingChecked, BookingSaved
<1>2. m.tab \in Tabs /\ (m.kind # "secure" => m.hold \in Holds!Rows)
      /\ (m.kind = "secure" => m.quote \in Quotes /\ m.key \in Keys)
  BY <1>1, RequestKinds DEF Named
<1>3. UNCHANGED <<issued, page>>
  BY DEF Handled, HoldCreated, HoldReplayed, HoldRefused, GetRead, GetAnswered, HoldReleased,
     BookingChecked, BookingSaved
<1>4. left' \in [Operations -> Nat]
  BY SpendType DEF Handled, HoldCreated, HoldReplayed, HoldRefused, GetRead, GetAnswered,
     HoldReleased, BookingChecked, BookingSaved, TypeInv, TypeOK, TablesTypeOK, Operations
<1>5. UNCHANGED bookings \/ BookingInserted(m)
  <2>1. CASE BookingSaved(m)
    BY <2>1 DEF BookingSaved, BookingInserted, NewBooking
  <2> QED
    BY <2>1 DEF Handled, HoldCreated, HoldReplayed, HoldRefused, GetRead, GetAnswered,
       HoldReleased, BookingChecked
<1>6. TableKept
  <2> USE DEF TypeInv, TypeOK, TablesTypeOK
  <2>1. CASE \E h \in HoldIds : HoldCreated(m, h)
    BY <1>2, <2>1, TableStep DEF HoldCreated
  <2>2. CASE \E h \in HoldIds : HoldReplayed(m, h)
    BY <1>2, <2>2, TableStep DEF HoldReplayed
  <2>3. CASE GetRead(m)
    BY <1>2, <2>3, TableStep DEF GetRead, Holds!Rows
  <2>4. CASE GetAnswered(m)
    BY <1>2, <2>4, TableStep DEF GetAnswered
  <2>5. CASE HoldReleased(m)
    BY <1>2, <2>5, TableStep DEF HoldReleased, Holds!Rows
  <2>6. CASE HoldRefused(m) \/ BookingChecked(m) \/ BookingSaved(m)
    BY <2>6, TableStep DEF HoldRefused, BookingChecked, BookingSaved
  <2> QED
    BY <2>1, <2>2, <2>3, <2>4, <2>5, <2>6 DEF Handled
<1>7. /\ bookings' \in Seq([hold : HoldIds, quote : Quotes, key : Tabs \X HoldIds])
      /\ DOMAIN bookings \subseteq DOMAIN bookings'
  <2>1. CASE BookingInserted(m)
    <3>1. NewBooking(m) \in [hold : HoldIds, quote : Quotes, key : Tabs \X HoldIds]
      BY <1>2, <2>1, RowColumns DEF NewBooking, BookingInserted, BookingKey
    <3> QED
      BY <2>1, <3>1, BookingAppended DEF BookingInserted, TypeInv, TypeOK, TablesTypeOK
  <2> QED
    BY <1>5, <2>1 DEF TypeInv, TypeOK, TablesTypeOK
<1> QED
  BY <1>1, <1>3, <1>4, <1>5, <1>6, <1>7 DEF Growing

LEMMA StatusType ==
  ASSUME TypeInv, NEW h \in Holds!Rows
  PROVE  Status(h, state[h]) \in Statuses /\ Status(h, "Active") \in Statuses
BY DEF Status, Statuses, TypeInv, TypeOK, TablesTypeOK, Holds!TypeOK, Holds!HoldState,
   Holds!Rows

LEMMA ServerTypeStep ==
  ASSUME TypeInv, NEW m \in wire, Handled(m)
  PROVE  TypeInv' /\ Growing
<1>1. /\ Growing /\ UNCHANGED <<issued, page>> /\ left' \in [Operations -> Nat]
      /\ bookings' \in Seq([hold : HoldIds, quote : Quotes, key : Tabs \X HoldIds])
      /\ m \in Requests /\ Named(m) /\ m.kind # "answer"
  BY ServerTables, RequestKinds
<1>2. /\ m.kind # "secure" => m.hold \in Holds!Rows
      /\ TableKept /\ Holds!Rows \subseteq Holds!Rows'
      /\ DOMAIN bookings \subseteq DOMAIN bookings'
  BY <1>1, RequestKinds DEF Named, Growing, TableKept
<1>3. RestTyped'
  BY <1>1, PagesStay DEF RestTyped, TypeInv, TypeOK, TablesTypeOK
<1> SUFFICES WireKept
  BY <1>1, <1>3, Assembled
<1> USE <1>1, <1>2 DEF Outcomes
<1>4. ASSUME NEW h \in HoldIds, HoldCreated(m, h) PROVE WireKept
  <2>1. h \in Holds!Rows'
    BY <1>4 DEF HoldCreated, Holds!CreateHold, Holds!Rows, Holds!Materialized, TypeInv,
       TypeOK, TablesTypeOK, Holds!TypeOK
  <2> QED
    BY <1>4, <2>1, ReplyKept DEF HoldCreated, Statuses
<1>5. ASSUME NEW h \in HoldIds, HoldReplayed(m, h) PROVE WireKept
  BY <1>5, ReplyKept, StatusType DEF HoldReplayed, Holds!Rows, Statuses
<1>6. CASE HoldRefused(m)
  <2>1. \A x \in Holds!RowsOf(Quote[m.quote].pool) : x \in Holds!Rows'
    BY DEF Holds!RowsOf
  <2> QED
    BY <1>6, <2>1, ReplyKept DEF HoldRefused, Statuses
<1>7. ASSUME NEW k \in {"getting", "save"}, m.kind \in {"get", "book"},
             wire' = (wire \ {m}) \cup {[m EXCEPT !.kind = k]}
      PROVE  WireKept
  <2> DEFINE n == [m EXCEPT !.kind = k]
  <2>1. n \in Requests /\ n.kind = k /\ n.tab = m.tab /\ n.hold = m.hold
    BY <1>7, NextStage
  <2> HIDE DEF n
  <2>2. Named(n)
    BY <1>7, <2>1, RequestKinds DEF Named
  <2>3. Named(n)'
    BY <2>2, NamesStay
  <2> QED
    BY <1>7, <2>1, <2>3 DEF WireKept, n
<1>8. CASE GetRead(m)
  BY <1>7, <1>8, ReplyKept, StatusType DEF GetRead, Statuses
<1>9. CASE GetAnswered(m)
  BY <1>9, ReplyKept, StatusType DEF GetAnswered, Statuses
<1>10. CASE HoldReleased(m)
  BY <1>10, ReplyKept, StatusType DEF HoldReleased, Statuses
<1>11. CASE BookingChecked(m)
  BY <1>7, <1>11, ReplyKept DEF BookingChecked, Statuses
<1>12. CASE BookingSaved(m)
  <2>1. \A b \in DOMAIN bookings : b \in DOMAIN bookings' \cap Nat
    BY DEF TypeInv, TypeOK, TablesTypeOK
  <2>2. CASE UNCHANGED bookings
    <3>1. CASE Reply(m, "unbookable", None)
      BY <3>1, ReplyKept DEF Statuses
    <3>2. ASSUME NEW b \in DOMAIN bookings, Reply(m, "booking", b) PROVE WireKept
      BY <2>1, <3>2, ReplyKept DEF Statuses
    <3>3. /\ \A k : ForKey(k) \subseteq DOMAIN bookings
          /\ \A h : ForHold(h) \subseteq DOMAIN bookings
          /\ Append(bookings, NewBooking(m)) # bookings
      <4>1. NewBooking(m) \in [hold : HoldIds, quote : Quotes, key : Tabs \X HoldIds]
        BY <1>12, RequestKinds, RowColumns DEF NewBooking, BookingSaved, BookingKey
      <4> QED
        BY <4>1, LenProperties, AppendProperties
        DEF ForKey, ForHold, TypeInv, TypeOK, TablesTypeOK
    <3> QED
      BY <1>12, <2>2, <3>1, <3>2, <3>3 DEF BookingSaved, NewBooking
  <2>3. CASE bookings' # bookings
    <3>1. BookingInserted(m)
      BY <2>3, ServerTables
    <3>2. NewBooking(m) \in [hold : HoldIds, quote : Quotes, key : Tabs \X HoldIds]
      BY <3>1, RequestKinds, RowColumns DEF NewBooking, BookingInserted, BookingKey
    <3>3. Len(bookings) + 1 \in DOMAIN bookings' \cap Nat
      BY <3>1, <3>2, BookingAppended DEF BookingInserted, TypeInv, TypeOK, TablesTypeOK
    <3>4. Reply(m, "booking", Len(bookings) + 1)
      BY <1>12, <2>3 DEF BookingSaved
    <3> QED
      BY <3>3, <3>4, ReplyKept DEF Statuses
  <2> QED
    BY <2>2, <2>3
<1> QED
  BY <1>4, <1>5, <1>6, <1>8, <1>9, <1>10, <1>11, <1>12 DEF Handled

LEMMA ForgetType ==
  ASSUME TypeInv, NEW t \in Tabs, NEW q \in Quotes \cup {None}, Forget(t, q)
  PROVE  keyOf' \in [Tabs -> [Quotes -> 0..MaxKeys]]
BY BoundsAssumption, NoneAssumption DEF Forget, TypeInv, TypeOK, PagesTypeOK

LEMMA ArrivalTypeStep ==
  ASSUME TypeInv, NEW a \in wire, AnswerArrives(a), Heard(a)
  PROVE  TypeInv' /\ Growing /\ UNCHANGED <<holdVars, bookings>>
<1> DEFINE t == a.tab
<1>1. /\ a \in Answers /\ a.re \in Requests /\ t \in Tabs /\ Named(a)
      /\ a.re.tab = t /\ Asked(a) = a.re /\ a.kind = "answer"
      /\ a.re.kind # "secure" => a.re.hold \in Holds!Rows
      /\ a.re.kind = "secure" => a.re.quote \in Quotes
      /\ a.what \in Statuses \cup {"exists"} => a.about \in Holds!Rows
      /\ a.what = "booking" => a.about \in DOMAIN bookings
      /\ a.what = "gone" => a.re.kind = "secure"
  BY MessageKinds, AnswerFields, RequestKinds DEF AnswerArrives, TypeInv, Named
<1>2. UNCHANGED <<holdVars, bookings, issued, left>>
  BY DEF AnswerArrives
<1>3. Growing
  BY <1>2, TableStep DEF Growing, TypeInv, TypeOK, TablesTypeOK
<1>4. UNCHANGED Holds!Rows
  BY <1>2 DEF holdVars, Holds!Rows
<1>5. \A h \in Holds!Rows : h # None /\ row[h].quote \in Quotes
  BY RowColumns, NoneAssumption
<1>6. WireKept
  <2>1. CASE a.what = "exists" /\ HoldAnswer(a)
    <3>1. wire' = (wire \ {a}) \cup {About("get", t, a.about)}
      BY <2>1 DEF HoldAnswer, Statuses
    <3> QED
      BY <1>1, <1>3, <2>1, <3>1, AboutNamed DEF WireKept
  <2> QED
    BY <2>1 DEF AnswerArrives, HoldAnswer, BookingAnswer, WireKept
<1> SUFFICES RestTyped'
  BY <1>2, <1>3, <1>6, Assembled
<1> HIDE DEF t
<1> USE DEF RestTyped, TypeInv, TypeOK, TablesTypeOK, PagesTypeOK, HoldViews
<1>7. ASSUME NEW h \in Holds!Rows, NEW s, ApplyHold(t, h, s) PROVE RestTyped'
  <2>1. keyOf' \in [Tabs -> [Quotes -> 0..MaxKeys]]
    BY <1>1, <1>5, <1>7, ForgetType DEF ApplyHold
  <2>2. UNCHANGED <<quote, stale, arrived, made>>
        /\ shown' = [shown EXCEPT ![t] = h]
        /\ \E v \in {"active", "released", "expired"} : view' = [view EXCEPT ![t] = v]
    BY <1>7 DEF ApplyHold
  <2> QED
    BY <1>1, <1>2, <1>4, <1>5, <2>1, <2>2 DEF PlanViews
<1>8. ASSUME NEW h \in Holds!Rows \cup {None}, ShowError(t, h) PROVE RestTyped'
  BY <1>1, <1>2, <1>4, <1>8 DEF ShowError, PlanViews, storage
<1>9. CASE HoldAnswer(a) /\ a.what = "gone" /\ a.re.kind = "secure"
  <2>1. /\ quote' = [quote EXCEPT ![t] = a.re.quote]
        /\ stale' = [stale EXCEPT ![t] = TRUE]
        /\ view' = [view EXCEPT ![t] = "quote-expired"]
        /\ shown' = [shown EXCEPT ![t] = None]
        /\ Forget(t, a.re.quote)
        /\ UNCHANGED <<arrived, made>>
    BY <1>9 DEF HoldAnswer, Statuses, t
  <2>2. keyOf' \in [Tabs -> [Quotes -> 0..MaxKeys]]
    BY <1>1, <1>9, <2>1, ForgetType
  <2> QED
    BY <1>1, <1>2, <1>4, <1>9, <2>1, <2>2 DEF PlanViews
<1>10. CASE HoldAnswer(a) /\ a.what = "unavailable"
  BY <1>1, <1>2, <1>4, <1>10 DEF HoldAnswer, Statuses, PlanViews, storage, t
<1>11. CASE HoldAnswer(a) /\ a.what = "exists"
  BY <1>2, <1>3, <1>11, PagesStay DEF HoldAnswer, Statuses
<1>12. CASE HoldAnswer(a) /\ a.what \in Statuses
  BY <1>1, <1>7, <1>12 DEF HoldAnswer, Statuses, t
<1>13. CASE HoldAnswer(a) /\ a.what = "failed"
  BY <1>1, <1>8, <1>13 DEF HoldAnswer, Statuses, t
<1>14. CASE BookingAnswer(a) /\ a.re.kind \in {"book", "save"}
    <2>1. /\ UNCHANGED <<quote, stale, shown, keyOf, made>>
        /\ \/ a.what = "booking" /\ arrived' = [arrived EXCEPT ![t] = a.about]
           \/ UNCHANGED arrived
        /\ \E v \in {"payment", "unbookable", "refused"} : view' = [view EXCEPT ![t] = v]
    BY <1>14 DEF BookingAnswer, storage, t
  <2>2. shown[t] # None
    BY <1>1, <1>5, <1>14, AnswerFields DEF Heard, AboutBooking, t
  <2> QED
    BY <1>1, <1>2, <1>4, <2>1, <2>2
<1> QED
  BY <1>1, <1>9, <1>10, <1>11, <1>12, <1>13, <1>14 DEF AnswerArrives, HoldAnswer

LEMMA FailTypeStep ==
  ASSUME TypeInv, NEW m \in wire, Fails(m)
  PROVE  TypeInv' /\ Growing /\ UNCHANGED <<holdVars, bookings>>
<1> DEFINE asked == Asked(m)
           n == [m EXCEPT !.heard = FALSE]
           told == Answer(asked, "failed", None)
<1>1. UNCHANGED <<holdVars, bookings, issued, page>>
  BY DEF Fails
<1>2. Growing
  BY <1>1, TableStep DEF Growing, TypeInv, TypeOK, TablesTypeOK
<1>3. left' \in [Operations -> Nat]
  BY SpendType DEF Fails, TypeInv, TypeOK, TablesTypeOK, Operations
<1>4. /\ asked \in Requests /\ asked.tab = m.tab /\ Named(m)
      /\ asked.kind # "secure" => asked.hold \in Holds!Rows
  BY MessageKinds, AnswerFields, RequestKinds DEF Named, TypeInv
<1>5. /\ told \in Answers /\ Asked(told) = asked /\ told.what = "failed"
      /\ told.tab = m.tab
  BY <1>4, FailureType
<1>6. Named(told)
  BY <1>4, <1>5 DEF Named, Statuses
<1>7. m.kind # "answer" => n \in Requests /\ Named(n)
  <2>1. SUFFICES ASSUME m.kind # "answer" PROVE n \in Requests /\ Named(n)
    OBVIOUS
  <2>2. m \in Requests /\ asked = m
    BY <2>1, MessageKinds, RequestKinds
  <2>3. n \in Requests /\ n.tab = m.tab /\ n.kind = m.kind
        /\ (m.kind # "secure" => n.hold = m.hold)
    BY <2>2, MutedRequest
  <2> HIDE DEF n
  <2> QED
    BY <1>4, <2>2, <2>3, RequestKinds DEF Named
<1>8. \A x \in wire' : x \in wire \/ x = told \/ (m.kind # "answer" /\ x = n)
  BY DEF Fails, Asked
<1> HIDE DEF told, n
<1>9. WireKept
  BY <1>2, <1>5, <1>6, <1>7, <1>8, NamesStay DEF WireKept, Growing
<1>10. RestTyped'
  BY <1>1, <1>2, <1>3, PagesStay DEF RestTyped, TypeInv, TypeOK, TablesTypeOK
<1> QED
  BY <1>1, <1>2, <1>9, <1>10, Assembled

LEMMA OtherTypeStep ==
  ASSUME TypeInv,
         \/ \E b \in DOMAIN bookings, s \in 0..MaxTime : BookingConfirmed(b, s)
         \/ Tick
         \/ UNCHANGED vars
  PROVE  TypeInv' /\ Growing /\ UNCHANGED <<bookings, wire, page>>
<1>1. UNCHANGED <<bookings, issued, wire, page>>
  BY DEF BookingConfirmed, Tick, vars
<1>2. TableKept
  <2>1. \A b \in DOMAIN bookings : bookings[b].hold \in HoldIds
    BY BookingColumns
  <2> QED
    BY <2>1, TableStep DEF BookingConfirmed, Tick, vars, TypeInv, TypeOK, TablesTypeOK
<1>3. left' \in [Operations -> Nat]
  BY SpendType DEF BookingConfirmed, Tick, vars, TypeInv, TypeOK, TablesTypeOK, Operations
<1>4. Growing /\ WireKept
  BY <1>1, <1>2 DEF Growing, WireKept
<1>5. RestTyped'
  BY <1>1, <1>3, <1>4, PagesStay DEF RestTyped, TypeInv, TypeOK, TablesTypeOK
<1> QED
  BY <1>1, <1>4, <1>5, Assembled
-----------------------------------------------------------------------------
OneAsk ==
  \A m, n \in wire :
    m.heard /\ n.heard /\ AboutBooking(m) /\ AboutBooking(n) /\ m.tab = n.tab => m = n

(* The mail of every tab is its own, and a booking page waits for one answer. *)
MailInv == OneAsk /\ \A m \in wire : Heard(m)

(* a step that leaves the pages alone, and replaces a message by one that is
   heard by the same tab about the same hold, if it is heard at all *)
LEMMA MailReplaced ==
  ASSUME TypeInv, MailInv, UNCHANGED page, NEW m \in wire, NEW n,
         \A x \in wire' : (x \in wire /\ x # m) \/ x = n \/ ~x.heard,
         n.heard = TRUE => m.heard = TRUE /\ n.tab = m.tab
                    /\ (AboutBooking(n) <=> AboutBooking(m))
                    /\ (AboutBooking(n) => Asked(n).hold = Asked(m).hold)
  PROVE  MailInv'
<1>1. m.heard \in BOOLEAN
  BY MessageKinds, AnswerFields, RequestKinds
<1>2. \A x : Heard(x)' <=> Heard(x)
  BY DEF Heard, page
<1>3. n.heard = TRUE => Heard(n)
  BY <1>1 DEF Heard, MailInv
<1>4. \A x \in wire' : Heard(x)'
  BY <1>2, <1>3 DEF MailInv, Heard
<1>5. OneAsk'
  BY <1>1 DEF OneAsk, MailInv
<1> QED
  BY <1>4, <1>5 DEF MailInv

(* A page stays on the plan and asks about holds, or hears an answer there. *)
LEMMA MailOnPlan ==
  ASSUME TypeInv, MailInv, NEW t \in Tabs, view[t] \in PlanViews, view'[t] \in PlanViews,
         \A u \in Tabs \ {t} : view'[u] = view[u] /\ shown'[u] = shown[u],
         \A x \in wire' : x \in wire \/ (x.tab = t /\ ~AboutBooking(x))
  PROVE  MailInv'
<1>1. \A x \in wire : x.heard /\ AboutBooking(x) => x.tab # t
  BY DEF MailInv, Heard, PlanViews
<1>2. \A x \in wire' : Heard(x)'
  BY <1>1, MessageKinds DEF MailInv, Heard
<1>3. OneAsk'
  BY <1>1 DEF MailInv, OneAsk
<1> QED
  BY <1>2, <1>3 DEF MailInv

LEMMA PlanKinds ==
  ASSUME NEW t, NEW h, NEW q, NEW k, NEW kind \in {"get", "release"}
  PROVE  /\ About(kind, t, h).tab = t /\ ~AboutBooking(About(kind, t, h))
         /\ Secure(t, q, k).tab = t /\ ~AboutBooking(Secure(t, q, k))
BY DEF About, Secure, AboutBooking, Asked

(* The tab's old messages are no longer heard; a new one, if any, is of the
   booking page. *)
LEMMA MailStep ==
  ASSUME TypeInv, MailInv, [Next]_vars
  PROVE  MailInv'
<1> USE DEF MailInv
<1>1. ASSUME NEW t \in Tabs, NEW h \in HoldIds, OpenBooking(t, h) PROVE MailInv'
  <2> DEFINE ask == About("book", t, h)
  <2>1. ask.tab = t /\ Asked(ask) = ask /\ ask.hold = h /\ AboutBooking(ask)
    BY DEF About, Asked, AboutBooking
  <2>2. \A x \in wire' : (x \in wire /\ x.tab # t) \/ ~x.heard \/ x = ask
    BY <1>1, UnheardMessages DEF OpenBooking
  <2>3. view'[t] = "preparing" /\ shown'[t] = h
        /\ \A u \in Tabs \ {t} : view'[u] = view[u] /\ shown'[u] = shown[u]
    BY <1>1 DEF OpenBooking, TypeInv, TypeOK, PagesTypeOK
  <2> HIDE DEF ask
  <2>4. \A x \in wire' : Heard(x)'
    BY <2>1, <2>2, <2>3, MessageKinds DEF Heard
  <2>5. OneAsk'
    BY <2>1, <2>2, <2>3 DEF OneAsk
  <2> QED
    BY <2>4, <2>5
<1>2. ASSUME NEW t \in Tabs, RetryBooking(t) PROVE MailInv'
  <2> DEFINE ask == About("book", t, shown[t])
  <2>1. ask.tab = t /\ Asked(ask) = ask /\ ask.hold = shown[t] /\ AboutBooking(ask)
    BY DEF About, Asked, AboutBooking
  <2>2. wire' = wire \cup {ask}
    BY <1>2 DEF RetryBooking
  <2>3. view[t] \in {"refused", "unbookable"} /\ view'[t] = "preparing"
        /\ shown' = shown /\ \A u \in Tabs \ {t} : view'[u] = view[u]
    BY <1>2 DEF RetryBooking, TypeInv, TypeOK, PagesTypeOK
  <2>4. \A x \in wire : x.heard => x.tab # t
    BY <2>3 DEF Heard, PlanViews
  <2> HIDE DEF ask
  <2>5. \A x \in wire' : Heard(x)'
    BY <2>1, <2>2, <2>3, <2>4, MessageKinds DEF Heard
  <2>6. OneAsk'
    BY <2>1, <2>2, <2>4 DEF OneAsk
  <2> QED
    BY <2>5, <2>6
<1>3. ASSUME NEW t \in Tabs, Reload(t) PROVE MailInv'
  <2>1. \A x \in wire' : (x \in wire /\ x.tab # t) \/ ~x.heard
    BY <1>3, UnheardMessages DEF Reload
  <2>2. \A u \in Tabs \ {t} : view'[u] = view[u] /\ shown'[u] = shown[u]
    BY <1>3 DEF Reload, TypeInv, TypeOK, PagesTypeOK
  <2> QED
    BY <2>1, <2>2, MessageKinds DEF Heard, OneAsk
<1>4. ASSUME NEW t \in Tabs,
             \/ \E q \in Quotes : CreateQuote(t, q)
             \/ ResetQuote(t) \/ QuoteTimer(t) \/ SecureAvailability(t)
             \/ Refresh(t) \/ ExpiryTimer(t) \/ ReleaseHold(t)
      PROVE  MailInv'
  <2>1. view[t] \in PlanViews /\ view'[t] \in PlanViews
    BY <1>4 DEF CreateQuote, ResetQuote, QuoteTimer, SecureAvailability, Refresh, ExpiryTimer,
       ReleaseHold, PlanViews, page, TypeInv, TypeOK, PagesTypeOK
  <2>2. \A u \in Tabs \ {t} : view'[u] = view[u] /\ shown'[u] = shown[u]
    BY <1>4 DEF CreateQuote, ResetQuote, QuoteTimer, SecureAvailability, Refresh, ExpiryTimer,
       ReleaseHold, page, TypeInv, TypeOK, PagesTypeOK
  <2>3. \A x \in wire' : x \in wire \/ (x.tab = t /\ ~AboutBooking(x))
    BY <1>4, PlanKinds DEF CreateQuote, ResetQuote, QuoteTimer, SecureAvailability, Refresh,
       ExpiryTimer, ReleaseHold, LoadHold
  <2> QED
    BY <2>1, <2>2, <2>3, MailOnPlan
<1>5. ASSUME NEW m \in wire, Handled(m) PROVE MailInv'
  <2>1. UNCHANGED page /\ m \in Requests /\ Asked(m) = m /\ m.heard \in BOOLEAN
    BY <1>5, ServerTables, RequestKinds
  <2>2. ASSUME NEW what, NEW about, Reply(m, what, about) PROVE MailInv'
    <3> DEFINE n == Answer(m, what, about)
    <3>1. n.tab = m.tab /\ Asked(n) = m
      BY DEF Answer, Asked
    <3>2. \A x \in wire' : (x \in wire /\ x # m) \/ (x = n /\ m.heard)
      BY <2>2 DEF Reply
    <3> HIDE DEF n
    <3>3. CASE m.heard
      <4>1. /\ AboutBooking(n) <=> AboutBooking(m)
            /\ AboutBooking(n) => Asked(n).hold = Asked(m).hold
        BY <2>1, <3>1 DEF AboutBooking
      <4>2. \A x \in wire' : (x \in wire /\ x # m) \/ x = n \/ ~x.heard
        BY <3>2
      <4> HIDE DEF MailInv
      <4> QED
        BY <2>1, <3>1, <3>3, <4>1, <4>2, MailReplaced
    <3>4. CASE ~m.heard
      <4>1. \A x \in wire' : (x \in wire /\ x # m) \/ x = m \/ ~x.heard
        BY <3>2, <3>4
      <4> HIDE DEF MailInv
      <4> QED
        BY <2>1, <3>4, <4>1, MailReplaced
    <3> QED
      BY <3>3, <3>4
  <2>3. ASSUME NEW k \in {"getting", "save"}, m.kind = IF k = "save" THEN "book" ELSE "get",
               wire' = (wire \ {m}) \cup {[m EXCEPT !.kind = k]}
        PROVE  MailInv'
    <3> DEFINE n == [m EXCEPT !.kind = k]
    <3>1. n \in Requests /\ n.kind = k /\ n.heard = m.heard /\ n.tab = m.tab /\ n.hold = m.hold
      BY <2>1, <2>3, NextStage
    <3>2. \A x \in wire' : (x \in wire /\ x # m) \/ x = n
      BY <2>3
    <3> HIDE DEF n
    <3>3. Asked(n) = n
      BY <3>1, RequestKinds
    <3>4. /\ AboutBooking(n) <=> AboutBooking(m)
          /\ AboutBooking(n) => Asked(n).hold = Asked(m).hold
      BY <2>1, <2>3, <3>1, <3>3 DEF AboutBooking
    <3>5. \A x \in wire' : (x \in wire /\ x # m) \/ x = n \/ ~x.heard
      BY <3>2
    <3> HIDE DEF MailInv
    <3> QED
      BY <2>1, <3>1, <3>4, <3>5, MailReplaced
  <2> QED
    BY <1>5, <2>2, <2>3 DEF Handled, HoldCreated, HoldReplayed, HoldRefused, GetRead,
       GetAnswered, HoldReleased, BookingChecked, BookingSaved
<1>6. ASSUME NEW a \in wire, AnswerArrives(a) PROVE MailInv'
  <2> DEFINE t == a.tab
  <2>1. a \in Answers /\ a.heard /\ t \in Tabs /\ Asked(a) = a.re /\ Heard(a)
    BY <1>6, MessageKinds, AnswerFields DEF AnswerArrives
  <2>2. \A u \in Tabs \ {t} : view'[u] = view[u] /\ shown'[u] = shown[u]
    BY <1>6, <2>1 DEF AnswerArrives, BookingAnswer, HoldAnswer, ApplyHold, ShowError, page,
       TypeInv, TypeOK, PagesTypeOK
  <2>3. CASE AboutBooking(a)
    <3>1. BookingAnswer(a) /\ view[t] = "preparing"
      BY <1>6, <2>1, <2>3 DEF AnswerArrives, AboutBooking, Heard
    <3>2. \A x \in wire' : x \in wire /\ (x.heard => x.tab # t)
      BY <2>1, <2>3, <3>1 DEF BookingAnswer, OneAsk, Heard, PlanViews
    <3> HIDE DEF t
    <3> QED
      BY <2>2, <3>2, MessageKinds DEF Heard, OneAsk
  <2>4. CASE ~AboutBooking(a)
    <3>1. HoldAnswer(a) /\ view[t] \in PlanViews
      BY <1>6, <2>1, <2>4 DEF AnswerArrives, AboutBooking, Heard
    <3>2. view'[t] \in PlanViews
      BY <2>1, <3>1 DEF HoldAnswer, ApplyHold, ShowError, PlanViews, page, TypeInv, TypeOK,
         PagesTypeOK
    <3>3. \A x \in wire' : x \in wire \/ (x.tab = t /\ ~AboutBooking(x))
      BY <3>1, PlanKinds DEF HoldAnswer
    <3> HIDE DEF t
    <3> QED
      BY <2>1, <2>2, <3>1, <3>2, <3>3, MailOnPlan
  <2> QED
    BY <2>3, <2>4
<1>7. ASSUME NEW m \in wire, Fails(m) PROVE MailInv'
  <2> DEFINE failed == Answer(Asked(m), "failed", None)
  <2>1. /\ m.heard = TRUE /\ UNCHANGED page /\ Asked(m) \in Requests /\ Asked(m).tab = m.tab
        /\ m.kind # "answer" => m \in Requests
    BY <1>7, MessageKinds, AnswerFields, RequestKinds DEF Fails, page, TypeInv, Named
  <2>2. \A x \in wire' : (x \in wire /\ x # m) \/ x = failed \/ ~x.heard
    BY <1>7, <2>1, MutedRequest DEF Fails, Asked
  <2>3. failed.tab = m.tab /\ Asked(failed) = Asked(m)
    BY <2>1 DEF Answer, Asked
  <2> HIDE DEF failed
  <2> QED
    BY <2>1, <2>2, <2>3, MailReplaced DEF AboutBooking
<1>8. CASE \/ \E b \in DOMAIN bookings, s \in 0..MaxTime : BookingConfirmed(b, s)
           \/ Tick \/ UNCHANGED vars
  BY <1>8, OtherTypeStep DEF Heard, OneAsk, page
<1> QED
  BY <1>1, <1>2, <1>3, <1>4, <1>5, <1>6, <1>7, <1>8 DEF Next, Server, Arrival
-----------------------------------------------------------------------------
(* A booking is of a hold that exists, under that hold's quote and key, and of
   no other booking's hold. *)
BookingsInv ==
  /\ \A b \in DOMAIN bookings :
       /\ bookings[b].hold \in Holds!Rows
       /\ bookings[b].quote = row[bookings[b].hold].quote
       /\ bookings[b].key[2] = bookings[b].hold
  /\ \A b, c \in DOMAIN bookings : bookings[b].hold = bookings[c].hold => b = c

(* the quote of h is booked, under another hold *)
Unbookable(h) ==
  /\ \A b \in DOMAIN bookings : bookings[b].hold # h
  /\ \E b \in DOMAIN bookings : bookings[b].quote = row[h].quote

AnswerTrue(a) ==
  a.kind = "answer" =>
    /\ a.what = "booking" => AboutBooking(a) /\ bookings[a.about].hold = a.re.hold
    /\ a.what = "unbookable" => AboutBooking(a) /\ Unbookable(a.re.hold)

PageTrue(t) ==
  /\ view[t] = "payment" =>
       arrived[t] \in DOMAIN bookings /\ bookings[arrived[t]].hold = shown[t]
  /\ view[t] = "unbookable" => Unbookable(shown[t])

JourneyInv ==
  /\ TypeInv /\ MailInv /\ BookingsInv
  /\ \A a \in wire : AnswerTrue(a)
  /\ \A t \in Tabs : PageTrue(t)

(* What is true of bookings stays true of them: rows and bookings are only
   added, and never a booking of a quote that is booked. *)
BookingsGrow ==
  /\ BookingsInv'
  /\ \A b \in DOMAIN bookings : b \in DOMAIN bookings' /\ bookings'[b] = bookings[b]
  /\ \A h \in Holds!Rows : Unbookable(h) => Unbookable(h)'

LEMMA BookingsStep ==
  ASSUME TypeInv, BookingsInv, Growing,
         UNCHANGED bookings \/ \E m \in wire : BookingInserted(m)
  PROVE  BookingsGrow
<1> USE DEF BookingsInv, BookingsGrow, Unbookable
<1>1. \A h \in Holds!Rows : h \in Holds!Rows' /\ row'[h] = row[h]
  BY DEF Growing, TableKept
<1>2. CASE UNCHANGED bookings
  BY <1>1, <1>2
<1>3. ASSUME NEW m \in wire, BookingInserted(m) PROVE BookingsGrow
  <2> DEFINE n == Len(bookings) + 1
  <2>1. m.hold \in Holds!Rows
    BY <1>3, MessageKinds, RequestKinds DEF BookingInserted, TypeInv, Named
  <2>2. m.tab \in Tabs /\ m.hold \in HoldIds /\ row[m.hold].quote \in Quotes
    BY <2>1, MessageKinds, RowColumns
  <2>3. NewBooking(m) \in [hold : HoldIds, quote : Quotes, key : Tabs \X HoldIds]
    BY <2>2 DEF NewBooking, BookingKey
  <2>4. /\ DOMAIN bookings' = DOMAIN bookings \cup {n} /\ n \notin DOMAIN bookings
        /\ bookings'[n] = NewBooking(m)
        /\ \A c \in DOMAIN bookings : bookings'[c] = bookings[c]
    BY <1>3, <2>3, BookingAppended DEF BookingInserted, TypeInv, TypeOK, TablesTypeOK
  <2>5. /\ NewBooking(m).hold = m.hold /\ NewBooking(m).quote = row[m.hold].quote
        /\ NewBooking(m).key[2] = m.hold
    BY DEF NewBooking, BookingKey
  <2>6. /\ \A b \in DOMAIN bookings : bookings[b].hold # m.hold
        /\ \A b \in DOMAIN bookings : bookings[b].quote # row[m.hold].quote
    BY <1>3 DEF BookingInserted, ForHold, QuoteBooked
  <2> HIDE DEF n
  <2>7. BookingsInv'
    BY <1>1, <2>1, <2>4, <2>5, <2>6
  <2>8. \A h \in Holds!Rows : Unbookable(h) => Unbookable(h)'
    BY <1>1, <2>4, <2>5, <2>6
  <2> QED
    BY <2>4, <2>7, <2>8
<1> QED
  BY <1>2, <1>3

LEMMA AnswersStay ==
  ASSUME TypeInv, BookingsGrow, NEW a \in wire, AnswerTrue(a)
  PROVE  AnswerTrue(a)'
<1>1. a.kind = "answer" =>
        /\ a.what = "booking" => a.about \in DOMAIN bookings
        /\ AboutBooking(a) => a.re.hold \in Holds!Rows
  BY DEF TypeInv, Named, AboutBooking, Asked
<1> QED
  BY <1>1 DEF AnswerTrue, BookingsGrow, AboutBooking

LEMMA PagesStayTrue ==
  ASSUME TypeInv, BookingsGrow, NEW t \in Tabs, PageTrue(t),
         \/ view'[t] \notin {"payment", "unbookable"}
         \/ view'[t] = view[t] /\ shown'[t] = shown[t] /\ arrived'[t] = arrived[t]
  PROVE  PageTrue(t)'
<1>1. view[t] = "unbookable" => shown[t] \in Holds!Rows
  BY DEF TypeInv, TypeOK, PagesTypeOK, HoldViews
<1> QED
  BY <1>1 DEF PageTrue, BookingsGrow, Unbookable

(* An answer that is new is true when it is sent. *)
LEMMA ReplyTrue ==
  ASSUME TypeInv, BookingsInv, BookingsGrow, NEW m \in wire, Handled(m), NEW x \in wire',
         x \notin wire
  PROVE  AnswerTrue(x)'
<1>1. m \in Requests /\ Asked(m) = m /\ m.kind # "answer" /\ Named(m)
      /\ (UNCHANGED bookings \/ BookingInserted(m))
  BY ServerTables, RequestKinds
<1>2. CASE BookingSaved(m)
  <2>1. m.kind = "save" /\ m.hold \in Holds!Rows
    BY <1>1, <1>2 DEF BookingSaved, Named
  <2>2. ASSUME NEW what, NEW about, Reply(m, what, about)
        PROVE  x = Answer(m, what, about)
    BY <2>2 DEF Reply
  <2>3. ASSUME NEW b \in DOMAIN bookings', bookings'[b].hold = m.hold,
               Reply(m, "booking", b)
        PROVE  AnswerTrue(x)'
    <3>1. x = Answer(m, "booking", b)
      BY <2>2, <2>3
    <3>2. /\ x.kind = "answer" /\ x.what = "booking" /\ x.about = b /\ x.re = m
      BY <3>1 DEF Answer
    <3> QED
      BY <2>1, <2>3, <3>2 DEF AnswerTrue, AboutBooking, Asked
  <2>4. CASE Reply(m, "unbookable", None)
    <3>1. /\ UNCHANGED bookings /\ ForHold(m.hold) = {} /\ QuoteBooked(row[m.hold].quote)
      BY <1>2, <2>4 DEF BookingSaved, Reply, Answer
    <3>2. Unbookable(m.hold)
      BY <3>1 DEF Unbookable, ForHold, QuoteBooked
    <3>3. Unbookable(m.hold)'
      BY <2>1, <3>2 DEF BookingsGrow
    <3>4. x = Answer(m, "unbookable", None)
      BY <2>2, <2>4
    <3>5. x.kind = "answer" /\ x.what = "unbookable" /\ x.re = m
      BY <3>4 DEF Answer
    <3> QED
      BY <2>1, <3>3, <3>5 DEF AnswerTrue, AboutBooking, Asked
  <2>5. ASSUME NEW b \in ForKey(BookingKey(m)) \cup ForHold(m.hold), UNCHANGED bookings
        PROVE  b \in DOMAIN bookings' /\ bookings'[b].hold = m.hold
    BY <2>5 DEF ForKey, ForHold, BookingKey, BookingsInv
  <2>6. CASE BookingInserted(m)
    <3>1. Len(bookings) + 1 \in DOMAIN bookings' /\ bookings'[Len(bookings) + 1].hold = m.hold
      <4>1. NewBooking(m) \in [hold : HoldIds, quote : Quotes, key : Tabs \X HoldIds]
            /\ NewBooking(m).hold = m.hold
        BY <1>1, <2>1, RowColumns, RequestKinds DEF NewBooking, BookingKey
      <4> QED
        BY <2>6, <4>1, BookingAppended DEF BookingInserted, TypeInv, TypeOK, TablesTypeOK
    <3>2. \/ Reply(m, "booking", Len(bookings) + 1)
          \/ UNCHANGED bookings
      BY <1>2 DEF BookingSaved
    <3> QED
      BY <1>2, <2>3, <2>4, <2>5, <3>1, <3>2 DEF BookingSaved
  <2>7. CASE UNCHANGED bookings /\ ~BookingInserted(m)
    BY <1>2, <2>3, <2>4, <2>5, <2>7 DEF BookingSaved, BookingInserted, NewBooking
  <2> QED
    BY <1>1, <2>6, <2>7
<1>3. CASE ~BookingSaved(m)
  <2>1. x.kind = "answer" => x.what \in Outcomes \ {"booking", "unbookable"}
    <3>1. ASSUME NEW what \in Outcomes \ {"booking", "unbookable"}, NEW about,
                 Reply(m, what, about)
          PROVE  x.what = what
      BY <3>1 DEF Reply, Answer
    <3>2. ASSUME NEW k \in {"getting", "save"}, m.kind # "secure",
                 wire' = (wire \ {m}) \cup {[m EXCEPT !.kind = k]}
          PROVE  x.kind # "answer"
      BY <1>1, <3>2, NextStage
    <3>3. \A h \in HoldIds : state[h] # "Absent" =>
            /\ Status(h, state[h]) \in Outcomes \ {"booking", "unbookable"}
            /\ Status(h, "Active") \in Outcomes \ {"booking", "unbookable"}
      BY StatusType DEF Outcomes, Statuses, Holds!Rows
    <3>4. m.kind # "secure" => m.hold \in HoldIds /\ state[m.hold] # "Absent"
      BY <1>1 DEF Named, Holds!Rows
    <3> QED
      BY <1>3, <3>1, <3>2, <3>3, <3>4 DEF Handled, HoldCreated, HoldReplayed, HoldRefused,
         GetRead, GetAnswered, HoldReleased, BookingChecked, Outcomes, Statuses
  <2> QED
    BY <2>1 DEF AnswerTrue
<1> QED
  BY <1>2, <1>3

LEMMA TruthStep ==
  ASSUME JourneyInv, [Next]_vars, Growing
  PROVE  /\ BookingsInv'
         /\ \A a \in wire' : AnswerTrue(a)'
         /\ \A t \in Tabs : PageTrue(t)'
<1> USE DEF JourneyInv
<1>1. UNCHANGED bookings \/ \E m \in wire : BookingInserted(m)
  <2>1. ASSUME NEW m \in wire, Handled(m) PROVE UNCHANGED bookings \/ BookingInserted(m)
    BY <2>1, ServerTables
  <2>2. ASSUME NEW t \in Tabs, Arrival(t) PROVE UNCHANGED bookings
    BY <2>2 DEF Arrival, AnswerArrives
  <2> QED
    BY <2>1, <2>2, PageTypeStep, FailTypeStep, OtherTypeStep DEF Next, Server
<1>2. BookingsGrow
  BY <1>1, BookingsStep
<1>3. ASSUME NEW a \in wire', a \notin wire PROVE AnswerTrue(a)'
  <2>1. ASSUME NEW m \in wire, Handled(m) PROVE AnswerTrue(a)'
    BY <1>2, <1>3, <2>1, ReplyTrue
  <2>2. ASSUME NEW t \in Tabs,
               \/ \E q \in Quotes : CreateQuote(t, q)
               \/ ResetQuote(t) \/ QuoteTimer(t) \/ SecureAvailability(t)
               \/ Refresh(t) \/ ExpiryTimer(t) \/ ReleaseHold(t) \/ Reload(t)
               \/ \E h \in HoldIds : OpenBooking(t, h)
               \/ RetryBooking(t)
        PROVE  a.kind # "answer"
    <3>1. \A h : \A k \in {"get", "release", "book"} : About(k, t, h).kind # "answer"
      BY DEF About
    <3>2. \A q, k : Secure(t, q, k).kind # "answer"
      BY DEF Secure
    <3>3. \A x \in Unheard(t) : x \in wire \/ x.kind # "answer"
      BY UnheardMessages, RequestKinds
    <3> QED
      BY <1>3, <2>2, <3>1, <3>2, <3>3 DEF CreateQuote, ResetQuote, QuoteTimer,
         SecureAvailability, Refresh, ExpiryTimer, ReleaseHold, Reload, OpenBooking,
         RetryBooking, LoadHold
  <2>3. ASSUME NEW x \in wire, AnswerArrives(x) PROVE a.kind # "answer"
    <3>1. \A t, h : About("get", t, h).kind # "answer"
      BY DEF About
    <3> QED
      BY <1>3, <2>3, <3>1 DEF AnswerArrives, HoldAnswer, BookingAnswer
  <2>4. ASSUME NEW m \in wire, Fails(m)
        PROVE  a.kind # "answer" \/ a.what = "failed"
    <3>1. \A r : Answer(r, "failed", None).what = "failed"
      BY DEF Answer
    <3>2. m.kind # "answer" => [m EXCEPT !.heard = FALSE].kind # "answer"
      BY MessageKinds, MutedRequest
    <3> QED
      BY <1>3, <2>4, <3>1, <3>2 DEF Fails
  <2>5. CASE \/ \E b \in DOMAIN bookings, s \in 0..MaxTime : BookingConfirmed(b, s)
             \/ Tick \/ UNCHANGED vars
    BY <1>3, <2>5, OtherTypeStep
  <2> QED
    BY <2>1, <2>2, <2>3, <2>4, <2>5 DEF Next, Server, Arrival, AnswerTrue
<1>4. \A a \in wire' : AnswerTrue(a)'
  BY <1>2, <1>3, AnswersStay
<1>5. ASSUME NEW t \in Tabs PROVE PageTrue(t)'
  <2>1. CASE \/ view'[t] \notin {"payment", "unbookable"}
             \/ view'[t] = view[t] /\ shown'[t] = shown[t] /\ arrived'[t] = arrived[t]
    BY <1>2, <2>1, PagesStayTrue
  <2>2. ASSUME NEW a \in wire, AnswerArrives(a) PROVE PageTrue(t)'
    <3>1. a \in Answers /\ AnswerTrue(a) /\ Heard(a) /\ a.heard /\ Asked(a) = a.re
          /\ Named(a) /\ a.kind = "answer" /\ a.tab \in Tabs
      BY <2>2, MessageKinds, AnswerFields DEF MailInv, AnswerArrives, TypeInv
    <3>2. CASE a.tab = t /\ BookingAnswer(a) /\ a.re.kind \in {"book", "save"}
      <4>1. /\ UNCHANGED <<shown, bookings, holdVars>> /\ shown[t] = a.re.hold
        BY <2>2, <3>1, <3>2 DEF BookingAnswer, AnswerArrives, Heard, AboutBooking
      <4>2. CASE a.what = "booking"
        <5>1. view'[t] = "payment" /\ arrived'[t] = a.about
          BY <3>2, <4>2 DEF BookingAnswer, TypeInv, TypeOK, PagesTypeOK
        <5> QED
          BY <3>1, <4>1, <4>2, <5>1 DEF PageTrue, AnswerTrue, Named
      <4>3. CASE a.what = "unbookable"
        <5>1. view'[t] = "unbookable"
          BY <3>2, <4>3 DEF BookingAnswer, TypeInv, TypeOK, PagesTypeOK
        <5>2. Unbookable(shown[t])'
          BY <3>1, <4>1, <4>3 DEF AnswerTrue, Unbookable, holdVars
        <5> QED
          BY <5>1, <5>2 DEF PageTrue
      <4>4. CASE a.what \in {"refused", "failed"}
        BY <2>1, <3>2, <4>4 DEF BookingAnswer, TypeInv, TypeOK, PagesTypeOK
      <4> QED
        BY <3>2, <4>2, <4>3, <4>4 DEF BookingAnswer
    <3>3. CASE a.tab = t /\ HoldAnswer(a) /\ a.re.kind \notin {"book", "save"}
      <4>1. view[t] \in PlanViews
        BY <3>1, <3>3 DEF Heard, AboutBooking
      <4>2. view'[t] \in PlanViews
        BY <3>3, <4>1 DEF HoldAnswer, ApplyHold, ShowError, PlanViews, page, TypeInv, TypeOK,
           PagesTypeOK
      <4> QED
        BY <2>1, <4>2 DEF PlanViews
    <3>4. CASE a.tab # t
      <4>1. view'[t] = view[t] /\ shown'[t] = shown[t] /\ arrived'[t] = arrived[t]
        BY <2>2, <3>1, <3>4 DEF AnswerArrives, BookingAnswer, HoldAnswer, ApplyHold, ShowError,
           page, TypeInv, TypeOK, PagesTypeOK
      <4> QED
        BY <2>1, <4>1
    <3> QED
      BY <2>2, <3>2, <3>3, <3>4 DEF AnswerArrives
  <2>3. ASSUME NEW u \in Tabs,
               \/ \E q \in Quotes : CreateQuote(u, q)
               \/ ResetQuote(u) \/ QuoteTimer(u) \/ SecureAvailability(u)
               \/ Refresh(u) \/ ExpiryTimer(u) \/ ReleaseHold(u) \/ Reload(u)
               \/ \E h \in HoldIds : OpenBooking(u, h)
               \/ RetryBooking(u)
        PROVE  PageTrue(t)'
    <3>1. \/ view'[t] \notin {"payment", "unbookable"}
          \/ view'[t] = view[t] /\ shown'[t] = shown[t] /\ arrived'[t] = arrived[t]
      BY <2>3 DEF CreateQuote, ResetQuote, QuoteTimer, SecureAvailability, Refresh,
         ExpiryTimer, ReleaseHold, Reload, OpenBooking, RetryBooking, PlanViews, page, TypeInv,
         TypeOK, PagesTypeOK
    <3> QED
      BY <2>1, <3>1
  <2>4. CASE UNCHANGED page
    BY <2>1, <2>4 DEF page
  <2> QED
    BY <2>2, <2>3, <2>4, ServerTables, OtherTypeStep DEF Next, Server, Arrival, Fails
<1> QED
  BY <1>2, <1>4, <1>5 DEF BookingsGrow
-----------------------------------------------------------------------------
LEMMA JourneyInit == Init => JourneyInv
<1> SUFFICES ASSUME Init PROVE JourneyInv
  OBVIOUS
<1>1. Holds!TypeOK /\ Holds!ReadersHoldRows
  BY BoundsAssumption DEF Init, Holds!Init, Holds!TypeOK, Holds!ReadersHoldRows, Holds!Rows,
     Holds!HoldState
<1>2. bookings \in Seq([hold : HoldIds, quote : Quotes, key : Tabs \X HoldIds])
  BY EmptySeq DEF Init
<1>3. TablesTypeOK
  BY <1>1, <1>2, ScenarioAssumption DEF Init, TablesTypeOK
<1>4. PagesTypeOK
  BY BoundsAssumption DEF Init, PagesTypeOK, PlanViews
<1>5. TypeInv
  BY <1>1, <1>3, <1>4 DEF Init, TypeInv, TypeOK, HoldViews
<1>6. DOMAIN bookings = {}
  BY EmptySeq DEF Init
<1>7. BookingsInv /\ \A t \in Tabs : PageTrue(t)
  BY <1>6 DEF Init, BookingsInv, PageTrue
<1>8. MailInv /\ \A a \in wire : AnswerTrue(a)
  BY DEF Init, MailInv, OneAsk
<1> QED
  BY <1>5, <1>7, <1>8 DEF JourneyInv

LEMMA JourneyStep ==
  ASSUME JourneyInv, [Next]_vars
  PROVE  JourneyInv'
<1>1. TypeInv' /\ Growing
  <2>1. ASSUME NEW a \in wire, AnswerArrives(a) PROVE TypeInv' /\ Growing
    BY <2>1, ArrivalTypeStep DEF JourneyInv, MailInv
  <2> QED
    BY <2>1, PageTypeStep, ServerTypeStep, FailTypeStep, OtherTypeStep
    DEF Next, Server, Arrival, JourneyInv
<1>2. MailInv'
  BY MailStep DEF JourneyInv
<1>3. /\ BookingsInv'
      /\ \A a \in wire' : AnswerTrue(a)'
      /\ \A t \in Tabs : PageTrue(t)'
  BY <1>1, TruthStep
<1> QED
  BY <1>1, <1>2, <1>3 DEF JourneyInv

(* The inductive invariant: types and names of all that is under way, mail
   that reaches only the page that waits for it, bookings of their own holds,
   true answers and true pages. *)
THEOREM JourneyInvariant == Spec => []JourneyInv
<1>1. JourneyInv /\ [Next]_vars => JourneyInv'
  BY JourneyStep
<1> QED
  BY <1>1, JourneyInit, PTL DEF Spec

(* Tables, pages and messages keep their types, and no page shows a hold or is
   at a booking that does not exist. *)
THEOREM JourneyTypes == Spec => []TypeOK
<1>1. JourneyInv => TypeOK
  BY DEF JourneyInv, TypeInv
<1> QED
  BY <1>1, JourneyInvariant, PTL

(* Whatever tabs are open, however late or often requests are handled, a
   payment page is about the booking of the hold its tab had secured. *)
THEOREM BookingTheorem == Spec => []SentToItsBooking
<1>1. JourneyInv => SentToItsBooking
  BY DEF JourneyInv, PageTrue, BookingsInv, SentToItsBooking
<1> QED
  BY <1>1, JourneyInvariant, PTL

(* A live hold is refused its booking only because its quote was booked under
   another hold. *)
THEOREM RefusalTheorem == Spec => []RefusedOnlyForBookedQuote
<1>1. JourneyInv => RefusedOnlyForBookedQuote
  BY DEF JourneyInv, PageTrue, Unbookable, RefusedOnlyForBookedQuote
<1> QED
  BY <1>1, JourneyInvariant, PTL
=============================================================================
