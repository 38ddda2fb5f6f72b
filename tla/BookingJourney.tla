--------------------------- MODULE BookingJourney ---------------------------
(***************************************************************************)
(* From a quote to a booking: the customer's plan page and booking page in *)
(* one or more browser tabs, the hold and booking endpoints they call, and *)
(* the network between.  The server side of holds is InventoryHolds.       *)
(*                                                                         *)
(* A page is its view (the `kind' of its state), the quote and hold it     *)
(* shows, and the idempotency keys of its session storage.  Its requests   *)
(* are in `wire' until they are handled, their answers until they arrive;  *)
(* nothing aborts a request, so an answer is applied to whatever the page  *)
(* shows by then.  A request can be lost before or after it was handled,   *)
(* or be handled after the page was told it failed: the page sees the same *)
(* failure.  A page that is left no longer hears (`heard').                *)
(*                                                                         *)
(* All tabs are of one account; what other customers do is the refusal     *)
(* Unavailable.  `left' bounds how often each thing happens.  A tab has at *)
(* most one request of a kind outstanding.                                 *)
(***************************************************************************)
EXTENDS Integers, FiniteSets, Sequences

CONSTANTS
  Tabs,           \* browser tabs of the customer
  Quotes,         \* quotes the customer may be given
  Quote,          \* Quote[q] = [account |-> _, pool |-> _, expires |-> _]
  Pools,          \* inventory pools
  None,           \* nothing shown, nothing remembered
  MaxKeys,        \* idempotency keys a tab may make
  MaxHolds,       \* holds that may be created
  Lifetime,       \* InventoryHoldOptions.Lifetime
  Capacity,       \* seats of each pool
  MaxTime,        \* the clock stops here
  Scenarios       \* allowances a behaviour may start with

Operations == {"quote", "reset", "secure", "refresh", "release", "open",
               "retry", "reload", "fail", "refuse", "commit"}

Keys == Tabs \X (1..MaxKeys)
HoldIds == 1..MaxHolds

ASSUME OneAccountAssumption ==
  \A p, q \in Quotes : Quote[p].account = Quote[q].account
ASSUME JourneyQuoteAssumption ==
  \A q \in Quotes : Quote[q].pool \in Pools /\ Quote[q].expires \in Nat
ASSUME BoundsAssumption ==
  {MaxKeys, MaxHolds, Capacity, MaxTime} \subseteq Nat /\ Lifetime \in Nat \ {0}
ASSUME NoneAssumption == None \notin Quotes \cup HoldIds
ASSUME ScenarioAssumption == Scenarios \subseteq [Operations -> Nat]

VARIABLES
  now, capacity, state, row, commitment, reading,   \* of InventoryHolds
  bookings,       \* rows of bookings, in the order of their creation
  issued,         \* quotes that were created
  wire,           \* requests and answers under way
  view,           \* what each tab shows
  quote, stale,   \* the quote it holds, and whether its timer marked it expired
  shown,          \* the hold it shows, or its booking page was opened for
  arrived,        \* the booking its payment page is about
  keyOf, made,    \* hold keys in its session storage, and keys made so far
  left            \* how often each operation may still be begun

Holds == INSTANCE InventoryHolds WITH
  Readers <- Tabs, Nothing <- None, NoRow <- None, Capacities <- {Capacity}

holdVars == <<now, capacity, state, row, commitment, reading>>
storage == <<keyOf, made>>
page == <<view, quote, stale, shown, arrived, keyOf, made>>
vars == <<holdVars, bookings, issued, wire, page, left>>

Init ==
  /\ Holds!Init
  /\ bookings = <<>>
  /\ issued = {}
  /\ wire = {}
  /\ view = [t \in Tabs |-> "idle"]
  /\ quote = [t \in Tabs |-> None]
  /\ stale = [t \in Tabs |-> FALSE]
  /\ shown = [t \in Tabs |-> None]
  /\ arrived = [t \in Tabs |-> 0]
  /\ keyOf = [t \in Tabs |-> [q \in Quotes |-> 0]]
  /\ made = [t \in Tabs |-> 0]
  /\ left \in Scenarios

Spend(op) ==
  /\ left[op] > 0
  /\ left' = [left EXCEPT ![op] = @ - 1]
-----------------------------------------------------------------------------
(* Messages.  An answer carries the request it answers, because the page's
   continuation still has the request's variables. *)
Secure(t, q, k) ==
  [kind |-> "secure", tab |-> t, heard |-> TRUE, quote |-> q, key |-> k]
About(kind, t, h) == [kind |-> kind, tab |-> t, heard |-> TRUE, hold |-> h]
Answer(m, what, about) ==
  [kind |-> "answer", tab |-> m.tab, heard |-> TRUE, re |-> m,
   what |-> what, about |-> about]

(* m is answered, if anybody still listens *)
Reply(m, what, about) ==
  wire' = (wire \ {m}) \cup (IF m.heard THEN {Answer(m, what, about)} ELSE {})

(* the tab waits for no request of one of these kinds *)
NotWaiting(t, kinds) ==
  \A m \in wire : m.tab = t /\ m.heard =>
    IF m.kind = "answer" THEN m.re.kind \notin kinds ELSE m.kind \notin kinds

(* what t asked is still under way, but nobody waits for its answers *)
Unheard(t) ==
  {m \in wire : m.tab # t}
  \cup {[m EXCEPT !.heard = FALSE] : m \in {x \in wire : x.tab = t /\ x.kind # "answer"}}

(* Mutant of Status: the stored state is sent as it is. *)
StoredStatus(h, s) == s

(* EffectiveState, as the status of a response *)
Status(h, s) ==
  CASE s = "Active" -> IF row[h].expires > now THEN "active" ELSE "expired"
    [] s = "Released" -> "released"
    [] s = "Committed" -> "committed"
    [] OTHER -> "expired"

Live(h) == state[h] = "Active" /\ row[h].expires > now
-----------------------------------------------------------------------------
(* The plan page.  While its hold is uncertain, the selection is locked. *)
PlanViews == {"idle", "securing", "active", "releasing", "released", "expired",
              "quote-expired", "unavailable", "error"}
Locked(t) == view[t] \in {"active", "releasing", "securing", "error"}

(* clearHoldAttempt *)
Forget(t, q) ==
  keyOf' = IF q = None THEN keyOf ELSE [keyOf EXCEPT ![t][q] = 0]

(* createQuote, answered *)
CreateQuote(t, q) ==
  /\ view[t] \in PlanViews /\ ~Locked(t)
  /\ q \notin issued /\ now < Quote[q].expires
  /\ Spend("quote")
  /\ issued' = issued \cup {q}
  /\ quote' = [quote EXCEPT ![t] = q]
  /\ stale' = [stale EXCEPT ![t] = FALSE]
  /\ view' = [view EXCEPT ![t] = "idle"]
  /\ shown' = [shown EXCEPT ![t] = None]
  /\ Forget(t, quote[t])
  /\ UNCHANGED <<holdVars, bookings, wire, arrived, made>>

(* resetQuote: another occupancy or traveller is selected *)
ResetQuote(t) ==
  /\ view[t] \in PlanViews /\ ~Locked(t)
  /\ quote[t] # None
  /\ Spend("reset")
  /\ quote' = [quote EXCEPT ![t] = None]
  /\ stale' = [stale EXCEPT ![t] = FALSE]
  /\ view' = [view EXCEPT ![t] = "idle"]
  /\ shown' = [shown EXCEPT ![t] = None]
  /\ Forget(t, quote[t])
  /\ UNCHANGED <<holdVars, bookings, issued, wire, arrived, made>>

(* The timer of the quote marks it expired; the page then offers a new quote
   and nothing else. *)
QuoteTimer(t) ==
  /\ view[t] \in PlanViews
  /\ quote[t] # None /\ ~stale[t]
  /\ Quote[quote[t]].expires <= now
  /\ stale' = [stale EXCEPT ![t] = TRUE]
  /\ UNCHANGED <<holdVars, bookings, issued, wire, view, quote, shown, arrived,
                 storage, left>>

(* secureAvailability, with the key of an earlier attempt on the quote if the
   session storage has one: pressed first, again after a release or expiry, or
   as "Retry safely" *)
SecureAvailability(t) ==
  LET q == quote[t]
      n == IF keyOf[t][q] = 0 THEN made[t] + 1 ELSE keyOf[t][q]
  IN  /\ q # None /\ ~stale[t]
      /\ \/ view[t] \in {"idle", "released", "expired"}
         \/ view[t] = "error" /\ shown[t] = None
      /\ NotWaiting(t, {"secure"})
      /\ n <= MaxKeys
      /\ Spend("secure")
      /\ keyOf' = [keyOf EXCEPT ![t][q] = n]
      /\ made' = [made EXCEPT ![t] = IF keyOf[t][q] = 0 THEN n ELSE @]
      /\ view' = [view EXCEPT ![t] = "securing"]
      /\ shown' = [shown EXCEPT ![t] = None]
      /\ wire' = wire \cup {Secure(t, q, <<t, n>>)}
      /\ UNCHANGED <<holdVars, bookings, issued, quote, stale, arrived>>

(* loadHold *)
LoadHold(t, h) ==
  /\ NotWaiting(t, {"get", "getting"})
  /\ wire' = wire \cup {About("get", t, h)}

(* the window gets the focus, or is online again *)
Refresh(t) ==
  /\ view[t] = "active"
  /\ Spend("refresh")
  /\ LoadHold(t, shown[t])
  /\ UNCHANGED <<holdVars, bookings, issued, page>>

(* Mutant of ExpiryPassed: counts the lifetime from the deadline. *)
LifetimePassed(h) == row[h].expires + Lifetime <= now

ExpiryPassed(h) == row[h].expires <= now

(* The timer each "active" answer arms anew fires after the hold's expiry. *)
ExpiryTimer(t) ==
  /\ view[t] = "active"
  /\ ExpiryPassed(shown[t])
  /\ LoadHold(t, shown[t])
  /\ UNCHANGED <<holdVars, bookings, issued, page, left>>

(* releaseHold, and "Try release again" *)
ReleaseHold(t) ==
  /\ view[t] \in {"active", "error"} /\ shown[t] # None
  /\ quote[t] # None /\ ~stale[t]
  /\ NotWaiting(t, {"release"})
  /\ Spend("release")
  /\ view' = [view EXCEPT ![t] = "releasing"]
  /\ wire' = wire \cup {About("release", t, shown[t])}
  /\ UNCHANGED <<holdVars, bookings, issued, quote, stale, shown, arrived, storage>>

(* The page is loaded anew, or the tab comes back to the plan: only the
   session storage stays. *)
Reload(t) ==
  /\ Spend("reload")
  /\ wire' = Unheard(t)
  /\ view' = [view EXCEPT ![t] = "idle"]
  /\ quote' = [quote EXCEPT ![t] = None]
  /\ stale' = [stale EXCEPT ![t] = FALSE]
  /\ shown' = [shown EXCEPT ![t] = None]
  /\ arrived' = [arrived EXCEPT ![t] = 0]
  /\ UNCHANGED <<holdVars, bookings, issued, storage>>

(* The booking page of a hold some tab shows as secured is opened, by its
   address, in that tab or another, and asks at once. *)
OpenBooking(t, h) ==
  /\ \E u \in Tabs : view[u] = "active" /\ shown[u] = h
  /\ Spend("open")
  /\ view' = [view EXCEPT ![t] = "preparing"]
  /\ shown' = [shown EXCEPT ![t] = h]
  /\ quote' = [quote EXCEPT ![t] = None]
  /\ stale' = [stale EXCEPT ![t] = FALSE]
  /\ arrived' = [arrived EXCEPT ![t] = 0]
  /\ wire' = Unheard(t) \cup {About("book", t, h)}
  /\ UNCHANGED <<holdVars, bookings, issued, storage>>

(* "Retry safely" on the booking page *)
RetryBooking(t) ==
  /\ view[t] \in {"refused", "unbookable"}
  /\ Spend("retry")
  /\ view' = [view EXCEPT ![t] = "preparing"]
  /\ wire' = wire \cup {About("book", t, shown[t])}
  /\ UNCHANGED <<holdVars, bookings, issued, quote, stale, shown, arrived, storage>>
-----------------------------------------------------------------------------
(* POST /quotes/{q}/holds creates a hold ... *)
HoldCreated(m, h) ==
  /\ m.kind = "secure"
  /\ \A x \in HoldIds : x < h => state[x] # "Absent"
  /\ Holds!CreateHold(m.quote, m.key, h)
  /\ Reply(m, "active", h)
  /\ UNCHANGED <<bookings, issued, page, left>>

(* ... or finds the one the key created before ... *)
HoldReplayed(m, h) ==
  /\ m.kind = "secure"
  /\ state[h] # "Absent" /\ row[h].key = m.key
  /\ Holds!ReplayHold(m.quote, m.key)
  /\ Reply(m, Status(h, state[h]), h)
  /\ UNCHANGED <<bookings, issued, page, left>>

(* ... or is refused: the quote expired, the account has an active hold of the
   same room type, or the departure is not saleable or full. *)
HoldRefused(m) ==
  /\ m.kind = "secure"
  /\ \/ /\ now >= Quote[m.quote].expires
        /\ Reply(m, "gone", None)
        /\ UNCHANGED left
     \/ /\ now < Quote[m.quote].expires
        /\ \A x \in Holds!Rows : row[x].key # m.key
        /\ \E x \in Holds!RowsOf(Quote[m.quote].pool) :
             Live(x) /\ Reply(m, "exists", x)
        /\ UNCHANGED left
     \/ /\ now < Quote[m.quote].expires
        /\ Reply(m, "unavailable", None)
        /\ Spend("refuse")
  /\ UNCHANGED <<holdVars, bookings, issued, page>>

(* GET /inventory-holds/{h}: the row is read without a lock; an ended hold is
   answered from what was read ... *)
GetRead(m) ==
  /\ m.kind = "get"
  /\ \/ /\ Holds!GetHoldRead(m.tab, m.hold)
        /\ wire' = (wire \ {m}) \cup {[m EXCEPT !.kind = "getting"]}
     \/ /\ state[m.hold] # "Active"
        /\ Reply(m, Status(m.hold, state[m.hold]), m.hold)
        /\ UNCHANGED holdVars
  /\ UNCHANGED <<bookings, issued, page, left>>

(* ... an active one after its expiry was compared with the clock *)
GetAnswered(m) ==
  /\ m.kind = "getting"
  /\ Holds!GetHoldWrite(m.tab)
  /\ Reply(m, Status(m.hold, "Active"), m.hold)
  /\ UNCHANGED <<bookings, issued, page, left>>

(* POST /inventory-holds/{h}/release *)
HoldReleased(m) ==
  /\ m.kind = "release"
  /\ \/ /\ Holds!ReleaseHold(m.hold)
        /\ Reply(m, IF Live(m.hold) THEN "released" ELSE "expired", m.hold)
     \/ /\ state[m.hold] # "Active"
        /\ Reply(m, Status(m.hold, state[m.hold]), m.hold)
        /\ UNCHANGED holdVars
  /\ UNCHANGED <<bookings, issued, page, left>>

(* POST /inventory-holds/{h}/bookings: the hold and its quote are read without
   locks and compared with the clock ... *)
BookingChecked(m) ==
  /\ m.kind = "book"
  /\ IF Live(m.hold) /\ now < Quote[row[m.hold].quote].expires
     THEN wire' = (wire \ {m}) \cup {[m EXCEPT !.kind = "save"]}
     ELSE Reply(m, "refused", None)
  /\ UNCHANGED <<holdVars, bookings, issued, page, left>>

(* getOrCreateBookingKey: a tab has one key for each hold *)
BookingKey(m) == <<m.tab, m.hold>>

(* Mutants of ForHold: the booking of the quote; not looked for. *)
ForQuote(h) == {b \in DOMAIN bookings : bookings[b].quote = row[h].quote}
NotLookedFor(h) == {}

ForKey(k) == {b \in DOMAIN bookings : bookings[b].key = k}
ForHold(h) == {b \in DOMAIN bookings : bookings[b].hold = h}
QuoteBooked(q) == \E b \in DOMAIN bookings : bookings[b].quote = q

(* ... and the booking is looked for and inserted later.  An insert that meets
   a unique index (key, hold or quote) looks for the first two again, so that
   what it loses a race to is found as if it had been there before. *)
BookingSaved(m) ==
  LET k == BookingKey(m)
      q == row[m.hold].quote
      found == IF ForKey(k) # {} THEN ForKey(k) ELSE ForHold(m.hold)
  IN
  /\ m.kind = "save"
  /\ \/ \E b \in found : Reply(m, "booking", b) /\ UNCHANGED bookings
     \/ /\ found = {} /\ QuoteBooked(q)
        /\ Reply(m, "unbookable", None)
        /\ UNCHANGED bookings
     \/ /\ found = {} /\ ~QuoteBooked(q)
        /\ bookings' = Append(bookings, [hold |-> m.hold, quote |-> q, key |-> k])
        /\ Reply(m, "booking", Len(bookings) + 1)
  /\ UNCHANGED <<holdVars, issued, page, left>>

(* A booking is paid and confirmed: its hold becomes a commitment. *)
BookingConfirmed(b, settledAt) ==
  /\ Spend("commit")
  /\ Holds!CommitHold(bookings[b].hold, settledAt)
  /\ UNCHANGED <<bookings, issued, wire, page>>

(* The network: the answer is lost, or the request is; or the request arrives
   after the page gave it up. *)
Fails(m) ==
  /\ m.heard
  /\ m.kind = "answer" => m.what # "failed"
  /\ Spend("fail")
  /\ LET asked == IF m.kind = "answer" THEN m.re ELSE m
         failed == Answer(asked, "failed", None)
     IN  \/ /\ m.kind \notin {"getting", "save"}
            /\ wire' = (wire \ {m}) \cup {failed}
         \/ /\ m.kind # "answer"
            /\ wire' = (wire \ {m}) \cup {failed, [m EXCEPT !.heard = FALSE]}
  /\ UNCHANGED <<holdVars, bookings, issued, page>>
-----------------------------------------------------------------------------
(* applyHold: an active hold is shown as secured, a released one as released,
   any other as expired, and only an active one keeps its key. *)
ApplyHold(t, h, status) ==
  /\ view' = [view EXCEPT ![t] =
       IF status \in {"active", "released"} THEN status ELSE "expired"]
  /\ shown' = [shown EXCEPT ![t] = h]
  /\ IF status = "active" THEN UNCHANGED keyOf ELSE Forget(t, row[h].quote)
  /\ UNCHANGED <<quote, stale, arrived, made>>

ShowError(t, h) ==
  /\ view' = [view EXCEPT ![t] = "error"]
  /\ shown' = [shown EXCEPT ![t] = h]
  /\ UNCHANGED <<quote, stale, arrived, storage>>

Statuses == {"active", "released", "expired", "committed"}

(* The answer of a POST or GET on holds arrives at the plan page. *)
HoldAnswer(a) ==
  LET t == a.tab IN
  \/ /\ a.what \in Statuses
     /\ ApplyHold(t, a.about, a.what)
     /\ wire' = wire \ {a}
  \/ /\ a.what = "gone"
     /\ quote' = [quote EXCEPT ![t] = a.re.quote]
     /\ stale' = [stale EXCEPT ![t] = TRUE]
     /\ view' = [view EXCEPT ![t] = "quote-expired"]
     /\ shown' = [shown EXCEPT ![t] = None]
     /\ Forget(t, a.re.quote)
     /\ wire' = wire \ {a}
     /\ UNCHANGED <<arrived, made>>
  \/ /\ a.what = "exists"     \* loadHold of the hold that is in the way
     /\ NotWaiting(t, {"get", "getting"})
     /\ wire' = (wire \ {a}) \cup {About("get", t, a.about)}
     /\ UNCHANGED page
  \/ /\ a.what = "unavailable"
     /\ view' = [view EXCEPT ![t] = "unavailable"]
     /\ shown' = [shown EXCEPT ![t] = None]
     /\ wire' = wire \ {a}
     /\ UNCHANGED <<quote, stale, arrived, storage>>
  \/ /\ a.what = "failed"
     /\ ShowError(t, IF a.re.kind = "release" THEN a.re.hold ELSE None)
     /\ wire' = wire \ {a}

(* The answer of the booking POST arrives at the booking page. *)
BookingAnswer(a) ==
  /\ wire' = wire \ {a}
  /\ \/ /\ a.what = "booking"
        /\ view' = [view EXCEPT ![a.tab] = "payment"]
        /\ arrived' = [arrived EXCEPT ![a.tab] = a.about]
     \/ /\ a.what = "unbookable"
        /\ view' = [view EXCEPT ![a.tab] = "unbookable"]
        /\ UNCHANGED arrived
     \/ /\ a.what \in {"refused", "failed"}
        /\ view' = [view EXCEPT ![a.tab] = "refused"]
        /\ UNCHANGED arrived
  /\ UNCHANGED <<quote, stale, shown, storage>>

AnswerArrives(a) ==
  /\ a.kind = "answer"
  /\ \/ a.re.kind \in {"book", "save"} /\ BookingAnswer(a)
     \/ a.re.kind \notin {"book", "save"} /\ HoldAnswer(a)
  /\ UNCHANGED <<holdVars, bookings, issued, left>>

Tick == Holds!Tick /\ UNCHANGED <<bookings, issued, wire, page, left>>
-----------------------------------------------------------------------------
Handled(m) ==
  \/ \E h \in HoldIds : HoldCreated(m, h) \/ HoldReplayed(m, h)
  \/ HoldRefused(m)
  \/ GetRead(m) \/ GetAnswered(m) \/ HoldReleased(m)
  \/ BookingChecked(m) \/ BookingSaved(m)

Server(t) == \E m \in wire : m.tab = t /\ Handled(m)
Arrival(t) == \E a \in wire : a.tab = t /\ AnswerArrives(a)

Next ==
  \/ \E t \in Tabs :
       \/ \E q \in Quotes : CreateQuote(t, q)
       \/ ResetQuote(t) \/ QuoteTimer(t)
       \/ SecureAvailability(t) \/ Refresh(t) \/ ExpiryTimer(t) \/ ReleaseHold(t)
       \/ Reload(t) \/ RetryBooking(t)
       \/ \E h \in HoldIds : OpenBooking(t, h)
       \/ Server(t) \/ Arrival(t)
  \/ \E b \in DOMAIN bookings, settledAt \in 0..MaxTime : BookingConfirmed(b, settledAt)
  \/ \E m \in wire : Fails(m)
  \/ Tick

Spec == Init /\ [][Next]_vars

(* The browser fires its timers and runs continuations, the server handles
   what reaches it, and time passes; the customer owes nothing. *)
FairSpec ==
  /\ Spec
  /\ WF_vars(Tick)
  /\ \A t \in Tabs :
       WF_vars(Server(t)) /\ WF_vars(Arrival(t)) /\ WF_vars(ExpiryTimer(t))
-----------------------------------------------------------------------------
Requests ==
  [kind : {"secure"}, tab : Tabs, heard : BOOLEAN, quote : Quotes, key : Keys]
  \cup [kind : {"get", "getting", "release", "book", "save"}, tab : Tabs,
        heard : BOOLEAN, hold : HoldIds]
Answers ==
  [kind : {"answer"}, tab : Tabs, heard : {TRUE}, re : Requests,
   what : Statuses \cup {"gone", "exists", "unavailable", "failed", "booking",
                         "unbookable", "refused"},
   about : Nat \cup {None}]

TablesTypeOK ==
  /\ Holds!TypeOK
  /\ bookings \in Seq([hold : HoldIds, quote : Quotes, key : Tabs \X HoldIds])
  /\ issued \subseteq Quotes
  /\ left \in [Operations -> Nat]

PagesTypeOK ==
  /\ view \in [Tabs -> PlanViews \cup {"preparing", "refused", "unbookable", "payment"}]
  /\ quote \in [Tabs -> Quotes \cup {None}]
  /\ stale \in [Tabs -> BOOLEAN]
  /\ shown \in [Tabs -> Holds!Rows \cup {None}]
  /\ arrived \in [Tabs -> {0} \cup DOMAIN bookings]
  /\ keyOf \in [Tabs -> [Quotes -> 0..MaxKeys]]
  /\ made \in [Tabs -> 0..MaxKeys]

(* Types of the tables, the pages and what is under way; a page shows no hold
   and is at no booking that does not exist. *)
TypeOK == TablesTypeOK /\ PagesTypeOK /\ wire \subseteq Requests \cup Answers

(* Two tabs, replayed keys and requests handled long after they were given up
   never mix bookings up: a payment page is about the booking of the very hold
   its tab had secured, a hold has at most one booking, and that booking copies
   the hold's own quote (BookingEndpoints.cs:130-159 and 244-274,
   booking/page.tsx:83-98). *)
SentToItsBooking ==
  /\ \A t \in Tabs : view[t] = "payment" =>
       /\ arrived[t] \in DOMAIN bookings
       /\ bookings[arrived[t]].hold = shown[t]
  /\ \A b, c \in DOMAIN bookings : bookings[b].hold = bookings[c].hold => b = c
  /\ \A b \in DOMAIN bookings : bookings[b].quote = row[bookings[b].hold].quote

(* "Booking could not be created" (BookingEndpoints.cs:429-433) is answered for
   one reason only: the quote was booked under another hold.  The loser of a
   race for a hold is never answered so. *)
RefusedOnlyForBookedQuote ==
  \A t \in Tabs : view[t] = "unbookable" =>
    /\ \A b \in DOMAIN bookings : bookings[b].hold # shown[t]
    /\ \E b \in DOMAIN bookings : bookings[b].quote = row[shown[t]].quote

(* A page that says "Availability secured" for a hold that ended, here, in
   another tab or by the clock, stops saying so, even when answers arrive out
   of order: the deadline's refresh corrects what a late answer brought back
   (plan/page.tsx:361-374). *)
DeadHoldIsNoticed ==
  \A t \in Tabs, h \in HoldIds :
    (view[t] = "active" /\ shown[t] = h /\ ~Live(h))
      ~> ~(view[t] = "active" /\ shown[t] = h)
=============================================================================
