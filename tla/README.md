# NoorPath: specifications and proofs

NoorPath sells seats on group departures. It is one ASP.NET process (a modular
monolith) over one PostgreSQL database in which every module owns a schema and
a `DbContext`; **no transaction spans two schemas**, and no background job
repairs what a dead request leaves. The specifications here are about what that
costs: seats, money and bookings are three tables kept in step by requests that
run at READ COMMITTED, lock some rows and not others, call a payment provider
half-way, and may die between any two commits.

The source paths below are relative to the repository's root; `PROJECT.json`
maps every definition to the lines it models.

## 1. Inventory of the system

| part | state | operations | correct when |
|---|---|---|---|
| **Inventory** (`apps/api/InventoryHoldEndpoints.cs`, `CommercialAuthoringEndpoints.cs`, `NoorPath.Inventory*`) | pools with a capacity, holds (Active, Released, Expired, Committed), commitments, releases | create (idempotent), replay, GET, release, save capacity; commit and release on behalf of confirmation and cancellation | no pool is oversold; an account has one live hold per pool; an abandoned seat returns; a sold seat stays sold |
| **Payments** (`PaymentEndpoints.cs`, `RazorpayPaymentProvider.cs`, `NoorPath.Payments*`) | attempts by idempotency key, provider events, outbox | initiate, callback, webhook, GET | one attempt is settled, it stays settled, and only the provider's money settles it |
| **Booking policy and projection** (`Booking.cs`, `BookingCheckoutService.cs`) | `bookings.State`, `SettledPaymentAttemptId` | `TryTransitionAsync` | the booking follows the payment and does not fall back |
| **Confirmation** (`ConfirmationService.cs`, `ConfirmationEndpoints.cs`) | the same columns, the commitment | `ProcessAsync` from a webhook or an operator's retry | Confirmed means a seat is committed; money without a seat becomes ConfirmationException |
| **Cancellation and refunds** (`CancellationRefundService.cs`, `CancellationRefundEndpoints.cs`, `Cancellation.cs`, `Refunds.cs`) | requests with a policy snapshot, releases, refunds, audits | request, reject, approve, recover, execute refund | refund last, applied means complete, no double execution, money adds up |
| **Booking creation** (`BookingEndpoints.cs`) | bookings, travellers, instalments | create (idempotent) | one booking per hold and quote, on a hold that was active; a repeated or late request finds it |
| **Amendments** (`BookingAmendmentEndpoints.cs`) | price and travellers of a confirmed booking, its version | preview, confirm | nothing is amended from an old preview |
| **Accommodation** (`AccommodationAssignmentEndpoints.cs`, `OperatorAccommodation.tsx`) | rooms and assignments with versions; what each page shows | create a room, assign or move, remove, lock | no room over capacity, changes only to unlocked rooms and to what the page showed |
| **Manifest and handover** (`DepartureManifestEndpoints.cs`, `DepartureHandoverEndpoints.cs`, `OperatorDepartureHandover.tsx`) | the handover row, notes per traveller | name the leader, note, complete | a completed handover is final, and everybody it counted is ready |
| **Catalogue and publication** (`CatalogueAuthoringEndpoints.cs`, `CatalogueTravelFactsEndpoints.cs`, `PublicationEndpoints.cs`, `Batch.cs`) | packages, departures, versions, reviews | author, submit, approve, publish, withdraw | only what was reviewed is published |
| **Pricing and quotes** (`CommercialAuthoringEndpoints.cs`, `PaymentPlanAuthoringEndpoints.cs`, `TravellerQuoteEndpoints.cs`, `PaymentPlan.cs`) | price plans, versions, quotes, instalments | author, quote | instalments add up to the price, on dates that end with the deadline; what is quoted can be booked and paid |
| **Documents, visa** (`DocumentEndpoints.cs`, `VisaEndpoints.cs`, three pages of the web application) | requirements, submissions and their scan, cases | upload, check, review, transition, retain | a verdict stands until a newer document supersedes it; an approved or rejected case is not reopened |
| **Families** (`FamilyBookingEndpoints.cs`, `FamilyQuoteEndpoints.cs`) | parties and links | invite, join, leave | one membership per traveller; not modelled |
| **Access, operators** (`Authentication.cs`, `OperatorAccessEndpoints.cs`, `PlatformOperatorAdministrationEndpoints.cs`) | memberships | authorise | not modelled: handlers are modelled for callers who may call them |
| **Plan and booking page** (`plan/page.tsx`, `booking/page.tsx`) | the quote and hold shown, idempotency keys in the session storage of a tab | quote, secure, refresh, release, open the booking page, retry | a page does not go on showing what ended, and ends at the booking of its own hold |
| **Read models, outbox, other pages** | none that the parts above read | queries; rows written and never dispatched | not modelled |

How they interact. A *quote* is priced, a *hold* takes a seat of its pool, a
*booking* is created on the hold, a *payment attempt* is initiated with the
provider, its *webhook* settles the attempt (schema `payments`), projects it on
the booking (schema `booking`) and calls *confirmation*, which marks the
booking Confirming (`booking`), commits the hold (`inventory`) and marks the
booking Confirmed (`booking`). A *cancellation* goes the same way back:
booking, seat, refund. Between confirmation and departure operators and the
customer work on the *rooms*, the *party*, the *papers* and the *visa cases* of
the booking, each in its own schema, until the *handover* reads all of them.

What makes it hard:

- **Unlocked reads written back.** `GetHoldAsync` and payment initiation read
  rows, go elsewhere, and save by primary key. Holds and attempts have no
  concurrency token.
- **The change tracker.** `FromSqlInterpolated("... FOR UPDATE")` locks a row
  but does not refresh an entity the request already tracks. The webhook
  request tracks the booking from `TryTransitionAsync` on, the approval from
  its outbox message on; both then decide on the copy. The booking's `Version`
  is a token, but only amendments change it.
- **Old pages.** What a request does was decided by somebody looking at an
  answer that may be minutes old; the version it carries is all that ties the
  two together. On the customer's side nothing aborts a request, so answers
  are written over whatever the page shows when they come.
- **Three commits.** Confirmation and cancellation are chains of transactions
  in different schemas; a request may die between any two.
- **The provider.** Events come late, twice, out of order; two event types
  report a settlement; an order may be paid after a declined payment; a
  checkout may be created although the call failed.
- **Lazy time.** Expiry is a comparison, materialised by whoever comes next.

## 2. Modules

| module | models | built on |
|---|---|---|
| `SeatPool` | abstract: what the inventory promises | |
| `InventoryHolds` | the inventory schema and every handler that writes it | refines `SeatPool` |
| `InventoryHoldsProofs` | theorems about `InventoryHolds` | |
| `BookingPolicy`, `PaymentPolicy` | the two transition relations and `EvaluateProviderEvent` | |
| `CheckoutTables` | the rows one booking's checkout shares, with what may happen to its hold | the policies |
| `Confirmation` | `ConfirmationService.ProcessAsync`, the retry endpoint | `CheckoutTables` |
| `PaymentCheckout` | initiation, callback, webhook, and the provider | `Confirmation` |
| `CancellationRefund` | `CancellationRefundService` | `CheckoutTables` |
| `BookingLedger` | abstract: what the checkout of one booking promises | |
| `CheckoutSaga` | the composition of the four, and the properties of the whole | `PaymentCheckout`, `CancellationRefund`; refines `BookingLedger` |
| `QuoteSchedule` | `QuoteScheduleCalculator`: deposit, due dates, instalments, modes | |
| `CancellationPolicy` | `CancellationPolicy.Evaluate`: windows, fee, non-refundable part, refund | |
| `BookingMoney` | one booking's money: quote, snapshot, settlements, entitlement, refund | `QuoteSchedule`, `CancellationPolicy` |
| `QuoteScheduleProofs`, `BookingMoneyProofs` | theorems about the two | |
| `BookingJourney` | plan page, booking page, hold and booking endpoints, the network | instantiates `InventoryHolds` |
| `JourneyProofs` | theorems about `BookingJourney` | |
| `CheckoutProofs`, `CheckoutTurnProofs` | theorems about `CheckoutSaga`: for any overlap, and for initiations in turn | |
| `BookedParty` | the row of a confirmed booking the departure's operators share | |
| `RoomPlan` | abstract: what accommodation promises | |
| `Accommodation` | rooms, assignments and the pages that change them | `BookedParty`, refines `RoomPlan` |
| `BookingAmendment` | preview and confirmation of an amendment | `BookedParty` |
| `TravelPapers` | documents and visa cases | `BookedParty` |
| `DepartureHandover` | the snapshot, its completion, the group leader | `Accommodation`, `TravelPapers` |
| `DepartureOperations` | the composition of the five, and the properties of the whole | `DepartureHandover`, `BookingAmendment` |
| `AccommodationProofs`, `DepartureProofs` | theorems about `DepartureOperations` | |
| `MCInventoryHolds`, `MCCheckoutSaga`, `MCBookingMoney`, `MCBookingJourney`, `MCDepartureOperations` | instances for TLC | |

**`SeatPool`** lets a claim be given back at any moment, a sold one too, because an
expired hold is one: that a sold seat stays sold is the subject of
`SoldSeatsWithinCapacity`, not of the refinement.

**`InventoryHolds`.** One action per transaction. `CreateHold` and
`SaveInventory` serialise on the pool row, the others on the hold row, so each
is atomic, trailing materialisation included; refusals roll back and are no
steps. `GetHold` takes no lock and is two actions, with `reading` holding what
it read. `SaveInventory` uses a clock read before the locks (`t <= now`), as
the handler does. `state` is the mutable column, `row` the others, which never
change. Time is a counter; a hold's expiry is compared with it exactly as in
the code (`>` to count, `<=` to lapse). Every hold has quantity 1, as the
handler creates them.

**`CheckoutTables`.** One booking. Other bookings touch its hold only through
the three things kept here: the clock passes its expiry, somebody materialises
or the customer releases it, an unlocked GET overwrites it. `lapsed` replaces
the clock: only the hold's own expiry matters to a checkout.

**`Confirmation`.** A run is the program counter `runAt` (Begin, Commit,
Finish: the transaction it is about to make) and `copy`, the tracked booking. A
retry starts without a copy and reads the row; a webhook starts with the copy
it projected. `Save` writes a column only if the value differs from the copy,
which is what EF Core's change detection does: a stale run can leave a column
alone as well as overwrite it. The `payment_booking_mismatch` branch is left
out: price and account of booking and attempt do not change as long as
amendments are not modelled.

**`PaymentCheckout`.** An initiation is the counter `initAt`. Reads that can be
overtaken are separate steps: the booking (`Check`), attempts and hold (`Find`),
the attempt before each write. `tracked` says whether the change tracker holds
the attempt as Created: then the read before the write is answered from memory.
Several reads of the first look are merged: a hold that stopped being active
never becomes active again, and attempts are read again before the insert.
The webhook's transaction locks the attempt row and is one step; the projection
is another, because nothing keeps them together. The provider (external) opens
one order per receipt, takes one payment per order at most, may decline others
before, and emits the subscribed events in any order, any number of times
(`seen` makes later deliveries no-ops, as the unique index does).

**`CancellationRefund`.** Money is abstracted to how many attempts were settled
when the entitlement was computed and whether anything is due. An approver is
`applyAt` and `loaded`, the booking the approval tracked. Row versions are left
out: every write follows a look at the state under the row lock.

**`CheckoutSaga`** composes them: each step of one leaves the local state of the
others alone.

**`BookingLedger`** is what is left of a checkout when requests, copies and
schemas are forgotten: `Pay`, `Sell`, `Confirm`, `Cancel`, `ReturnSeat` and
`GiveBack`, each once and in this order, with `PutAside` and `TryAgain` between
payment and seat. The mapping reads it off the tables: `status` is the booking's
state with all that is neither an exception nor final merged into "open", `paid`
the attempts with a `SettledAtUtc`, `sold` the commitment, `endedBy` and
`returnedBy` the request recorded in booking and release, and `refund` whether a
refund was recorded, and with anything to pay out.

**`QuoteSchedule`.** Money is in minor units, a percentage in hundredths of a
percent, which is what `PaymentPlanPolicy.Validate` admits. `RoundMoney` rounds
a tie to the even unit. The calculator's two loops run one round a step, `pc`
being the statement it is at: `NextMonth` and `LastMonth` are the loop of
`BuildDueDates` before and at its `break`, `NextInstalment` the loop over the
dates, `Milestone`, `PayFull` and `ToPayLater` the switch on the mode. A date is
31 * month + day, with the quote in month 0: the calculator asks of a calendar
only that dates are ordered and that every month has the days 1 to 28. A deposit
of 100 % needs no case of its own: nothing remains.

**`CancellationPolicy`** is arithmetic in tenths of a minor unit: the settled
amount and the percentage fee are whole units, but the configured non-refundable
amount is a decimal that nothing rounds until the columns of the request do.

**`BookingMoney`** puts them together with the facts that change in between:
`CreateBooking` takes the quote's schedule as the booking's snapshot if
`ValidateSnapshot` accepts it, `Settle` is a successful attempt for `DueNow`
(the second one is possible for the reason run `settled_twice` shows),
`Reconfigure` a restart with another policy. `RequestCancellation` is
`CreateRequestAsync` up to the database's CHECK, and `AuthorizeRefund` the end of
an approval, which fails and can be recovered as long as the settled amount does
not match. Concurrency inside these handlers is the subject of
`CancellationRefund`; here each is one step. On the day of departure the time
decides whether it has started: both answers are possible.

**`BookingJourney`.** A tab is its `view` (the `kind` of the page's state), the
quote and hold it shows, and its session storage. A request is in `wire` until
the server handles it, its answer until the page's continuation runs; both carry
what the continuation remembers. `Reload` and `OpenBooking` make the tab deaf to
what it asked before, but the server still handles it. `Fails` is the network: it
loses the answer or the request, or lets the page give up a request that is
handled later. The hold endpoints are the actions of `InventoryHolds`, instantiated
with one reader per tab, so the lazy expiry and the unlocked GET are the same as
there. Creating a booking is two steps, because nothing locks the hold and the
quote between the look and the insert; the insert meets the three unique indexes
and answers as the handler's second look does. One account has all tabs, `createQuote`
is answered at once, and saleability and other customers are the answer
Unavailable. Answers 401 and 404 are left out, and so is a tab duplicated with
its session storage. A tab has one request of a kind under way.

**`BookedParty`** is the row everything between confirmation and departure reads
without a lock. `left` holds how often each operation may still be begun, so that
a bound is put on what people do and not on what the code does.

**`Accommodation`.** A page reads rooms and people in two queries (`LoadRooms`,
`LoadRows`) and sends the version it shows with each change. A request reads the
booking and its room (when it begins), the people, for a move the room left
behind, and then saves; `TokenHolds` is EF Core's comparison of the room's
version in the UPDATE, and `RowThere` the unique index on booking, stay and
traveller. A refused request changes nothing. `DepartureOperations` shows that
every step is a step of `RoomPlan`, under the mapping that forgets versions and
pages (`open` is the set of rooms with a row; all names coincide).

**`BookingAmendment`.** A preview reads the booking, then the travellers, and
hands out an envelope; a confirmation compares the envelope's version with the
row it reads, and EF Core compares it again when it saves. The price follows from
the party's size and the booking's immutable price version, so a proposal is its
party.

**`TravelPapers`.** An upload supersedes the submissions it read, is put, and is
checked once; the check writes the scan's verdict over the submission it read. A
review counts the submission's version up and compares it; an upload and a check
do not. A visa transition reads the case, then the documents if it wants
ReadyToSubmit, and saves under the case's version. Requirements and submissions
are read in one step.

**`DepartureHandover`.** Completion is one step per query: booking, travellers,
documents, visa cases, assignments, then the handover row, then the save under
its version or the unique index. Naming the group leader reads and saves the same
row. A cancellation of the booking is a step of the composition.

## 3. What the runs check

| run | instance | shows |
|---|---|---|
| `holds` | 2 pools, 2 accounts, 3 quotes, 2 keys, 2 holds, 1 reader, capacities 0..1, clock 0..3 | `TypeOK`, `SeatsWithinCapacity`, `OneActiveHold`, `CommittedHoldHasCommitment`; the table implements `SeatPool`; `AbandonedSeatReturns` |
| `holds_oversell` (violation) | 1 pool, capacity 1, 1 reader | a seat is sold twice after a GET |
| `checkout_races` | 2 attempts, 2 initiations, 2 webhooks, 1 retry, no deaths; captured and declined payments | `PaidForByProvider`, `SeatOnlyForTimelyMoney`, `ExceptionKeepsItsPayment`, `ConfirmedHasCommitment`, `CommitmentIsFinal` |
| `checkout_seq` | 2 attempts, 1 initiation at a time, 2 webhooks, 1 retry, 1 request, 2 approvers, 2 executors, deaths; all four event types | `SettledOnce`, `NothingRegresses`, `SeatFollowsBooking`, `GivenBackInOrder`, `OneExecutionPerRefund`; the tables implement `BookingLedger` |
| `checkout_answer` | 1 attempt, 1 initiation, 2 webhooks, 1 retry, 1 callback, 2 requests, 2 requesters, 2 approvers | `AcceptedPaymentIsAnswered`, `ApplyingEnds` |
| `journey` | 2 tabs, 2 quotes (expiring at 1 and 2) of one pool, 2 keys a tab, 2 holds of lifetime 1, clock 0..2, five scenarios of clicks, reloads and failures | `TypeOK`, `SentToItsBooking`, `RefusedOnlyForBookedQuote`, `DeadHoldIsNoticed` |
| `departure` | 3 travellers, 3 rooms of two stays, 2 of everybody, eleven scenarios of what is prepared and begun | `TypeOK`, `RoomsWithinCapacity`, `ImplementsRoomPlan`, `ChangesWhatTheOperatorSaw`, `AmendsWhatWasPreviewed`, `VerdictsStand`, `CompletedIsFrozen`, `HandedOverHaveVisas` |
| `money` | totals 1..101, deposits from 0.01 % to 100 %, two cadence days, two quote days, six deadlines from before the quote to five months after it, all modes, 2 policies, 4 notices, 2 settlements | `QuoteReconciles`, `DueDatesReachDeadline`, `QuoteIsBookable`, `BookingIsPayable`, `ActiveAnswerIsTrue`, `RefundReconciles`, `QuoteIsAnswered` |
| `entitlement_refused` (violation) | one quote, a non-refundable amount of one and a half minor units | an entitlement cannot be stored, and the answer is untrue |
| `confirmed_regresses` (violation) | 2 attempts, 2 initiations, 2 webhooks | a confirmed booking falls back |
| `settled_twice` (violation) | 2 attempts, 2 initiations, 1 webhook | two attempts of a booking are settled |
| `money_after_decline` (violation) | 1 attempt, fair | captured money is rejected and never answered |

Every property of a passing run has a mutant in `PROJECT.json`: a plausible bug
of a mapped definition under which TLC finds the property violated.

*Bounds.* The checkout has one booking, and two of each actor is where its races
live: every disagreement found needs two requests, and none more. Attempts are
symmetric, so a third adds a repetition of the second. One webhook per
settlement in flight and one retry suffice to make a stale copy. Two holds and
one seat are the smallest competition; three capacities and longer clocks gave
nothing new, and the proofs remove the bound. `checkout_races` leaves deaths to `checkout_seq`: for a
safety property a dead request is one that never takes its next step, which
`Spec` allows, and a death only lets the same slot serve a further request. The theorems
about the checkout bound neither attempts nor requests.
Having no cancellation
and no callback, `checkout_races` meets neither the Cancelled half of
`ConfirmedHasCommitment` nor a callback that overtakes an event; and `checkout_seq` has
one settlement at most, because that is what it shows. `ConfirmedTheorem`, `PaidTheorem` and `SeatTheorem` cover the first two for
any number of cancellations and callbacks, run `money` a second settlement
(`RefundReconciles`).
`MaxTime` = 3 is one more than the
lifetime of a hold, so that a hold can lapse and its seat be taken again.
Deadlock checking is off for the checkout and for `money`: a booking's story
ends. The amounts of `money` are small because rounding shows only there: the
deposit rounds to nothing for a total of 1, up and down to a tie elsewhere, and
six instalments share 1 to 100 minor units. Its deadlines fall before, on and
between cadence days, in the quote's month and later. The theorems about it have
no bounds.

`journey` and `departure` could be used for ever, so their instances bound what
people begin: each scenario is one mix of operations in which a property could
break, and what a request does once begun is never bounded. Two tabs are enough
for one to overtake the other; two quotes of one pool make the second find the
hold of the first; lifetimes of one tick let every answer be older than the hold
it tells of. Two operators per operation are enough to make one of them stale, two
Double rooms in one stay to move between, a third in the other stay to confuse with, and
three travellers to fill a room. `Covered` = {2} lets an amendment change whether
the payments cover the party. Deadlock checking is off in both, because allowances are used
up. The theorems about both have no bounds and no scenarios.

*Fairness.* `journey` assumes that a browser fires its timers and runs
continuations, that the server handles what reaches it, and that time passes;
nothing is assumed of the customer, and a message that fails is answered with the
failure. `money` assumes that a calculation that has begun goes on, being one
synchronous call. `holds` assumes the clock goes on. `checkout_answer` assumes that a
request that is running runs to its end (ASP.NET does not suspend requests, and
the instance has no deaths), and that the provider redelivers an event until it
is answered, which is Razorpay's contract. Nothing is assumed of customers,
operators or the decision to retry. Weak fairness per request suffices: no step
of a running request is disabled by another request for good.

## 4. What the code does not keep

The five violation runs are disagreements between the code and what its
documents and answers say, each with its trace:

1. **Oversell after a GET** (`holds_oversell`): see `NoOversellWithoutUnlockedReads`
   below for the proof that nothing else oversells.
2. **A confirmed booking regresses** (`confirmed_regresses`): two attempts were
   paid; the second webhook projected PaymentSucceeded on the booking, and its
   run works on that copy after the first one confirmed. The same stale copy
   can reopen a cancelled booking.
3. **Two attempts settled** (`settled_twice`): the search for a live attempt and
   the insert are not atomic across keys. `checkout_seq` shows that without
   overlapping initiations this and 2 cannot happen, with one exception: a
   callback that read the attempt before the event of a declined payment writes
   its payment id over the declined one, and a late `payment.authorized` then
   revives the failed attempt beside a second one. The instance has therefore
   no callback; `checkout_answer` has.
4. **Money after a decline** (`money_after_decline`).
5. **An entitlement that cannot be stored** (`entitlement_refused`): a configured
   non-refundable amount that ends in half a minor unit. The theorem
   `ActiveAnswerHolds` shows that no other amount does this.

The rest of this section is behaviour met while modelling that has no violation run
of its own. No passing run claims the contrary. Where a document speaks to a case, it
is named, and the code does less than it says. Slices are cited by number
(`docs/slices/VS-nn-*.md`); `STATE-MACHINES.md` is in `docs/02-domain/`.

Three more ways for a payment to stay without an answer, against VS-10:32
("never silently discarded"):

- A slow initiation of the same key writes ProviderPending, or Failed, over
  Succeeded (`PaymentEndpoints.cs:278`): the confirmation then finds the payment
  unsettled, and the booking stays in PaymentSucceeded. `STATE-MACHINES.md:289` ("A
  `Settled` payment is not edited back to `Failed`") and the VS-09 checklist, line 21
  ("terminal payment states cannot regress"), speak to it; VS-09:35 only of events.
- An initiation that gave up moves the booking to PaymentFailed while another
  initiation is live (`PaymentEndpoints.cs:256`), so that the settlement's projection
  is refused.
- An attempt can be paid once it is saved, before the booking is moved to
  PaymentInProgress (`PaymentEndpoints.cs:316`). If the settlement comes first, or the
  request dies in between, the booking is still PendingPayment, from which
  PaymentSucceeded is not reached; the webhook logs it as "pending recovery", and
  nothing recovers it. This takes neither a second initiation nor a decline, and
  lies in the instance of `money_after_decline`: with captured events only, TLC
  refutes `MoneyIsAnswered` by it.

Two edges of the schedule, stated as exact conditions: `QuoteIsBookable` (n instalments
of a remainder of at most n(n - 1)/2 minor units may leave the last one nothing, and
the booking is refused as quote_unavailable) and `BookingIsPayable` (a deposit of at
most half a minor unit). VS-09:7, that a booking is created "from a valid quote and active
inventory hold" and its payment initiated, names no exception for small amounts.

A second settlement between a request and its approval leaves the request
in Exception for ever, with the booking cancelled and the seat released, because
the settled amount no longer matches (`RefundReconciles` holds for that reason).

Dead ends:

- A ConfirmationException raised because the hold was gone cannot be cured by any
  retry. VS-10:7 calls the exception path "recoverable"; `ExceptionKeepsItsPayment`
  shows only that what a retry asks for is kept.
- A death after the confirmation's first transaction leaves Confirming, which the
  retry endpoint refuses (`ConfirmationEndpoints.cs:43`). VS-10:31 and :33 say that a
  restart is idempotent and that retries "resume from durable evidence": the
  evidence is there, but nobody is let to it.
- A death in Applying leaves the cancellation there, for Recover asks for Exception.
  `STATE-MACHINES.md:446` wants a failed release "operationally visible/retryable",
  and VS-16:195 that the reservation is released "exactly once or records a recoverable
  exception".
- An approval answered 409 leaves its request Approved, and active, for ever; a
  refund answered Pending, or whose executor died, stays Processing. The VS-16
  checklist, line 66, asks for recovery commands "where needed".

What customer pages do not keep:

- After an answer was lost, the hold is uncertain and the selection locked
  (`plan/page.tsx:388`). If the quote expires meanwhile, "Retry safely" refuses the
  expired quote and "Create a fresh quote" refuses the locked selection: nothing
  but loading the page anew leaves this.
- A tab that is told `active_hold_exists` loads that hold and shows it under
  the figures of its own quote (`plan/page.tsx:578`). The booking that follows is
  the hold's, as `SentToItsBooking` says.
- A quote has one booking for ever (`BookingDbContext.cs:63`). A customer who
  booked, gave the hold back or let it lapse, and secured the same quote again has a
  live hold that cannot be booked; the refusal of an ended hold tells customers to "Secure
  availability again" (`BookingEndpoints.cs:403`). `RefusedOnlyForBookedQuote` shows
  that a quote booked under another hold is the only reason for that answer. VS-09:7
  promises a booking from "a valid quote and active inventory hold".
- A repeated booking request is answered only while the hold is active
  (`BookingEndpoints.cs:56`), so an existing booking is not recovered through its
  page once the hold was committed or ended; and a committed hold is shown as
  expired and returned.
- A late answer can clear, unlock or bring back what the page shows; `DeadHoldIsNoticed`
  shows that the timer corrects it. A quote that is answered after the
  selection changed is shown for the new selection (`createQuote` is one step
  in the model, so no run shows it).

What operators' pages do not keep:

- The room a traveller is moved out of is compared by its version number alone:
  another room of the same number passes, and a locked room can be left. VS-26:24
  ("stale assignment versions are rejected") and VS-26:16 (assignments "can be locked")
  speak to it, and its navigation table, line 9: in a locked room "assignment controls are
  blocked".
- An amendment that drops a traveller leaves the assignment, which goes on
  counting; a traveller it brings never gets document requirements, and the
  check for ReadyToSubmit ignores requirements without submissions
  (`VisaEndpoints.cs:61`). VS-12:40 derives readiness "only when every applicable
  traveller requirement is approved", which VS-13:20 has the visa rely on.
- A cancellation does not count the booking's version up, so an amendment whose
  confirmation read the booking before is saved on the cancelled booking. VS-25:29
  permits amendments "only when the booking is `Confirmed`", and VS-25:65 has the lifecycle
  re-validated "immediately before commit".
- An upload supersedes a submission without counting its version up
  (`DocumentEndpoints.cs:38`). A review that read it before saves Approved over
  Superseded, and a check that ends later brings it back under review.
  `STATE-MACHINES.md:354` forbids the first: "Review commands must detect when a newer
  submission has become authoritative so an obsolete file cannot be accidentally
  approved." The document readiness of traveller and handover looks at the newest
  submission only.
- The snapshot of the handover is old when it is saved: party, rooms, documents and
  the booking may have changed. Only an approved visa cannot (`HandedOverHaveVisas`).
  VS-28:12 blocks the handover "while unresolved payment, document, visa or accommodation
  blockers remain".
- The payments of a booking in instalments cover what was due now and not the
  total, so that such a departure is never payment-ready.
- A lost comparison of a submission's version, and a lost race on a unique index of
  rooms, assignments or the handover, are not caught: the loser gets an error 500
  instead of a conflict.

## 5. What is proved

The proofs follow one pattern: a strengthening of the invariant, one lemma per
action, a temporal step at the end.

`InventoryHoldsProofs`, for every set of pools, quotes, keys, hold identities
and readers, under the assumptions named in `InventoryHolds` (quotes name a pool
and a natural expiry, a positive lifetime, capacities in Nat, finitely many hold
identities):

- `InductiveInvariant`: `Spec => []IInv`. `IInv` adds to the checked invariants
  that a reader holds a row that exists (`ReadersHoldRows`). `SeatsWithinCapacity`
  alone is not inductive: `CreateHold` counts unexpired and committed holds
  after materialising the pool's lapsed ones, so the proof shows that after
  materialising, the occupied seats *are* the counted ones
  (`MaterializedStates`, `CreateHoldStep`, `SaveInventoryStep`); every other
  action only takes rows out of the occupying sets (`NoNewClaim`,
  `NoNewClaimStep`), a committed hold staying in. The capacity save with an old
  clock is sound because the old clock counts a superset.
- `TypeInvariant`, `NoOverbooking`, `ActiveHoldUnique`, `CommittedHoldsAreSold`:
  its conjuncts.
- `Refinement`: `Spec => ImplementsSeatPool`. A step gives `SeatPool` the set
  `Leaving` of holds that stop occupying; each action maps to `GiveBack`,
  `Take`, `Resize` or a stutter.
- `NoOversellWithoutUnlockedReads`: if `Readers = {}`, sold seats never exceed
  the capacity. With readers TLC refutes it (`holds_oversell`), so the unlocked
  read is the whole cause.

`QuoteScheduleProofs`, for every total, deposit, cadence day, quote date and
deadline that validation admits:

- `QuoteInvariant`: `QuoteSpec => []QuoteInv`. The loop over the months keeps its
  dates rising, below the next candidate, and complete for the months it has
  passed (`AtDates`, `CadenceDates`, `CadenceComplete`); the deadline put behind
  them keeps that (`DeadlineDates`). The loop over the dates needs no bound on
  the rounding: when the last amount is appended, it is what is left
  (`AtAmounts`).
- `ScheduleReconciles`, `DatesReachDeadline`: the two properties, from it.
- `SplitInvariant`: `QuoteSpec => []SplitInv`, how the remaining amount is split: the
  instalments add up to what is allocated, all but the last are the regular one,
  and after the loop all are positive if 2 * remaining > n(n - 1) for n of them
  (`LastInstalment`: rounding to the nearest takes at most half a unit from the last
  one for each of the others; `AllPositive`). The sum is the community modules'
  fold over a set, of which no theorem is at hand. What is needed is proved here
  from well-foundedness of the naturals: a set of naturals has a least member
  (`LeastElement`), a finite set that is wrong about a sum a least wrong subset
  (`LeastSubset`), so the fold's recursive function exists (`SumsExist`), it does not
  matter in which order it adds (`SumsAny`), and a sequence that gets one value
  more sums up to that much more (`SumAppend`).

`BookingMoneyProofs`, for every policy too, however many settlements:

- `MoneyImpliesQuote`: the composed specification implies the calculator's, so
  the theorems above hold of every booking.
- `MoneyTypes`: amounts stay natural numbers.
- `RefundsReconcile`: from `RequestAddsUp` (a stored request satisfies the
  CHECK) and the second look at the settled amount.
- `ActiveAnswerHolds`: under `NoHalfUnits`, from `PartsAddUp` (fee,
  non-refundable and refundable parts make the settled amount, and none is
  negative, whatever the fee's rounding) and `RoundedParts` (two columns round a
  whole sum apart only at a half). Without the assumption TLC refutes it
  (`entitlement_refused`).
- `BookingsArePayable`: from `DueNowInvariant` (what is due now is the total or
  the deposit) and `RoundedRatioPositive`.
- `QuotesAreBookable`: from `SplitInvariant` and `RefusalInvariant` (a refused booking
  was refused the quote as it still is).

`AccommodationProofs` and `DepartureProofs`, for every set of
travellers, rooms, pages, officers and scenarios:

- `RoomsInvariant`: `Spec => []RoomsInv`. Capacity alone is not inductive, because
  a request checked it against rows it read earlier. `RoomsInv` says of every
  request what it checked *as long as the room still has the version it was sent
  with* (`RequestHolds`), and of every page that what it shows of a room is then
  true (`ShownIsTrue`); people are only in rooms that exist (`PeopleInOpenRooms`).
  Every change of a room's people counts its version up (`RoomKept`), so a request
  whose version still holds at the save still holds what it checked.
- `CapacityTheorem`, `RoomPlanTheorem` (the refinement) and `SeenRoomsTheorem`
  follow from it.
- `DepartureInvariant`: `RoomsInv` with three others. `PapersInv`: a submission nobody
  decided has version 0 and a decided one more, so a review or a check that
  reads it undecided and finds its version is the first; a transition that finds
  its case's version still follows from the case (`TransitionHolds`). `AmendInv`: an
  envelope whose version is the booking's shows the booking's party.
  `HandoverInv`: a snapshot past the visas counted only travellers with an
  approved case, which nothing takes back, and a request that finds the handover's version
  finds it open.
- `DepartureTypes`, `HandedOverVisasTheorem`, `AmendmentTheorem`, `VerdictsTheorem`
  and `FrozenTheorem` follow from it. All properties of run `departure` are proved.

`JourneyProofs`, for every number of tabs, quotes, keys, holds and scenarios:

- `JourneyInvariant`: `Spec => []JourneyInv`. Its parts: types, with every message
  naming holds that exist (`TypeInv`); mail that is heard is heard by a page that
  waits for it, and a tab has one booking request at most (`MailInv`); a hold has one
  booking, of its own quote (`BookingsInv`); an answer under way tells the truth
  about bookings, which never change once made (`AnswerTrue`); so does the page it
  reached (`PageTrue`). The table of holds enters only through what every one of its
  actions keeps: rows are never removed and never change (`TableKept`).
- `JourneyTypes`, `BookingTheorem` and `RefusalTheorem` follow from it.

`CheckoutProofs`, for every number of attempts, initiations, callbacks, webhooks,
retries, requests, approvers and executors, with and without deaths, under the
assumptions that NULL is no attempt, moment or payment id, and that a booking has
finitely many attempts:

- `CheckoutInvariant`: `Spec => []CheckoutInv`. None of the properties is inductive,
  because each relates two schemas that are written in different transactions, by
  requests that decided on what they read before. `CheckoutInv` says of every request
  what it carries from one transaction to the next: a webhook past its first one
  carries an event its attempt was settled by (`HookTrue`), a run of the confirmation
  is about a settled attempt, and what it found in the second transaction still exists
  (`RunTrue`), an approver that tracks a confirmed booking tracks one with a seat
  (`BookingTrue`); and of the payments, that they follow the provider (`MoneyTrue`).
  What makes these last is that settlements and commitments are never taken back. The
  states of attempts play no part in it, so slow initiations that overwrite them
  break none of it.
- `PaidTheorem`, `SeatTheorem`, `ExceptionTheorem`, `ConfirmedTheorem`,
  `ExecutionTheorem` and `CheckoutTypes` follow from it; `CommitmentTheorem` needs no
  invariant.

`CheckoutTurnProofs`, for the same numbers of everything, if initiations come in
turn: `InTurn` says that no two initiations run at once, and that there is either
no callback that could overtake an event or no event of a declined payment to be
overtaken. It is a condition on the world, not on the code, and it is needed: run
`settled_twice` breaks every theorem of this module with two initiations, and
section 4 tells how a late callback does with one. `checkout_seq` is an instance of it.
That no copy of a booking is null (`CopyAssumption`) is the only assumption added.

- `SettledOnceInTurn`: `SettledOnce`. `TurnInv` counts: one attempt at most is alive,
  because an initiation inserts only where it found none (`InitiationInv`), and an
  attempt that failed at the provider carries a declined payment's id, so that no later
  event of a payment revives it (`AttemptInv`, `TurnReceive`).
- `SagaInvariant`: `Spec => []SagaInv`, which is `CheckoutInv`, `TurnInv` and `FollowInv`.
  The last says what each request relies on from one transaction to the next. The
  webhook that settles the payment finds no run and no paid booking (`HookAlone`). A
  webhook's run works on a copy that is still true, and later runs only repeat a
  refusal, because the seat is then lost for good (`RunHolds`, `SeatLost`: two runs
  at once would otherwise commit and refuse). An approver sees the booking as it is,
  or a state from which it does nothing, because one approver at most decides and
  the requests of others are refused as long as its own is active (`ApproverHolds`,
  `RequestHolds`). Lost copies and old reads remain in the model; the invariant
  shows where they cannot do harm.
- `SeatFollowsBookingInTurn`, `GivenBackTheorem`, `NothingRegressesInTurn`: the three
  properties, from it.
- `LedgerTheorem`: `Spec => ImplementsLedger`, component by component: a payment step is
  `Pay` or none, because a settled payment stays one and is the only one
  (`OnePaymentEntered`, `PaymentEntry`); a confirmation's transactions are `TryAgain`,
  `Sell`, `Confirm` or `PutAside` (`ConfirmationEntry`); a cancellation's are `Cancel`,
  `ReturnSeat` and `GiveBack` (`CancelEntry`); a hold's are none.

Every safety property a passing run checks is proved. Only model-checked is liveness
(fairness and ENABLED are out of the prover's reach): `AbandonedSeatReturns`,
`QuoteIsAnswered`, `AcceptedPaymentIsAnswered`, `ApplyingEnds`, `DeadHoldIsNoticed`.

## 6. Plan

In this order, each with a module, a run where it asks a question of its own,
and proofs where they say more than the run:

1. `BookingAmendment` as part of `CheckoutSaga`: it brings back the mismatch branch
   of the confirmation. An amendment prices anew without the quote's payment mode,
   which `BookingMoney` can then follow.
2. `Publication` and catalogue authoring: review and publication under the
   version token.
3. `FamilyBooking`: invitations and memberships under the party's version.
4. The payment page's polling, whose chains can overlap and whose failed poll is not
   tried again, as an actor beside `PaymentCheckout`.
5. What is left of `BookingLedger` when initiations overlap: the order of
   seat, cancellation and return should survive a second payment, the
   confirmation does not.

## 7. Not modelled

Authentication and authorisation (guards on the caller); read models; the outbox
(nothing reads it); the retention worker, which deletes files thirty days after the
return; the manifest's notes per traveller, which nothing else reads; the
authoring of prices, plans and packages; public and read-only pages; generated
migrations. Most of the repository's script files are tools for working on the
design, not part of the program.
