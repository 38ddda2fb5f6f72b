-------------------------- MODULE MCBookingJourney --------------------------
(* Small instances of BookingJourney: two tabs, two quotes of one room type,
   and one mix of clicks, reloads and failures per scenario. *)
EXTENDS BookingJourney, TLC

CONSTANTS q1, q2, ann, quad

MCQuote == (q1 :> [account |-> ann, pool |-> quad, expires |-> 1])
        @@ (q2 :> [account |-> ann, pool |-> quad, expires |-> 2])

Only(given) ==
  [op \in Operations |-> IF op \in DOMAIN given THEN given[op] ELSE 0]

MCScenarios == {
  (* a hold is booked, given back, taken again on the same quote and booked *)
  Only([quote |-> 1, secure |-> 2, release |-> 1, open |-> 2, retry |-> 1]),
  (* two tabs open one hold's booking page, over a failing network *)
  Only([quote |-> 1, secure |-> 1, open |-> 3, retry |-> 1, fail |-> 1, commit |-> 1]),
  (* a quote in each tab: the second finds the hold of the first *)
  Only([quote |-> 2, secure |-> 2, refresh |-> 1, release |-> 1]),
  (* answers lost, late and out of order *)
  Only([quote |-> 1, secure |-> 2, release |-> 1, refresh |-> 1, fail |-> 2]),
  (* quotes given up, pages loaded anew, departures not saleable *)
  Only([quote |-> 2, reset |-> 1, secure |-> 2, reload |-> 1, refuse |-> 1]) }
=============================================================================
