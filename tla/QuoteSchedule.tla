---------------------------- MODULE QuoteSchedule ----------------------------
(***************************************************************************)
(* QuoteScheduleCalculator: what is due now, what remains, and on which    *)
(* dates.  Amounts are in minor units (hundredths).  The two loops of the  *)
(* calculator, over the months and over the due dates, run a round a step. *)
(*                                                                         *)
(* A date is 31 * month + day.  The calculator orders dates and goes from  *)
(* a month to the next on a day from 1 to 28, which every month has, and   *)
(* no more is asked of a calendar.                                         *)
(***************************************************************************)
EXTENDS Integers, Sequences

CONSTANTS
  Totals,          \* published price times travellers
  Deposits,        \* DepositPercent, in hundredths of a percent
  InstalmentDays,  \* InstalmentDayOfMonth
  QuoteDays,       \* days of month on which quotes are made, all in month 0
  FinalDueDates    \* departure date less FinalPaymentDueDaysBeforeDeparture

Whole == 10000     \* a hundred per cent, in hundredths of a percent

(* PricingDraft's and PaymentPlanPolicy's Validate; a plan may already be over. *)
ASSUME QuoteAssumption ==
  /\ Totals \subseteq Nat \ {0}
  /\ Deposits \subseteq 1..Whole
  /\ InstalmentDays \subseteq 1..28
  /\ QuoteDays \subseteq 1..31
  /\ FinalDueDates \subseteq Nat

VARIABLES
  quote,        \* the arguments of Calculate
  pc,           \* the statement it is at
  month,        \* the loop of BuildDueDates
  dueDates,
  dueNow,
  remaining,
  allocated,    \* the loop over the due dates
  amounts       \* Instalments: amounts[k] is due on dueDates[k]

quoteVars == <<quote, pc, month, dueDates, dueNow, remaining, allocated, amounts>>

QuotePaymentMode == {"PayFull", "Milestone", "PayLater"}
Quotes == [total : Totals, planned : BOOLEAN, deposit : Deposits, day : InstalmentDays,
           date : QuoteDays, finalDueDate : FinalDueDates, mode : QuotePaymentMode]

(* Mutants of RoundedRatio: always up, always down. *)
RatioUp(a, n) == (a + n - 1) \div n
RatioDown(a, n) == a \div n

(* RoundMoney of a / n: to the nearest minor unit, a tie to the even one. *)
RoundedRatio(a, n) ==
  LET q == a \div n
      r == a % n
  IN  IF 2 * r > n \/ (2 * r = n /\ q % 2 = 1) THEN q + 1 ELSE q

QuoteInit ==
  /\ quote \in Quotes
  /\ pc = "Deposit"
  /\ month = 0
  /\ dueDates = <<>> /\ amounts = <<>>
  /\ dueNow = 0 /\ remaining = 0 /\ allocated = 0
-----------------------------------------------------------------------------
Deposit == RoundedRatio(quote.total * quote.deposit, Whole)

(* No plan, a plan whose deadline has come, or nothing left after the deposit:
   everything is due now. *)
NothingLater ==
  \/ ~quote.planned
  \/ quote.finalDueDate <= quote.date
  \/ quote.total - Deposit <= 0

DueInFull ==
  /\ pc = "Deposit" /\ NothingLater
  /\ dueNow' = quote.total
  /\ pc' = "Done"
  /\ UNCHANGED <<quote, month, dueDates, remaining, allocated, amounts>>

TakeDeposit ==
  /\ pc = "Deposit" /\ ~NothingLater
  /\ dueNow' = Deposit
  /\ remaining' = quote.total - Deposit
  /\ pc' = "Dates"
  /\ UNCHANGED <<quote, month, dueDates, allocated, amounts>>

Candidate == 31 * month + quote.day
Cadence == IF quote.date < Candidate /\ Candidate <= quote.finalDueDate
           THEN Append(dueDates, Candidate) ELSE dueDates

(* Mutant of WithDeadline: the deadline always gets an instalment of its own. *)
WithDeadlineAgain(dates) == Append(dates, quote.finalDueDate)

(* The deadline is the last due date, if the cadence does not end on it. *)
WithDeadline(dates) ==
  IF dates = <<>> \/ dates[Len(dates)] # quote.finalDueDate
  THEN Append(dates, quote.finalDueDate) ELSE dates

(* Mutant of NextMonth: the month is not advanced. *)
SameMonth ==
  /\ pc = "Dates" /\ Candidate < quote.finalDueDate
  /\ dueDates' = Cadence
  /\ UNCHANGED <<quote, pc, month, dueNow, remaining, allocated, amounts>>

NextMonth ==
  /\ pc = "Dates" /\ Candidate < quote.finalDueDate
  /\ dueDates' = Cadence
  /\ month' = month + 1
  /\ UNCHANGED <<quote, pc, dueNow, remaining, allocated, amounts>>

LastMonth ==
  /\ pc = "Dates" /\ Candidate >= quote.finalDueDate
  /\ dueDates' = WithDeadline(Cadence)
  /\ pc' = "Amounts"
  /\ UNCHANGED <<quote, month, dueNow, remaining, allocated, amounts>>

(* Mutant of InstalmentAmount: the last one does not absorb the rounding. *)
RegularAmount == RoundedRatio(remaining, Len(dueDates))

InstalmentAmount ==
  IF Len(amounts) + 1 = Len(dueDates)
  THEN remaining - allocated
  ELSE RoundedRatio(remaining, Len(dueDates))

NextInstalment ==
  /\ pc = "Amounts" /\ Len(amounts) < Len(dueDates)
  /\ amounts' = Append(amounts, InstalmentAmount)
  /\ allocated' = allocated + InstalmentAmount
  /\ UNCHANGED <<quote, pc, month, dueDates, dueNow, remaining>>

(* The payment mode the customer chose, applied to the governed schedule *)
Scheduled(mode) ==
  /\ pc = "Amounts" /\ Len(amounts) = Len(dueDates) /\ quote.mode = mode
  /\ pc' = "Done"
  /\ UNCHANGED <<quote, month>>

Milestone ==
  /\ Scheduled("Milestone")
  /\ UNCHANGED <<dueDates, amounts, dueNow, remaining, allocated>>

PayFull ==
  /\ Scheduled("PayFull")
  /\ dueNow' = quote.total /\ remaining' = 0 /\ allocated' = 0
  /\ dueDates' = <<>> /\ amounts' = <<>>

(* Mutant of ToPayLater: the monthly amounts are kept. *)
DeadlineOnly ==
  /\ Scheduled("PayLater")
  /\ dueDates' = <<dueDates[Len(dueDates)]>>
  /\ UNCHANGED <<amounts, dueNow, remaining, allocated>>

ToPayLater ==
  /\ Scheduled("PayLater")
  /\ dueDates' = <<dueDates[Len(dueDates)]>>
  /\ amounts' = <<remaining>>
  /\ UNCHANGED <<dueNow, remaining, allocated>>

QuoteNext ==
  \/ DueInFull \/ TakeDeposit \/ NextMonth \/ LastMonth
  \/ NextInstalment \/ Milestone \/ PayFull \/ ToPayLater
QuoteSpec == QuoteInit /\ [][QuoteNext]_quoteVars
-----------------------------------------------------------------------------
QuoteTypeOK ==
  /\ quote \in Quotes
  /\ pc \in {"Deposit", "Dates", "Amounts", "Done"}
  /\ month \in Nat
  /\ dueDates \in Seq(Nat)
  /\ dueNow \in Nat /\ remaining \in Nat
  /\ allocated \in Int
  /\ amounts \in Seq(Int)
  /\ Len(amounts) <= Len(dueDates)
  /\ pc = "Done" => Len(amounts) = Len(dueDates)

(* VS-07:108, "all amounts reconcile exactly": what is due now and what remains
   are the total, and the instalments use up what remains, for every rounding
   of the deposit and of the regular instalment, and for every mode. *)
QuoteReconciles ==
  pc = "Done" => dueNow + remaining = quote.total /\ allocated = remaining

(* VS-07:106-107: due dates rise, lie after the quote and not after the
   deadline, the deadline is the last one, whatever day the cadence has, and
   no month of the cadence is left out. *)
DueDatesReachDeadline ==
  /\ \A k \in 1..Len(dueDates) :
       /\ quote.date < dueDates[k] /\ dueDates[k] <= quote.finalDueDate
       /\ \A j \in 1..(k - 1) : dueDates[j] < dueDates[k]
  /\ pc = "Amounts" \/ (pc = "Done" /\ dueDates # <<>>) =>
       dueDates # <<>> /\ dueDates[Len(dueDates)] = quote.finalDueDate
  /\ pc = "Amounts" =>
       \A m \in 0..(quote.finalDueDate \div 31) :
         quote.date < 31 * m + quote.day /\ 31 * m + quote.day <= quote.finalDueDate =>
           \E k \in 1..Len(dueDates) : dueDates[k] = 31 * m + quote.day
=============================================================================
