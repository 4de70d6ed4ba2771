---------------------------- MODULE ExchangeRates ----------------------------
(***************************************************************************)
(* The request budget of the exchange-rate provider (exchange_rates/): the *)
(* runner's refreshes and usage checks, and what administrators ask for by *)
(* hand, reserve a request before they send it, under a lock that lapses   *)
(* after five minutes.  A request counts on the day it was started; the    *)
(* counters belong to one day, and whoever finds another one resets them.  *)
(***************************************************************************)
EXTENDS Integers

CONSTANTS
    Caller,              \* operations under way at the same time
    NoCaller,
    SafeLimit,           \* daily_request_limit - reserved_request_count
    MaxDay,              \* bound on the days
    OutlivesMidnight     \* an operation may run on over midnight without its lock, or before
                         \* it has reserved its request

ASSUME ExchangeRatesAssumption ==
    /\ NoCaller \notin Caller
    /\ SafeLimit \in Nat \ {0} /\ MaxDay \in Nat \ {0} /\ OutlivesMidnight \in BOOLEAN

VARIABLES
    day,         \* the date in FlowHub's time zone
    budget,      \* request_count_date, request_count and provider_daily_usage
    rateBlocked, \* authentication_blocked
    rateLock,    \* whose refresh_lock_token is valid
    call,        \* what each operation is doing
    spent        \* requests sent to the provider, by the day that pays for them

ratesVars == <<day, budget, rateBlocked, rateLock, call, spent>>

Zero(date) == [date |-> date, count |-> 0, usage |-> 0]
Budget == [date : 1..MaxDay, count : 0..SafeLimit, usage : 0..SafeLimit]
NoCall == [at |-> "idle", day |-> 1, seen |-> Zero(1)]

RatesTypeOK ==
    /\ day \in 1..MaxDay /\ budget \in Budget /\ rateBlocked \in BOOLEAN
    /\ rateLock \in Caller \cup {NoCaller}
    /\ call \in [Caller -> [at : {"idle", "lock", "reset", "reserve", "retry", "check", "send",
                                  "answer", "record", "release"},
                            day : 1..MaxDay, seen : Budget]]
    /\ spent \in [1..MaxDay -> Nat]

RatesInit ==
    /\ day = 1 /\ budget = Zero(1) /\ rateBlocked = FALSE /\ rateLock = NoCaller
    /\ call = [c \in Caller |-> NoCall]
    /\ spent = [d \in 1..MaxDay |-> 0]

CallAt(c, step) == call[c].at = step
NextStep(c, step) == call' = [call EXCEPT ![c].at = step]

\* _reset_if_needed, for whom it is the given day.
ResetFor(date) == budget' = IF budget.date = date THEN budget ELSE Zero(date)

-------------------------------------------------------------------------------

\* refresh, test_connection or sync_usage: the row is read, and the time taken.
BeginCall(c) ==
    /\ CallAt(c, "idle") /\ ~rateBlocked
    /\ call' = [call EXCEPT ![c] = [at |-> "lock", day |-> day, seen |-> budget]]
    /\ UNCHANGED <<day, budget, rateBlocked, rateLock, spent>>

\* _acquire_refresh_lock: one of two gets it, the other is told that one is running.
AcquireRateLock(c) ==
    /\ CallAt(c, "lock")
    /\ IF rateLock = NoCaller
       THEN rateLock' = c /\ NextStep(c, "reset")
       ELSE rateLock' = rateLock /\ call' = [call EXCEPT ![c] = NoCall]
    /\ UNCHANGED <<day, budget, rateBlocked, spent>>

\* The counters are those of the day of the operation.  A session of the API reads
\* the row again after this commit; the runner's keeps it as it was read, and the
\* reset is applied to that, too.
ResetDay(c) ==
    /\ CallAt(c, "reset") /\ ResetFor(call[c].day)
    /\ \E row \in {budget', IF call[c].seen.date = call[c].day THEN call[c].seen
                                                               ELSE Zero(call[c].day)} :
          call' = [call EXCEPT ![c].at = "reserve", ![c].seen = row]
    /\ UNCHANGED <<day, rateBlocked, rateLock, spent>>

Used(row) == IF row.count > row.usage THEN row.count ELSE row.usage

\* An error: the update compares the day, and not the counters.
SameDay(row) == budget.date = row.date

\* The row is as it was read.
SameBudget(row) == budget = row

\* reserve: the budget is exhausted; or the counter goes up if the row is as it was
\* read, or the row is read again, or the fifth try was in vain.
ReserveRequest(c) ==
    /\ CallAt(c, "reserve")
    /\ \/ /\ Used(call[c].seen) >= SafeLimit
          /\ NextStep(c, "release") /\ UNCHANGED budget
       \/ /\ Used(call[c].seen) < SafeLimit
          /\ IF SameBudget(call[c].seen)
             THEN /\ budget' = [budget EXCEPT !.count = call[c].seen.count + 1]
                  /\ NextStep(c, "check")
             ELSE UNCHANGED budget /\ (NextStep(c, "retry") \/ NextStep(c, "release"))
    /\ UNCHANGED <<day, rateBlocked, rateLock, spent>>

RereadBudget(c) ==
    /\ CallAt(c, "retry")
    /\ call' = [call EXCEPT ![c].at = "reserve", ![c].seen = budget]
    /\ UNCHANGED <<day, budget, rateBlocked, rateLock, spent>>

\* The snapshot at the end of reserve, with its reset.
CheckReserved(c) ==
    /\ CallAt(c, "check") /\ ResetFor(call[c].day) /\ NextStep(c, "send")
    /\ UNCHANGED <<day, rateBlocked, rateLock, spent>>

SendRequest(c) ==
    /\ CallAt(c, "send") /\ NextStep(c, "answer")
    /\ spent' = [spent EXCEPT ![call[c].day] = @ + 1]
    /\ UNCHANGED <<day, budget, rateBlocked, rateLock>>

\* mark_completed resets once more, if the provider has answered at all.
MarkCompleted(c) ==
    /\ CallAt(c, "answer")
    /\ \/ ResetFor(call[c].day) /\ NextStep(c, "record")
       \/ UNCHANGED budget /\ NextStep(c, "release")
    /\ UNCHANGED <<day, rateBlocked, rateLock, spent>>

\* What came of it: an authentication failure blocks the provider, rates a refresh
\* has stored unblock it, usage the provider reports replaces what it has reported
\* before; a test of the connection changes nothing.
RecordOutcome(c) ==
    /\ CallAt(c, "record") /\ NextStep(c, "release")
    /\ \/ UNCHANGED <<budget, rateBlocked>>
       \/ rateBlocked' = TRUE /\ UNCHANGED budget
       \/ rateBlocked' = FALSE /\ UNCHANGED budget
       \/ /\ UNCHANGED rateBlocked
          /\ \E u \in 0..SafeLimit : budget' = [budget EXCEPT !.usage = u]
    /\ UNCHANGED <<day, rateLock, spent>>

\* _release_refresh_lock, in the finally clause; only of an own token.
ReleaseRateLock(c) ==
    /\ CallAt(c, "release")
    /\ rateLock' = IF rateLock = c THEN NoCaller ELSE rateLock
    /\ call' = [call EXCEPT ![c] = NoCall]
    /\ UNCHANGED <<day, budget, rateBlocked, spent>>

-------------------------------------------------------------------------------

\* Whether a call was started yesterday.
Late(c) == ~CallAt(c, "idle") /\ call[c].day # day

\* Five minutes are over, of a process that died or stalls.
LapseRateLock ==
    /\ rateLock # NoCaller /\ rateLock' = NoCaller
    /\ OutlivesMidnight \/ ~Late(rateLock)
    /\ UNCHANGED <<day, budget, rateBlocked, call, spent>>

CrashCall(c) ==
    /\ ~CallAt(c, "idle") /\ call' = [call EXCEPT ![c] = NoCall]
    /\ UNCHANGED <<day, budget, rateBlocked, rateLock, spent>>

Reserved(c) == call[c].at \in {"check", "send", "answer", "record", "release"}

\* An operation that has reserved its request, and its lock, may run on over midnight;
\* whether others may, too, is OutlivesMidnight.
Midnight ==
    /\ day < MaxDay /\ day' = day + 1
    /\ OutlivesMidnight \/ \A c \in Caller : CallAt(c, "idle") \/ (rateLock = c /\ Reserved(c))
    /\ UNCHANGED <<budget, rateBlocked, rateLock, call, spent>>

\* The settings page resets the counters of yesterday, without the lock.
ReadDiagnostics ==
    /\ ResetFor(day) /\ UNCHANGED <<day, rateBlocked, rateLock, call, spent>>

\* update_admin_config with a new key.
ChangeKey ==
    /\ rateBlocked /\ rateBlocked' = FALSE
    /\ UNCHANGED <<day, budget, rateLock, call, spent>>

RatesNext ==
    \/ \E c \in Caller :
          \/ BeginCall(c) \/ AcquireRateLock(c) \/ ResetDay(c) \/ ReserveRequest(c)
          \/ RereadBudget(c) \/ CheckReserved(c) \/ SendRequest(c) \/ MarkCompleted(c)
          \/ RecordOutcome(c) \/ ReleaseRateLock(c) \/ CrashCall(c)
    \/ LapseRateLock \/ Midnight \/ ReadDiagnostics \/ ChangeKey

RatesSpec == RatesInit /\ [][RatesNext]_ratesVars

-------------------------------------------------------------------------------

\* Every request reserves budget before it is sent ("Authoritative request budget",
\* exchange-rates.md): no day pays for more than the safe limit - with locks that
\* have lapsed, rows read before others counted, and midnight between a
\* reservation and its answer.
BudgetIsKept == \A d \in 1..MaxDay : spent[d] <= SafeLimit
=============================================================================
