------------------------------ MODULE AIBudget ------------------------------
(***************************************************************************)
(* The spending ceiling of src/review/ai_usage.py: every billable AI call  *)
(* reserves its highest cost under one database lock, and the reservation  *)
(* is replaced by the actual cost when the call returns.                   *)
(*                                                                         *)
(* A caller computes `now` before it waits for the lock, so the day and    *)
(* the age of the reservations it works with may be those of a moment ago. *)
(* A reservation stops counting at AI_BUDGET_RESERVATION_TTL_MINUTES (60), *)
(* which no call outlives: the queue kills its run after 30 minutes.       *)
(* Enforcement is on and the provider priced; costs are whole units.       *)
(*                                                                         *)
(* Bounds: MaxCalls (usage events), LastDay.                               *)
(***************************************************************************)
EXTENDS Naturals, FiniteSetsExt

CONSTANTS Callers, MaxCalls, MaxCost, DayLimit, MonthLimit, DaysInMonth, LastDay

VARIABLES
    today,    \* the current day
    status,   \* status of each AIUsageEvent; "none" before it is created
    day,      \* the day of its created_at
    cost,     \* estimated_max_cost_usd while reserved, then actual_cost_usd
    expired,  \* the reservations older than the time to live
    billed,   \* what the provider billed for the call
    caller    \* what each caller is doing

vars == <<today, status, day, cost, expired, billed, caller>>

Events == 1..MaxCalls
Days == 1..LastDay
Month(d) == (d - 1) \div DaysInMonth
Idle == [at |-> "idle"]
\* A caller about to take the lock, with the day and the expired reservations of
\* its `now`, and a caller whose request is at the provider.
Asking(d, old, most) == [at |-> "ask", day |-> d, expired |-> old, most |-> most]
Calling(e) == [at |-> "call", event |-> e]
Goto(c, where) == caller' = [caller EXCEPT ![c] = where]
InFlight(e) == \E c \in Callers : caller[c] = Calling(e)

Init ==
    /\ today = 1
    /\ status = [e \in Events |-> "none"]
    /\ day = [e \in Events |-> 0]
    /\ cost = [e \in Events |-> 0]
    /\ expired = {}
    /\ billed = [e \in Events |-> 0]
    /\ caller = [c \in Callers |-> Idle]

\* Mutant: what is reserved by others does not count.
CompletedCost(from, old) ==
    MapThenSumSet(LAMBDA e : cost[e],
                  {e \in Events : status[e] = "completed" /\ day[e] >= from})

\* _committed_cost_since: the spend since the start of a day, and the
\* reservations since then that are not expired.
CommittedCost(from, old) ==
    MapThenSumSet(LAMBDA e : cost[e],
                  {e \in Events : /\ day[e] >= from
                                  /\ \/ status[e] = "completed"
                                     \/ status[e] = "reserved" /\ e \notin old})

\* _period_starts: the first day of the month.
FirstOfMonth(d) == Month(d) * DaysInMonth + 1

\* reserve_ai_call, before the lock: the highest cost of the call and `now`.
Ask(c, most) ==
    /\ caller[c] = Idle
    /\ Goto(c, Asking(today, expired, most))
    /\ UNCHANGED <<today, status, day, cost, expired, billed>>

Exceeds(limit, from, old, most) == limit > 0 /\ CommittedCost(from, old) + most > limit

\* reserve_ai_call, under the lock: the event is created as reserved, or as
\* blocked when a ceiling would be exceeded.
Reserve(c, e) ==
    /\ caller[c].at = "ask"
    /\ status[e] = "none" /\ \A f \in Events : f < e => status[f] # "none"
    /\ day' = [day EXCEPT ![e] = today]
    /\ LET asked == caller[c]
       IN  IF \/ Exceeds(DayLimit, asked.day, asked.expired, asked.most)
              \/ Exceeds(MonthLimit, FirstOfMonth(asked.day), asked.expired, asked.most)
           THEN /\ status' = [status EXCEPT ![e] = "blocked"]
                /\ Goto(c, Idle)
                /\ UNCHANGED cost
           ELSE /\ status' = [status EXCEPT ![e] = "reserved"]
                /\ cost' = [cost EXCEPT ![e] = asked.most]
                /\ Goto(c, Calling(e))
    /\ UNCHANGED <<today, expired, billed>>

\* The provider answers and bills at most what was reserved: the input counts at
\* most its bytes, the output at most max_tokens.
Bill(c) ==
    /\ caller[c].at = "call"
    /\ billed[caller[c].event] = 0
    /\ \E amount \in 1..cost[caller[c].event] :
          billed' = [billed EXCEPT ![caller[c].event] = amount]
    /\ UNCHANGED <<today, status, day, cost, expired, caller>>

\* Mutant: the actual cost is added to the estimate.
CompleteAdds(c) ==
    /\ caller[c].at = "call"
    /\ LET e == caller[c].event
       IN  /\ billed[e] > 0
           /\ status' = [status EXCEPT ![e] = "completed"]
           /\ cost' = [cost EXCEPT ![e] = @ + billed[e]]
    /\ Goto(c, Idle)
    /\ UNCHANGED <<today, day, expired, billed>>

\* complete_ai_call: the usage the provider reported replaces the reservation.
Complete(c) ==
    /\ caller[c].at = "call"
    /\ LET e == caller[c].event
       IN  /\ billed[e] > 0
           /\ status' = [status EXCEPT ![e] = "completed"]
           /\ cost' = [cost EXCEPT ![e] = billed[e]]
    /\ Goto(c, Idle)
    /\ UNCHANGED <<today, day, expired, billed>>

\* fail_ai_call: the request failed, or its answer was of no use.
Fail(c) ==
    /\ caller[c].at = "call"
    /\ status' = [status EXCEPT ![caller[c].event] = "failed"]
    /\ cost' = [cost EXCEPT ![caller[c].event] = 0]
    /\ Goto(c, Idle)
    /\ UNCHANGED <<today, day, expired, billed>>

\* The process dies; a reservation it made stays.
Crash(c) ==
    /\ caller[c] # Idle
    /\ Goto(c, Idle)
    /\ UNCHANGED <<today, status, day, cost, expired, billed>>

\* A reservation left behind gets older than the time to live.
Expire(e) ==
    /\ status[e] = "reserved" /\ e \notin expired
    /\ ~InFlight(e)
    /\ expired' = expired \union {e}
    /\ UNCHANGED <<today, status, day, cost, billed, caller>>

Midnight ==
    /\ today < LastDay
    /\ today' = today + 1
    /\ UNCHANGED <<status, day, cost, expired, billed, caller>>

Next ==
    \/ \E c \in Callers :
          \/ \E most \in 1..MaxCost : Ask(c, most)
          \/ \E e \in Events : Reserve(c, e)
          \/ Bill(c) \/ Complete(c) \/ Fail(c) \/ Crash(c)
    \/ \E e \in Events : Expire(e)
    \/ Midnight

Spec == Init /\ [][Next]_vars

(***************************************************************************)
(* Properties.                                                             *)
(***************************************************************************)

\* Every field has a value the code can write; an actual cost is at most the
\* highest cost of a call.
TypeOK ==
    /\ today \in Days
    /\ status \in [Events -> {"none", "reserved", "blocked", "completed", "failed"}]
    /\ day \in [Events -> 0..LastDay]
    /\ cost \in [Events -> 0..MaxCost]
    /\ expired \subseteq Events
    /\ billed \in [Events -> 0..MaxCost]
    /\ \A c \in Callers : caller[c].at \in {"idle", "ask", "call"}

Counted(e) == status[e] = "completed" \/ (status[e] = "reserved" /\ e \notin expired)
CostOn(S) == MapThenSumSet(LAMBDA e : cost[e], {e \in Events : day[e] \in S /\ Counted(e)})

\* "simultaneous requests cannot all pass the same remaining-budget check": what
\* was recorded for a day or a month, and what its reservations may still cost,
\* stays under the ceiling, also for the requests that wait over midnight.
UnderCeilings ==
    /\ DayLimit > 0 => \A d \in Days : CostOn({d}) <= DayLimit
    /\ MonthLimit > 0 =>
          \A m \in {Month(d) : d \in Days} : CostOn({d \in Days : Month(d) = m}) <= MonthLimit

\* "blocks the provider call if that reservation would cross a configured
\* ceiling": what the provider bills for the calls of a day stays under the
\* daily ceiling, whatever becomes of their answers.
BillUnderCeiling ==
    \A d \in Days :
        MapThenSumSet(LAMBDA e : billed[e], {e \in Events : day[e] = d}) <= DayLimit
=============================================================================
