----------------------------- MODULE Scheduler ------------------------------
(***************************************************************************)
(* Timers, the API requests that switch them on and off, and the scheduler *)
(* replicas that turn due timers into executions.                          *)
(*                                                                         *)
(* ScheduleDueBatch is one transaction on locked rows and therefore one    *)
(* step, but the replica reads its clock before it.  Activate and          *)
(* Deactivate are two statements each: what they read and computed may be  *)
(* out of date when their UPDATE runs.                                     *)
(*                                                                         *)
(* The version column is left out: it changes with every statement below,  *)
(* and the scheduler's check of it reads a row its own transaction locks.  *)
(***************************************************************************)
EXTENDS Integers, FiniteSets

CONSTANTS
    Timers,             \* ids of timer_definitions, ordered as the numbers they are
    Schedulers,         \* scheduler replicas
    Clients,            \* concurrent API requests
    Requests,           \* what may be asked for at creation: policy and catch-up
    NextTriggerTime(_, _),  \* the cron expression: first slot of a timer after a time
    Grace,              \* scheduler.misfire_grace_seconds
    DefaultMaxCatchUp,  \* scheduler.default_max_catch_up
    BatchSize,          \* scheduler.batch_size
    Null,
    MaxTime             \* bound: the clock stops here

Time == Nat

Policies == {"SKIP", "FIRE_ONCE", "CATCH_UP"}

\* A request may leave the policy empty and max_catch_up zero.
Request == [policy : Policies \cup {""}, max_catch_up : Nat]

\* The scheduler asks for the slot after times it has seen only.
ASSUME CronAssumption ==
    \A t \in Timers, x \in 0..MaxTime :
        /\ NextTriggerTime(t, x) \in Time
        /\ NextTriggerTime(t, x) > x
        /\ \A y \in x..MaxTime : y < NextTriggerTime(t, x) =>
             NextTriggerTime(t, y) = NextTriggerTime(t, x)

ASSUME SchedulerConstants ==
    /\ Timers \subseteq Nat \ {0}
    /\ Requests \subseteq Request
    /\ Grace \in Nat
    /\ DefaultMaxCatchUp \in Nat \ {0}
    /\ BatchSize \in Nat \ {0}
    /\ Null \notin Nat
    /\ MaxTime \in Nat

VARIABLES
    now,         \* the clock
    timers,      \* timer_definitions
    executions,  \* how many timer_executions each slot of each timer has
    scans,       \* per scheduler, the time its running batch was started at
    requests     \* what each API request is doing

vars == <<now, timers, executions, scans, requests>>
-----------------------------------------------------------------------------
TimerStatus == {"INACTIVE", "ACTIVE", "DELETED"}

\* "ABSENT" is the status of an id that has no row.
Timer == [status       : TimerStatus \cup {"ABSENT"},
          next_fire_at : Time \cup {Null},
          policy       : Policies,
          max_catch_up : Nat \ {0}]

\* A request between its SELECT and its UPDATE.
Pending == [op : {"activate", "deactivate"}, timer : Timers, next : Time \cup {Null}]

TypeOK ==
    /\ now \in 0..MaxTime
    /\ timers \in [Timers -> Timer]
    /\ executions \in [Timers -> [0..MaxTime -> Nat]]
    /\ scans \in [Schedulers -> Time \cup {Null}]
    /\ requests \in [Clients -> Pending \cup {Null}]

Init ==
    /\ now = 0
    /\ timers = [t \in Timers |-> [status |-> "ABSENT", next_fire_at |-> Null,
                                   policy |-> "FIRE_ONCE", max_catch_up |-> 1]]
    /\ executions = [t \in Timers |-> [s \in 0..MaxTime |-> 0]]
    /\ scans = [r \in Schedulers |-> Null]
    /\ requests = [c \in Clients |-> Null]

Tick ==
    /\ now < MaxTime
    /\ now' = now + 1
    /\ UNCHANGED <<timers, executions, scans, requests>>
-----------------------------------------------------------------------------
(* The API *)

\* ValidateTimerTransition
timerTransitions ==
    {<<"ACTIVE", "INACTIVE">>, <<"ACTIVE", "DELETED">>,
     <<"INACTIVE", "ACTIVE">>, <<"INACTIVE", "DELETED">>}

\* Mutant: leaves the defaults to the scheduler.
CreateAsAsked(t, request) ==
    /\ timers[t].status = "ABSENT"
    /\ timers' = [timers EXCEPT ![t] =
         [status       |-> "INACTIVE",
          next_fire_at |-> Null,
          policy       |-> request.policy,
          max_catch_up |-> request.max_catch_up]]
    /\ UNCHANGED <<now, executions, scans, requests>>

Create(t, request) ==
    /\ timers[t].status = "ABSENT"
    /\ timers' = [timers EXCEPT ![t] =
         [status       |-> "INACTIVE",
          next_fire_at |-> Null,
          policy       |-> IF request.policy = "" THEN "FIRE_ONCE" ELSE request.policy,
          max_catch_up |-> IF request.max_catch_up < 1 THEN DefaultMaxCatchUp
                           ELSE request.max_catch_up]]
    /\ UNCHANGED <<now, executions, scans, requests>>

\* GetByID does not find deleted timers.
Visible(t) == timers[t].status \in {"INACTIVE", "ACTIVE"}

ActivateRead(c, t) ==
    /\ requests[c] = Null
    /\ Visible(t) /\ <<timers[t].status, "ACTIVE">> \in timerTransitions
    /\ requests' = [requests EXCEPT ![c] =
         [op |-> "activate", timer |-> t, next |-> NextTriggerTime(t, now)]]
    /\ UNCHANGED <<now, timers, executions, scans>>

DeactivateRead(c, t) ==
    /\ requests[c] = Null
    /\ Visible(t) /\ <<timers[t].status, "INACTIVE">> \in timerTransitions
    /\ requests' = [requests EXCEPT ![c] =
         [op |-> "deactivate", timer |-> t, next |-> Null]]
    /\ UNCHANGED <<now, timers, executions, scans>>

\* Mutant: trusts the status the request has read.
ScheduleStateUnchecked(t, from, to, next) ==
    [timers EXCEPT ![t].status = to, ![t].next_fire_at = next]

\* Mutant: leaves next_fire_at alone when a timer is switched off.
ScheduleStateKeepsNext(t, from, to, next) ==
    IF timers[t].status = from
    THEN [timers EXCEPT ![t].status = to,
                        ![t].next_fire_at = IF next = Null THEN @ ELSE next]
    ELSE timers

\* UpdateScheduleState, conditional on the status; without effect the request
\* fails.
ScheduleState(t, from, to, next) ==
    IF timers[t].status = from
    THEN [timers EXCEPT ![t].status = to, ![t].next_fire_at = next]
    ELSE timers

UpdateScheduleState(c) ==
    /\ requests[c] # Null
    /\ timers' = IF requests[c].op = "activate"
                 THEN ScheduleState(requests[c].timer, "INACTIVE", "ACTIVE",
                                    requests[c].next)
                 ELSE ScheduleState(requests[c].timer, "ACTIVE", "INACTIVE", Null)
    /\ requests' = [requests EXCEPT ![c] = Null]
    /\ UNCHANGED <<now, executions, scans>>

\* The UPDATE fails, or the API process dies before it.
RequestError(c) ==
    /\ requests[c] # Null
    /\ requests' = [requests EXCEPT ![c] = Null]
    /\ UNCHANGED <<now, timers, executions, scans>>

Delete(t) ==
    /\ Visible(t)
    /\ timers' = [timers EXCEPT ![t].status = "DELETED", ![t].next_fire_at = Null]
    /\ UNCHANGED <<now, executions, scans, requests>>
-----------------------------------------------------------------------------
(* resolveTimer: the slots to fire at time at, and the new next_fire_at *)

Overdue(t, at) == at - timers[t].next_fire_at > Grace

\* The catch-up loop after n rounds: its cursor stops at the first slot that
\* is still to come.
CatchUpCursor(t, at) ==
    LET cursor[n \in 0..timers[t].max_catch_up] ==
          IF n = 0 THEN timers[t].next_fire_at
          ELSE IF cursor[n - 1] <= at THEN NextTriggerTime(t, cursor[n - 1])
          ELSE cursor[n - 1]
    IN  cursor

\* Mutant: gives up on what is left over the limit.
ResolveDropsRest(t, at) ==
    LET current == timers[t].next_fire_at
        cursor  == CatchUpCursor(t, at)
    IN  IF timers[t].policy = "CATCH_UP"
        THEN [slots |-> {cursor[n] : n \in 0..(timers[t].max_catch_up - 1)}
                          \cap 0..at,
              next  |-> NextTriggerTime(t, at)]
        ELSE [slots |-> {current}, next |-> NextTriggerTime(t, current)]

\* Mutant: counts the slot it starts from twice.
ResolveRoundShort(t, at) ==
    LET current == timers[t].next_fire_at
        cursor  == CatchUpCursor(t, at)
        limit   == timers[t].max_catch_up
    IN  IF timers[t].policy = "CATCH_UP"
        THEN [slots |-> {cursor[n] : n \in 0..(limit - 1)} \cap 0..at,
              next  |-> cursor[limit - 1]]
        ELSE [slots |-> {current}, next |-> NextTriggerTime(t, current)]

\* Create has filled in the policy and the limit, so the defaults resolveTimer
\* has for them never apply.
Resolve(t, at) ==
    LET current == timers[t].next_fire_at
        cursor  == CatchUpCursor(t, at)
        limit   == timers[t].max_catch_up
    IN  CASE timers[t].policy = "CATCH_UP" ->
               [slots |-> {cursor[n] : n \in 0..(limit - 1)} \cap 0..at,
                next  |-> cursor[limit]]
          [] timers[t].policy # "CATCH_UP" /\ ~Overdue(t, at) ->
               [slots |-> {current}, next |-> NextTriggerTime(t, current)]
          [] timers[t].policy = "SKIP" /\ Overdue(t, at) ->
               [slots |-> {}, next |-> NextTriggerTime(t, at)]
          [] timers[t].policy = "FIRE_ONCE" /\ Overdue(t, at) ->
               [slots |-> {current}, next |-> NextTriggerTime(t, at)]
-----------------------------------------------------------------------------
(* ScheduleDueBatch *)

ScanStart(r) ==
    /\ scans[r] = Null
    /\ scans' = [scans EXCEPT ![r] = now]
    /\ UNCHANGED <<now, timers, executions, requests>>

\* Mutant: not at the very second.
DueLate(t, at) ==
    timers[t].status = "ACTIVE" /\ timers[t].next_fire_at # Null
    /\ timers[t].next_fire_at < at

Due(t, at) ==
    timers[t].status = "ACTIVE" /\ timers[t].next_fire_at # Null
    /\ timers[t].next_fire_at <= at

Precedes(t, u) ==
    \/ timers[t].next_fire_at < timers[u].next_fire_at
    \/ timers[t].next_fire_at = timers[u].next_fire_at /\ t < u

\* ORDER BY next_fire_at, id LIMIT, over the rows no other transaction locks.
Batch(candidates) ==
    {t \in candidates :
        Cardinality({u \in candidates : Precedes(u, t)}) < BatchSize}

\* INSERT ... ON CONFLICT DO NOTHING; a new row comes with its ready event.
Inserted(t, s) == IF executions[t][s] = 0 THEN 1 ELSE executions[t][s]

ScheduleDueBatch(r, locked) ==
    LET at    == scans[r]
        batch == Batch({t \in Timers \ locked : Due(t, at)})
    IN  /\ at # Null
        /\ executions' = [t \in Timers |-> [s \in 0..MaxTime |->
                            IF t \in batch /\ s \in Resolve(t, at).slots
                            THEN Inserted(t, s) ELSE executions[t][s]]]
        /\ timers' = [t \in Timers |->
                        IF t \in batch
                        THEN [timers[t] EXCEPT !.next_fire_at = Resolve(t, at).next]
                        ELSE timers[t]]
        /\ scans' = [scans EXCEPT ![r] = Null]
        /\ UNCHANGED <<now, requests>>

\* Any error, of one timer of the batch too, rolls the whole batch back; so
\* does the end of the process.
ScheduleError(r) ==
    /\ scans[r] # Null
    /\ scans' = [scans EXCEPT ![r] = Null]
    /\ UNCHANGED <<now, timers, executions, requests>>
-----------------------------------------------------------------------------
ApiStep ==
    \/ \E t \in Timers, request \in Requests : Create(t, request)
    \/ \E c \in Clients, t \in Timers : ActivateRead(c, t) \/ DeactivateRead(c, t)
    \/ \E c \in Clients : UpdateScheduleState(c) \/ RequestError(c)
    \/ \E t \in Timers : Delete(t)

ScheduleStep(r) ==
    (\E locked \in SUBSET Timers : ScheduleDueBatch(r, locked)) \/ ScheduleError(r)

Next == Tick \/ ApiStep \/ \E r \in Schedulers : ScanStart(r) \/ ScheduleStep(r)

Spec == Init /\ [][Next]_vars

\* Replicas keep polling, and their transactions do not all fail, or find the
\* due timers locked, for ever.
Fairness ==
    /\ WF_vars(Tick)
    /\ \A r \in Schedulers : WF_vars(ScanStart(r)) /\ WF_vars(ScheduleStep(r))
    /\ SF_vars(\E r \in Schedulers : ScheduleDueBatch(r, {}))

FairSpec == Spec /\ Fairness
-----------------------------------------------------------------------------
(* Properties *)

Slots(t) == {s \in 1..MaxTime : NextTriggerTime(t, s - 1) = s}

\* An active timer has a next slot, and no other has one.  The scheduler's
\* WHERE clause passes over an active timer without one for ever.
ActiveHasNext ==
    \A t \in Timers : timers[t].status = "ACTIVE" <=> timers[t].next_fire_at # Null

\* A timer that has a slot before it which has fired already.
FiredAhead(t) ==
    /\ timers[t].next_fire_at # Null
    /\ \E s \in 0..MaxTime : s >= timers[t].next_fire_at /\ executions[t][s] > 0

\* Replicas with clocks read long ago, limits and policies never take a timer
\* back to a slot that has fired.  One step alone does, and leaves it to the
\* unique key to keep the slot from a second execution: an Activate whose UPDATE
\* comes so late that the slot it computed is due.
FiredSlotsStayBehind ==
    [][\A t \in Timers : ~FiredAhead(t) /\ FiredAhead(t)' =>
         /\ timers[t].status = "INACTIVE" /\ timers'[t].status = "ACTIVE"
         /\ timers'[t].next_fire_at <= now]_vars

\* Only an active timer fires: only slots of its schedule, none before its
\* next_fire_at, none ahead of time; a deleted timer stays as it is.
OnlyDueSlotsFire ==
    [][\A t \in Timers :
         /\ \A s \in 0..MaxTime : executions'[t][s] # executions[t][s] =>
              /\ timers[t].status = "ACTIVE"
              /\ s \in Slots(t) /\ timers[t].next_fire_at <= s /\ s <= now
         /\ timers[t].status = "DELETED" => timers'[t] = timers[t]]_vars

\* What passing over the slots from..(to - 1) of t means for each policy.
Accounted(t, from, to) ==
    LET missed == {s \in Slots(t) \cap from..(to - 1) : executions'[t][s] = 0}
    IN  /\ from < to
        /\ \A s \in missed : s <= now
        /\ CASE timers[t].policy = "CATCH_UP"  -> missed = {}
             [] timers[t].policy = "FIRE_ONCE" -> from \notin missed
             [] timers[t].policy = "SKIP"      -> TRUE
        /\ missed # {} => now - from > Grace

\* When a timer moves on, every slot it leaves behind has fired, or was given
\* up the way its policy says: nothing under CATCH_UP, under FIRE_ONCE what
\* the first missed slot stands for, and in any case only once the timer was
\* late by more than the grace period, and never a slot still to come.
NoSlotIsForgotten ==
    [][\A t \in Timers :
         LET from == timers[t].next_fire_at to == timers'[t].next_fire_at IN
         timers[t].status = "ACTIVE" /\ timers'[t].status = "ACTIVE" /\ to # from
         => Accounted(t, from, to)]_vars

\* Every slot that comes due is dealt with, unless its timer is switched off:
\* neither locks, failures nor the batch limit hold one up for ever.
DueSlotsAreHandled ==
    \A t \in Timers : \A s \in Slots(t) :
        (timers[t].status = "ACTIVE" /\ timers[t].next_fire_at = s /\ s <= now)
        ~> (timers[t].status # "ACTIVE" \/ timers[t].next_fire_at # s)
=============================================================================
