------------------------------- MODULE Worker -------------------------------
(***************************************************************************)
(* Stream workers and reconcilers at work on the rows of timer_executions. *)
(*                                                                         *)
(* A handler is one goroutine of a worker's pool running                   *)
(* StreamWorker.process for one Stream message; its heartbeat goroutine is *)
(* part of it.  A reconciler runs RecoverBatch, one of them also Cleanup.  *)
(* They share nothing but the database, and between two statements of one  *)
(* of them any number of statements of the others may run.  Each step      *)
(* below is one SQL statement or transaction, or the code between two.     *)
(*                                                                         *)
(* Every timestamp the code samples before a statement is kept in the      *)
(* process (at, beat, scans) and used later, so a process may stall        *)
(* between reading the clock and using it for as long as the clock allows. *)
(* A statement that lands after its caller gave up on it is a handler that *)
(* stalls and then loses the answer (ClaimError, CompleteError).           *)
(*                                                                         *)
(* Delivery is at least once: a handler may receive a message for any      *)
(* execution at any time, several handlers the same one.                   *)
(***************************************************************************)
EXTENDS TimerExecution, FiniteSets

CONSTANTS
    Executions,          \* ids of timer_executions, ordered as the numbers they are
    ScheduledAt,         \* scheduled_at of each execution
    Handlers,            \* goroutines of all worker pools
    Owner,               \* the worker (consumer id) a handler belongs to
    Reconcilers,
    BatchSize,           \* recovery.batch_size
    OutboxRetention,     \* recovery.outbox_retention_days
    ExecutionRetention,  \* recovery.execution_retention_days
    MaxTime              \* bound: the clock stops here

ASSUME WorkerConstants ==
    /\ Executions \subseteq Nat \ {0}
    /\ ScheduledAt \in [Executions -> Time]
    /\ Owner \in [Handlers -> Workers]
    /\ BatchSize \in Nat \ {0}
    /\ OutboxRetention \in Nat \ {0}
    /\ ExecutionRetention \in Nat \ {0}
    /\ MaxTime \in Nat

VARIABLES
    now,     \* the clock
    rows,    \* timer_executions
    outbox,  \* outbox_events: identity and availability only
    jobs,    \* what each handler is doing
    scans    \* per reconciler, the time its running scan started at, or Null

vars == <<now, rows, outbox, jobs, scans>>
-----------------------------------------------------------------------------
\* How a callback ended: 2xx; no answer, a refused URL, 408, 425, 429 or 5xx;
\* any other code, a 2xx whose body cannot be read or is too long
\* (isRetryableCallbackFailure), or a snapshot that does not decode.
Outcomes == {"ok", "retryable", "fatal"}

Steps == {"idle", "claim", "read", "callback", "returned", "finish", "ack"}

Job == [pc        : Steps,
        execution : Executions \cup {Null},
        token     : RunTokens \cup {Null},   \* runToken
        at        : Time \cup {Null},        \* startedAt, then finishedAt
        claimed   : BOOLEAN,
        attempt   : Nat,                     \* execution.Attempt as read by Claim
        outcome   : Outcomes \cup {Null},
        beat      : Time \cup {Null},        \* clock of a heartbeat on its way
        leaseLost : BOOLEAN]

IdleJob == [pc |-> "idle", execution |-> Null, token |-> Null, at |-> Null,
            claimed |-> FALSE, attempt |-> 0, outcome |-> Null, beat |-> Null,
            leaseLost |-> FALSE]

\* A row of outbox_events; kind, execution and seq make up event_id.
Event == [kind         : {"ready", "retry", "recovery"},
          execution    : Executions,
          seq          : Nat,
          available_at : Time]

ReadyEvent(e, t)          == [kind |-> "ready", execution |-> e, seq |-> 0,
                              available_at |-> t]
RetryEvent(e, attempt, t) == [kind |-> "retry", execution |-> e,
                              seq |-> attempt, available_at |-> t]
RecoveryEvent(e, t)       == [kind |-> "recovery", execution |-> e, seq |-> t,
                              available_at |-> t]

SameId(a, b) ==
    a.kind = b.kind /\ a.execution = b.execution /\ a.seq = b.seq

\* The insert hits the unique key on event_id.
Collides(event) == \E other \in outbox : SameId(event, other)

TypeOK ==
    /\ now \in Time
    /\ rows \in [Executions -> Row]
    /\ outbox \subseteq Event
    /\ jobs \in [Handlers -> Job]
    /\ scans \in [Reconcilers -> Time \cup {Null}]

\* The scheduler has just committed the executions and their ready events.
\* Its clock may be ahead of the workers': scheduled_at can lie in the future.
Init ==
    /\ now = 0
    /\ rows = [e \in Executions |-> PendingRow(ScheduledAt[e], ScheduledAt[e])]
    /\ outbox = {ReadyEvent(e, ScheduledAt[e]) : e \in Executions}
    /\ jobs = [h \in Handlers |-> IdleJob]
    /\ scans = [r \in Reconcilers |-> Null]

Tick ==
    /\ now < MaxTime
    /\ now' = now + 1
    /\ UNCHANGED <<rows, outbox, jobs, scans>>
-----------------------------------------------------------------------------
(* process: the message, and Claim's UPDATE and SELECT *)

SetJob(h, job) == jobs' = [jobs EXCEPT ![h] = job]

\* Mutant: a token that is the same for every run.
FreshOrNot(token) == token \in RunTokens

\* 16 random bytes: a token no row and no handler holds.
Fresh(token) ==
    /\ \A e \in Executions : rows[e].run_token # token
    /\ \A h \in Handlers : jobs[h].token # token

Receive(h, e, token) ==
    /\ jobs[h].pc = "idle"
    /\ Fresh(token)
    /\ SetJob(h, [IdleJob EXCEPT !.pc = "claim", !.execution = e,
                                 !.token = token, !.at = now])
    /\ UNCHANGED <<now, rows, outbox, scans>>

\* A message without a usable execution_id is acknowledged and dropped.
ReceiveMalformed(h) ==
    /\ jobs[h].pc = "idle"
    /\ SetJob(h, [jobs[h] EXCEPT !.pc = "ack"])
    /\ UNCHANGED <<now, rows, outbox, scans>>

ClaimHits(h) == Claimable(rows[jobs[h].execution], jobs[h].at)

ClaimEffect(h) ==
    rows' = IF ClaimHits(h)
            THEN [rows EXCEPT ![jobs[h].execution] =
                    ClaimedRow(@, Owner[h], jobs[h].token, jobs[h].at)]
            ELSE rows

ClaimUpdate(h) ==
    /\ jobs[h].pc = "claim"
    /\ ClaimEffect(h)
    /\ SetJob(h, [jobs[h] EXCEPT !.pc = "read", !.claimed = ClaimHits(h)])
    /\ UNCHANGED <<now, outbox, scans>>

\* The UPDATE fails, or its answer is lost after it took effect: either way
\* the handler gives up and leaves the message pending.
ClaimError(h) ==
    /\ jobs[h].pc = "claim"
    /\ ClaimEffect(h) \/ UNCHANGED rows
    /\ SetJob(h, IdleJob)
    /\ UNCHANGED <<now, outbox, scans>>

\* Mutant: acknowledges whatever is not running.
SettledUnlessRunning(row) == row.status # "RUNNING"

\* A message that found nothing to claim is done with only if the row needs no
\* further message of this attempt.
Settled(row) == IsTerminal(row) \/ row.status = "RETRY_WAIT"

\* Claim's SELECT sees the row as it is by now, another run's row included.
ClaimRead(h) ==
    LET row == rows[jobs[h].execution] IN
    /\ jobs[h].pc = "read"
    /\ \/ /\ \/ row.status = "ABSENT"
             \/ ~jobs[h].claimed /\ Settled(row)
          /\ SetJob(h, [jobs[h] EXCEPT !.pc = "ack"])
       \/ /\ ~jobs[h].claimed
          /\ row.status # "ABSENT" /\ ~Settled(row)
          /\ SetJob(h, IdleJob)
       \/ /\ jobs[h].claimed
          /\ row.status # "ABSENT"
          /\ \/ SetJob(h, [jobs[h] EXCEPT !.pc = "callback", !.attempt = row.attempt])
             \* or the snapshot does not decode
             \/ SetJob(h, [jobs[h] EXCEPT !.pc = "finish", !.attempt = row.attempt,
                                          !.outcome = "fatal", !.at = now])
    /\ UNCHANGED <<now, rows, outbox, scans>>

ReadError(h) ==
    /\ jobs[h].pc = "read"
    /\ SetJob(h, IdleJob)
    /\ UNCHANGED <<now, rows, outbox, scans>>
-----------------------------------------------------------------------------
(* The callback and the heartbeat goroutine beside it *)

CallbackReturn(h, outcome) ==
    /\ jobs[h].pc = "callback"
    /\ SetJob(h, [jobs[h] EXCEPT !.pc = "returned", !.outcome = outcome])
    /\ UNCHANGED <<now, rows, outbox, scans>>

\* The ticker may win against the closed done channel, so a heartbeat may
\* still start after the callback has returned.
HeartbeatTick(h) ==
    /\ jobs[h].pc \in {"callback", "returned"}
    /\ jobs[h].beat = Null
    /\ ~jobs[h].leaseLost
    /\ SetJob(h, [jobs[h] EXCEPT !.beat = now])
    /\ UNCHANGED <<now, rows, outbox, scans>>

Holds(h) == HeldBy(rows[jobs[h].execution], Owner[h], jobs[h].token)

HeartbeatEffect(h) ==
    rows' = IF Holds(h)
            THEN [rows EXCEPT ![jobs[h].execution] =
                    RenewedRow(@, jobs[h].beat + LeaseTTL)]
            ELSE rows

Heartbeat(h) ==
    /\ jobs[h].beat # Null
    /\ HeartbeatEffect(h)
    /\ SetJob(h, [jobs[h] EXCEPT !.beat = Null, !.leaseLost = ~Holds(h)])
    /\ UNCHANGED <<now, outbox, scans>>

\* A database error counts as a lost lease, whether or not it took effect.
HeartbeatError(h) ==
    /\ jobs[h].beat # Null
    /\ HeartbeatEffect(h) \/ UNCHANGED rows
    /\ SetJob(h, [jobs[h] EXCEPT !.beat = Null, !.leaseLost = TRUE])
    /\ UNCHANGED <<now, outbox, scans>>

\* heartbeatWG.Wait() and the check of leaseLost.
Join(h) ==
    /\ jobs[h].pc = "returned"
    /\ jobs[h].beat = Null
    /\ SetJob(h, IF jobs[h].leaseLost
                 THEN IdleJob
                 ELSE [jobs[h] EXCEPT !.pc = "finish", !.at = now])
    /\ UNCHANGED <<now, rows, outbox, scans>>
-----------------------------------------------------------------------------
(* CompleteSuccess, and CompleteFailure with its retry event *)

Retries(h) == RetryScheduled(jobs[h].outcome = "retryable", jobs[h].attempt)

RetryAt(h) == jobs[h].at + RetryBackoff(jobs[h].attempt)

CompletedRow(h) ==
    LET row == rows[jobs[h].execution] IN
    IF jobs[h].outcome = "ok" THEN SucceededRow(row, jobs[h].at)
    ELSE IF Retries(h) THEN RetryWaitRow(row, jobs[h].at, RetryAt(h))
    ELSE FailedRow(row, jobs[h].at)

\* Mutant: relies on the reconciler to announce the retry.
RetryEventsNone(h) == {}

RetryEvents(h) ==
    IF Retries(h)
    THEN {RetryEvent(jobs[h].execution, jobs[h].attempt, RetryAt(h))}
    ELSE {}

\* Row and event are written in one transaction; a duplicate event_id would
\* roll both back.
Completes(h) == Holds(h) /\ \A event \in RetryEvents(h) : ~Collides(event)

CompleteEffect(h) ==
    /\ rows' = IF Completes(h)
               THEN [rows EXCEPT ![jobs[h].execution] = CompletedRow(h)]
               ELSE rows
    /\ outbox' = IF Completes(h) THEN outbox \cup RetryEvents(h) ELSE outbox

Complete(h) ==
    /\ jobs[h].pc = "finish"
    /\ CompleteEffect(h)
    /\ SetJob(h, IF Completes(h) THEN [jobs[h] EXCEPT !.pc = "ack"] ELSE IdleJob)
    /\ UNCHANGED <<now, scans>>

CompleteError(h) ==
    /\ jobs[h].pc = "finish"
    /\ CompleteEffect(h) \/ UNCHANGED <<rows, outbox>>
    /\ SetJob(h, IdleJob)
    /\ UNCHANGED <<now, scans>>

\* An XACK that fails is logged and leaves the handler no different.
Ack(h) ==
    /\ jobs[h].pc = "ack"
    /\ SetJob(h, IdleJob)
    /\ UNCHANGED <<now, rows, outbox, scans>>

\* A worker process dies and is started again under the same consumer id.
Crash(w) ==
    /\ \E h \in Handlers : Owner[h] = w /\ jobs[h] # IdleJob
    /\ jobs' = [h \in Handlers |-> IF Owner[h] = w THEN IdleJob ELSE jobs[h]]
    /\ UNCHANGED <<now, rows, outbox, scans>>
-----------------------------------------------------------------------------
(* The reconciler *)

ScanStart(r) ==
    /\ scans[r] = Null
    /\ scans' = [scans EXCEPT ![r] = now]
    /\ UNCHANGED <<now, rows, outbox, jobs>>

Precedes(e, f) ==
    \/ rows[e].scheduled_at < rows[f].scheduled_at
    \/ rows[e].scheduled_at = rows[f].scheduled_at /\ e < f

\* The first BatchSize rows of those the WHERE clause selects and no other
\* transaction has locked (ORDER BY ... LIMIT ... SKIP LOCKED).
Batch(candidates) ==
    {e \in candidates :
        Cardinality({f \in candidates : Precedes(f, e)}) < BatchSize}

\* Mutant: announces stale rows, but not the runs it has just ended.
RecoveryEventsOfStale(batch, t) ==
    {RecoveryEvent(e, t) : e \in {f \in batch : rows[f].status # "RUNNING"}}

RecoveryEvents(batch, t) ==
    {RecoveryEvent(e, t) : e \in {f \in batch : ~Exhausted(rows[f])}}

\* One transaction: all rows of the batch, or none if an insert fails.
RecoverBatch(r, locked) ==
    LET t     == scans[r]
        batch == Batch({e \in Executions \ locked : Recoverable(rows[e], t)})
    IN  /\ t # Null
        /\ \A event \in RecoveryEvents(batch, t) : ~Collides(event)
        /\ rows' = [e \in Executions |->
                      IF e \in batch THEN RecoveredRow(rows[e], t) ELSE rows[e]]
        /\ outbox' = outbox \cup RecoveryEvents(batch, t)
        /\ scans' = [scans EXCEPT ![r] = Null]
        /\ UNCHANGED <<now, jobs>>

\* The transaction rolls back, or the reconciler process restarts.
RecoverError(r) ==
    /\ scans[r] # Null
    /\ scans' = [scans EXCEPT ![r] = Null]
    /\ UNCHANGED <<now, rows, outbox, jobs>>

\* Cleanup deletes old published events, then old terminal rows without any
\* event left, at most a batch of each.  When an event was published is the
\* dispatcher's business (not before it was available, and perhaps not yet)
\* and the cutoffs were computed at some earlier time: hence any such batch.
Cleanup(events, ids) ==
    /\ Cardinality(events) <= BatchSize /\ Cardinality(ids) <= BatchSize
    /\ \A event \in events : event.available_at < now - OutboxRetention
    /\ outbox' = outbox \ events
    /\ \A e \in ids : /\ IsTerminal(rows[e])
                      /\ Before(rows[e].finished_at, now - ExecutionRetention)
                      /\ \A event \in outbox' : event.execution # e
    /\ events # {} \/ ids # {}
    /\ rows' = [e \in Executions |-> IF e \in ids THEN AbsentRow ELSE rows[e]]
    /\ UNCHANGED <<now, jobs, scans>>
-----------------------------------------------------------------------------
HandlerStep(h) ==
    \/ \E e \in Executions, token \in RunTokens : Receive(h, e, token)
    \/ ReceiveMalformed(h)
    \/ ClaimUpdate(h)
    \/ ClaimError(h)
    \/ ClaimRead(h)
    \/ ReadError(h)
    \/ \E outcome \in Outcomes : CallbackReturn(h, outcome)
    \/ HeartbeatTick(h)
    \/ Heartbeat(h)
    \/ HeartbeatError(h)
    \/ Join(h)
    \/ Complete(h)
    \/ CompleteError(h)
    \/ Ack(h)

ReconcilerStep(r) ==
    \/ ScanStart(r)
    \/ \E locked \in SUBSET Executions : RecoverBatch(r, locked)
    \/ RecoverError(r)

CleanupStep ==
    \E events \in SUBSET outbox, ids \in SUBSET Executions : Cleanup(events, ids)

Next ==
    \/ Tick
    \/ \E h \in Handlers : HandlerStep(h)
    \/ \E w \in Workers : Crash(w)
    \/ \E r \in Reconcilers : ReconcilerStep(r)
    \/ CleanupStep

Spec == Init /\ [][Next]_vars
-----------------------------------------------------------------------------
(* Invariants *)

\* A row carries an owner, a lease and a token exactly while it is RUNNING, a
\* waiting row says when it may run again, a terminal row when it ended.  The
\* WHERE clauses of Claim, RecoverBatch and Cleanup skip rows for which this
\* fails, so such a row would never be run, recovered or deleted again.
ColumnsFollowStatus ==
    \A e \in Executions :
        LET row == rows[e] IN
        /\ IF row.status = "RUNNING"
           THEN Null \notin {row.lease_owner, row.lease_until, row.run_token}
           ELSE {row.lease_owner, row.lease_until, row.run_token} = {Null}
        /\ row.status = "RETRY_WAIT" => row.next_attempt_at # Null
        /\ IsTerminal(row) => row.finished_at # Null

\* Fencing.  If a row carries the token of a handler, the row is the run this
\* handler started: it is the handler's own execution, leased to its worker,
\* in the very attempt the handler read, although UPDATE and SELECT of Claim
\* are two statements and handlers of one worker share the lease owner.
RunTokenFences ==
    \A h \in Handlers, e \in Executions :
        jobs[h].token # Null /\ rows[e].run_token = jobs[h].token =>
            /\ jobs[h].execution = e
            /\ rows[e].lease_owner = Owner[h]
            /\ jobs[h].pc \in {"callback", "returned", "finish"} =>
                 jobs[h].attempt = rows[e].attempt

\* No two handlers can persist a result for the same execution: of all the
\* handlers that are calling back or finishing for it, duplicates and stale
\* runs included, at most one still passes the WHERE clause of Complete*.
OneResultWins ==
    \A h, g \in Handlers :
        /\ jobs[h].execution # Null /\ jobs[h].execution = jobs[g].execution
        /\ Holds(h) /\ Holds(g)
        => h = g

\* The insert of execution-retry-<id>-<attempt> never meets the unique key:
\* when a handler that still owns the run schedules a retry, that attempt has
\* no retry event yet.  A duplicate would roll back the failure it records.
RetryEventIsNew ==
    \A h \in Handlers :
        jobs[h].pc = "finish" /\ jobs[h].outcome # "ok" /\ Holds(h) =>
            \A event \in RetryEvents(h) : ~Collides(event)

\* Transactional outbox.  A row waiting for its next attempt was announced:
\* an event available at last_enqueued_at is in the outbox, until Cleanup may
\* have deleted it after the retention.  Handlers acknowledge messages of such
\* rows relying on it.
RetryWaitIsAnnounced ==
    \A e \in Executions :
        /\ rows[e].status = "RETRY_WAIT"
        /\ rows[e].last_enqueued_at >= now - OutboxRetention
        => \E event \in outbox :
             /\ event.execution = e
             /\ event.available_at = rows[e].last_enqueued_at

\* A message is acknowledged only when its execution has run or is gone: the
\* first delivery of a PENDING row (a worker whose clock is behind the
\* scheduler's, a failed Claim) stays pending in the consumer group.
AckedHasRun ==
    \A h \in Handlers :
        jobs[h].pc = "ack" /\ jobs[h].execution # Null =>
            rows[jobs[h].execution].status # "PENDING"

\* What the comment on max_attempts and the state diagram say: a row never
\* takes more attempts than it has.
AttemptWithinMax ==
    \A e \in Executions : rows[e].attempt <= MaxAttempts
-----------------------------------------------------------------------------
(* Action properties *)

\* How a run may end.  Either the handler that started it settles it, with
\* the status its callback's outcome and the row's own attempt call for, or
\* its lease has run out by the clock, and it is taken over, or recovered to
\* wait while attempts are left and to fail when not.
RunEnds(e) ==
    LET row == rows[e] new == rows'[e] IN
    \/ \E h \in Handlers :
         /\ jobs[h].token = row.run_token /\ jobs[h].pc = "finish"
         /\ jobs'[h].pc # "finish"
         /\ new.attempt = row.attempt
         /\ new.status = IF jobs[h].outcome = "ok" THEN "SUCCESS"
                         ELSE IF jobs[h].outcome = "retryable"
                                 /\ row.attempt < MaxAttempts
                         THEN "RETRY_WAIT" ELSE "FAILED"
    \/ /\ row.lease_until < now
       /\ \/ new.status = "RUNNING" /\ new.attempt = row.attempt + 1
          \/ new.status = "RETRY_WAIT" /\ row.attempt < MaxAttempts
          \/ new.status = "FAILED" /\ row.attempt >= MaxAttempts

RunsEndProperly ==
    [][\A e \in Executions :
         rows[e].status = "RUNNING" /\ rows'[e].run_token # rows[e].run_token
         => RunEnds(e)]_vars

ClaimsWhenDue(e) ==
    rows'[e].status = "RUNNING" /\ rows[e].next_attempt_at <= now

\* No retry before its time: a waiting row leaves RETRY_WAIT only by a claim,
\* at or after the backoff CompleteFailure computed, whatever messages of
\* earlier attempts are redelivered meanwhile.
BackoffIsKept ==
    [][\A e \in Executions :
         rows[e].status = "RETRY_WAIT" /\ rows'[e].status # "RETRY_WAIT"
         => ClaimsWhenDue(e)]_vars
-----------------------------------------------------------------------------
(* The status machine the rows go through *)

Lifecycle == INSTANCE ExecutionLifecycle
             WITH status  <- [e \in Executions |-> rows[e].status],
                  attempt <- [e \in Executions |-> rows[e].attempt]

\* Workers, reconcilers and cleanup implement ExecutionLifecycle.
LifecycleSpec == Lifecycle!Spec
=============================================================================
