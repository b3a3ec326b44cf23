---------------------------- MODULE WorkerProofs ----------------------------
(***************************************************************************)
(* Proofs about Worker, for any numbers of executions, handlers, workers   *)
(* and reconcilers, any lease, backoff and retention times and any bound   *)
(* of the clock.                                                           *)
(***************************************************************************)
EXTENDS Worker, TLAPS

\* What the steps of process leave in a handler's local variables.
JobShape ==
    \A h \in Handlers :
        /\ jobs[h].pc \in Steps \ {"idle", "ack"} =>
             /\ jobs[h].execution \in Executions
             /\ jobs[h].token \in RunTokens
             /\ jobs[h].at \in Time
        /\ jobs[h].beat # Null => jobs[h].pc \in {"callback", "returned"}
        /\ jobs[h].pc = "idle" => jobs[h] = IdleJob

TypeInv == TypeOK /\ JobShape
-----------------------------------------------------------------------------
(* Rows: what each statement writes is a row, with these values. *)

\* The backoff is a number of seconds whatever the attempt.
LEMMA BackoffType ==
    ASSUME NEW attempt PROVE RetryBackoff(attempt) \in Nat
BY RowConstants DEF RetryBackoff

\* A column keeps the row a row when its new value has the column's type.
LEMMA ColumnUpdate ==
    ASSUME NEW row \in Row
    PROVE  /\ \A v \in Status : [row EXCEPT !.status = v] \in Row
           /\ \A v \in Nat : [row EXCEPT !.attempt = v] \in Row
           /\ \A v \in Time \cup {Null} : [row EXCEPT !.next_attempt_at = v] \in Row
           /\ \A v \in Workers \cup {Null} : [row EXCEPT !.lease_owner = v] \in Row
           /\ \A v \in Time \cup {Null} : [row EXCEPT !.lease_until = v] \in Row
           /\ \A v \in RunTokens \cup {Null} : [row EXCEPT !.run_token = v] \in Row
           /\ \A v \in Time \cup {Null} : [row EXCEPT !.last_enqueued_at = v] \in Row
           /\ \A v \in Time \cup {Null} : [row EXCEPT !.finished_at = v] \in Row
BY DEF Row

\* Claim starts a run.
LEMMA ClaimedRowFacts ==
    ASSUME NEW row \in Row, NEW owner \in Workers, NEW token \in RunTokens,
           NEW t \in Time
    PROVE  LET new == ClaimedRow(row, owner, token, t) IN
           /\ new \in Row
           /\ new.status = "RUNNING"
           /\ new.attempt = row.attempt + 1
           /\ new.lease_owner = owner
           /\ new.lease_until = t + LeaseTTL
           /\ new.run_token = token
<1> DEFINE r1 == [row EXCEPT !.status = "RUNNING"]
           r2 == [r1 EXCEPT !.attempt = row.attempt + 1]
           r3 == [r2 EXCEPT !.lease_owner = owner]
           r4 == [r3 EXCEPT !.lease_until = t + LeaseTTL]
           r5 == [r4 EXCEPT !.run_token = token]
           r6 == [r5 EXCEPT !.finished_at = Null]
<1>0. row.attempt + 1 \in Nat /\ t + LeaseTTL \in Time
  BY RowConstants DEF Row, Time
<1>1. r1 \in Row /\ r1.status = "RUNNING"
  BY ColumnUpdate DEF Row, Status
<1>2. r2 \in Row /\ r2.status = "RUNNING" /\ r2.attempt = row.attempt + 1
  <2> HIDE DEF r1
  <2> QED BY <1>0, <1>1, ColumnUpdate DEF Row
<1>3. /\ r3 \in Row /\ r3.status = "RUNNING" /\ r3.attempt = row.attempt + 1
      /\ r3.lease_owner = owner
  <2> HIDE DEF r2
  <2> QED BY <1>2, ColumnUpdate DEF Row
<1>4. /\ r4 \in Row /\ r4.status = "RUNNING" /\ r4.attempt = row.attempt + 1
      /\ r4.lease_owner = owner /\ r4.lease_until = t + LeaseTTL
  <2> HIDE DEF r3
  <2> QED BY <1>0, <1>3, ColumnUpdate DEF Row
<1>5. /\ r5 \in Row /\ r5.status = "RUNNING" /\ r5.attempt = row.attempt + 1
      /\ r5.lease_owner = owner /\ r5.lease_until = t + LeaseTTL
      /\ r5.run_token = token
  <2> HIDE DEF r4
  <2> QED BY <1>4, ColumnUpdate DEF Row
<1>6. /\ r6 \in Row /\ r6.status = "RUNNING" /\ r6.attempt = row.attempt + 1
      /\ r6.lease_owner = owner /\ r6.lease_until = t + LeaseTTL
      /\ r6.run_token = token
  <2> HIDE DEF r5
  <2> QED BY <1>5, ColumnUpdate DEF Row
<1>7. ClaimedRow(row, owner, token, t) = r6
  BY Zenon DEF ClaimedRow
<1> QED
  <2> HIDE DEF r6
  <2> QED BY <1>6, <1>7

\* Heartbeat moves the end of the lease and nothing else.
LEMMA RenewedRowFacts ==
    ASSUME NEW row \in Row, NEW t \in Time
    PROVE  LET new == RenewedRow(row, t + LeaseTTL) IN
           /\ new \in Row
           /\ new.lease_until = t + LeaseTTL
           /\ new = [row EXCEPT !.lease_until = new.lease_until]
BY RowConstants, ColumnUpdate DEF RenewedRow, Row, Time

\* The end of a run clears owner, lease and token.
LEMMA ReleasedRowFacts ==
    ASSUME NEW row \in Row
    PROVE  LET new == ReleasedRow(row) IN
           /\ new \in Row
           /\ new.attempt = row.attempt
           /\ new.lease_owner = Null
           /\ new.lease_until = Null
           /\ new.run_token = Null
BY DEF ReleasedRow, Row

\* CompleteSuccess.
LEMMA SucceededRowFacts ==
    ASSUME NEW row \in Row, NEW t \in Time
    PROVE  LET new == SucceededRow(row, t) IN
           /\ new \in Row
           /\ new.status = "SUCCESS"
           /\ new.attempt = row.attempt
           /\ new.lease_owner = Null
           /\ new.lease_until = Null
           /\ new.run_token = Null
           /\ new.finished_at = t
BY ReleasedRowFacts DEF SucceededRow, Row, Status, Terminal

\* CompleteFailure without a retry.
LEMMA FailedRowFacts ==
    ASSUME NEW row \in Row, NEW t \in Time
    PROVE  LET new == FailedRow(row, t) IN
           /\ new \in Row
           /\ new.status = "FAILED"
           /\ new.attempt = row.attempt
           /\ new.lease_owner = Null
           /\ new.lease_until = Null
           /\ new.run_token = Null
           /\ new.finished_at = t
BY ReleasedRowFacts DEF FailedRow, Row, Status, Terminal

\* CompleteFailure with a retry.
LEMMA RetryWaitRowFacts ==
    ASSUME NEW row \in Row, NEW t \in Time, NEW retryAt \in Time
    PROVE  LET new == RetryWaitRow(row, t, retryAt) IN
           /\ new \in Row
           /\ new.status = "RETRY_WAIT"
           /\ new.attempt = row.attempt
           /\ new.lease_owner = Null
           /\ new.lease_until = Null
           /\ new.run_token = Null
           /\ new.next_attempt_at = retryAt
           /\ new.last_enqueued_at = retryAt
BY ReleasedRowFacts DEF RetryWaitRow, Row, Status

\* RecoverBatch fails a run out of attempts, makes any other run wait, and
\* marks the rest as announced again.
LEMMA RecoveredRowFacts ==
    ASSUME NEW row \in Row, NEW t \in Time
    PROVE  LET new == RecoveredRow(row, t) IN
           /\ new \in Row
           /\ new.attempt = row.attempt
           /\ row.status # "RUNNING" =>
                new = [row EXCEPT !.last_enqueued_at = t]
           /\ row.status = "RUNNING" =>
                /\ new.lease_owner = Null
                /\ new.lease_until = Null
                /\ new.run_token = Null
                /\ row.attempt >= MaxAttempts =>
                     new.status = "FAILED" /\ new.finished_at = t
                /\ row.attempt < MaxAttempts =>
                     /\ new.status = "RETRY_WAIT"
                     /\ new.next_attempt_at = t
                     /\ new.last_enqueued_at = t
<1>0. row.attempt \in Nat /\ MaxAttempts \in Nat
  BY RowConstants DEF Row
<1>1. CASE Exhausted(row)
  <2> DEFINE new == [ReleasedRow(row) EXCEPT !.status = "FAILED", !.finished_at = t]
  <2>1. RecoveredRow(row, t) = new
    BY <1>1 DEF RecoveredRow
  <2>2. /\ row.status = "RUNNING"
        /\ row.attempt >= MaxAttempts
        /\ ~(row.attempt < MaxAttempts)
    BY <1>0, <1>1 DEF Exhausted
  <2>3. new \in Row
    BY ReleasedRowFacts DEF Row, Status, Terminal
  <2>4. /\ new.attempt = row.attempt
        /\ new.lease_owner = Null
        /\ new.lease_until = Null
        /\ new.run_token = Null
        /\ new.status = "FAILED"
        /\ new.finished_at = t
    BY ReleasedRowFacts DEF Row
  <2> HIDE DEF new
  <2> QED BY <2>1, <2>2, <2>3, <2>4
<1>2. CASE row.status = "RUNNING" /\ ~Exhausted(row)
  BY <1>0, <1>2, ReleasedRowFacts DEF RecoveredRow, Exhausted, Row, Status
<1>3. CASE row.status # "RUNNING"
  BY <1>0, <1>3 DEF RecoveredRow, Exhausted, Row
<1> QED BY <1>1, <1>2, <1>3 DEF Exhausted

\* The rows the scheduler inserts, and the ids without a row.
LEMMA PlainRowFacts ==
    /\ \A s \in Time : \A t \in Time \cup {Null} : PendingRow(s, t) \in Row
    /\ AbsentRow \in Row
BY DEF PendingRow, AbsentRow, Row, Status, Terminal, Time
-----------------------------------------------------------------------------
(* Jobs: how a step may change what a handler is doing *)

InRun == {"callback", "returned", "finish"}

\* The handler takes a message up, with a token nobody else holds.
Receives(h) ==
    /\ jobs'[h].pc = "claim"
    /\ Fresh(jobs'[h].token)
    /\ jobs'[h].at = now
    /\ jobs'[h].beat = Null
    /\ \A g \in Handlers \ {h} : jobs'[g] = jobs[g]
    /\ rows' = rows

\* The handler goes on with the same execution and token.  The attempt it
\* works on is the one it read, when it enters the callback or the finish.
Advances(h) ==
    /\ jobs'[h].token = jobs[h].token
    /\ jobs'[h].execution = jobs[h].execution
    /\ jobs'[h].pc \notin {"idle", "claim"}
    /\ jobs'[h].pc \in InRun =>
         \/ jobs[h].pc \in InRun /\ jobs'[h].attempt = jobs[h].attempt
         \/ /\ jobs[h].pc = "read"
            /\ rows' = rows
            /\ jobs'[h].attempt = rows[jobs[h].execution].attempt
    /\ jobs'[h].at \in {jobs[h].at, now}
    /\ jobs'[h].beat \in {jobs[h].beat, now, Null}

JobMoves(h) ==
    \/ jobs'[h] = jobs[h]
    \/ jobs'[h] = IdleJob
    \/ Receives(h)
    \/ Advances(h)

\* A step of one handler changes that handler's job only.
LEMMA OneJobMoves ==
    ASSUME TypeInv, NEW h \in Handlers, NEW job \in Job, SetJob(h, job),
           job.pc \in Steps \ {"idle", "ack"} =>
             job.execution \in Executions /\ job.token \in RunTokens /\ job.at \in Time,
           job.beat # Null => job.pc \in {"callback", "returned"},
           job.pc = "idle" => job = IdleJob
    PROVE  /\ jobs' \in [Handlers -> Job]
           /\ JobShape'
           /\ jobs'[h] = job
           /\ \A g \in Handlers \ {h} : jobs'[g] = jobs[g]
BY DEF SetJob, TypeInv, TypeOK, JobShape

\* The job a handler goes back to.
LEMMA IdleJobFacts ==
    /\ IdleJob \in Job
    /\ IdleJob.pc = "idle" /\ IdleJob.execution = Null /\ IdleJob.token = Null
    /\ IdleJob.at = Null /\ IdleJob.beat = Null
BY DEF IdleJob, Job, Steps

\* Giving up, whatever the reason, moves a handler to the idle job.
LEMMA GivingUp ==
    ASSUME TypeInv, NEW h \in Handlers, SetJob(h, IdleJob)
    PROVE  /\ jobs' \in [Handlers -> Job] /\ JobShape'
           /\ \A g \in Handlers : JobMoves(g)
BY OneJobMoves, IdleJobFacts DEF JobMoves

\* A step that leaves the rows alone or not, of one handler that advances.
LEMMA Advancing ==
    ASSUME TypeInv, NEW h \in Handlers, NEW job \in Job, SetJob(h, job),
           job.token = jobs[h].token, job.execution = jobs[h].execution,
           jobs[h].pc # "idle" \/ job.pc = "ack",
           job.pc \notin {"idle", "claim"},
           job.pc # "ack" => jobs[h].pc \notin {"idle", "ack"},
           job.pc \in InRun =>
             \/ jobs[h].pc \in InRun /\ job.attempt = jobs[h].attempt
             \/ /\ jobs[h].pc = "read" /\ rows' = rows
                /\ job.attempt = rows[jobs[h].execution].attempt,
           job.at \in {jobs[h].at, now},
           job.beat \in {jobs[h].beat, now, Null},
           job.beat # Null => job.pc \in {"callback", "returned"}
    PROVE  /\ jobs' \in [Handlers -> Job] /\ JobShape'
           /\ \A g \in Handlers : JobMoves(g)
<1>1. job.pc \in Steps \ {"idle", "ack"} =>
        job.execution \in Executions /\ job.token \in RunTokens /\ job.at \in Time
  BY DEF TypeInv, TypeOK, JobShape, Job
<1>2. /\ jobs' \in [Handlers -> Job] /\ JobShape'
      /\ jobs'[h] = job /\ \A g \in Handlers \ {h} : jobs'[g] = jobs[g]
  BY <1>1, OneJobMoves
<1>3. Advances(h)
  BY <1>2 DEF Advances
<1> QED BY <1>2, <1>3 DEF JobMoves

\* Every step of a handler keeps the jobs well formed and moves each of them
\* in one of the ways of JobMoves.
LEMMA HandlerMoves ==
    ASSUME TypeInv, NEW h \in Handlers, HandlerStep(h)
    PROVE  /\ jobs' \in [Handlers -> Job] /\ JobShape'
           /\ \A g \in Handlers : JobMoves(g)
<1> DEFINE job  == jobs[h]
           Goal == /\ jobs' \in [Handlers -> Job] /\ JobShape'
                   /\ \A g \in Handlers : JobMoves(g)
<1>0. job \in Job /\ now \in Time
  BY DEF TypeInv, TypeOK
<1>1. ASSUME NEW e \in Executions, NEW token \in RunTokens, Receive(h, e, token)
      PROVE  Goal
  <2> DEFINE new == [IdleJob EXCEPT !.pc = "claim", !.execution = e,
                                    !.token = token, !.at = now]
  <2>1. /\ new \in Job /\ new.pc = "claim" /\ new.execution = e
        /\ new.token = token /\ new.at = now /\ new.beat = Null
    BY <1>0 DEF IdleJob, Job, Steps
  <2>2. SetJob(h, new) /\ Fresh(token) /\ rows' = rows
    BY <1>1 DEF Receive
  <2> HIDE DEF new
  <2>3. /\ jobs' \in [Handlers -> Job] /\ JobShape'
        /\ jobs'[h] = new /\ \A g \in Handlers \ {h} : jobs'[g] = jobs[g]
    BY <1>0, <2>1, <2>2, OneJobMoves
  <2>4. Receives(h)
    BY <2>1, <2>2, <2>3 DEF Receives
  <2> QED BY <2>3, <2>4 DEF JobMoves
<1>2. CASE ReceiveMalformed(h)
  <2> DEFINE new == [job EXCEPT !.pc = "ack"]
  <2>1. /\ new \in Job /\ new.pc = "ack" /\ new.execution = job.execution
        /\ new.token = job.token /\ new.at = job.at /\ new.beat = job.beat
    BY <1>0 DEF Job, Steps
  <2>2. SetJob(h, new) /\ job.beat = Null
    BY <1>2 DEF ReceiveMalformed, TypeInv, JobShape
  <2> HIDE DEF new
  <2> QED BY <2>1, <2>2, Advancing DEF InRun
<1>3. CASE ClaimUpdate(h)
  <2> DEFINE new == [job EXCEPT !.pc = "read", !.claimed = ClaimHits(h)]
  <2>0. ClaimHits(h) \in BOOLEAN
    BY DEF ClaimHits, Claimable, NotAfter, Before
  <2>1. /\ new \in Job /\ new.pc = "read" /\ new.execution = job.execution
        /\ new.token = job.token /\ new.at = job.at /\ new.beat = job.beat
    <3> DEFINE c == ClaimHits(h)
    <3> HIDE DEF c
    <3> QED BY <1>0, <2>0 DEF Job, Steps, c
  <2>2. SetJob(h, new) /\ job.pc = "claim" /\ job.beat = Null
    BY <1>3 DEF ClaimUpdate, TypeInv, JobShape
  <2> HIDE DEF new
  <2> QED BY <2>1, <2>2, Advancing DEF InRun
<1>4. CASE ClaimError(h)
  BY <1>4, GivingUp DEF ClaimError
<1>5. CASE ClaimRead(h)
  <2> DEFINE row == rows[job.execution]
  <2>0. job.pc = "read" /\ job.beat = Null /\ row.attempt \in Nat /\ rows' = rows
    BY <1>5 DEF ClaimRead, TypeInv, TypeOK, JobShape, Row, Steps
  <2>1. CASE SetJob(h, [job EXCEPT !.pc = "ack"])
    <3> DEFINE new == [job EXCEPT !.pc = "ack"]
    <3>1. /\ new \in Job /\ new.pc = "ack" /\ new.execution = job.execution
          /\ new.token = job.token /\ new.at = job.at /\ new.beat = job.beat
      BY <1>0 DEF Job, Steps
    <3> HIDE DEF new
    <3> QED BY <2>0, <2>1, <3>1, Advancing DEF InRun, new
  <2>2. CASE SetJob(h, IdleJob)
    BY <2>2, GivingUp
  <2>3. CASE SetJob(h, [job EXCEPT !.pc = "callback", !.attempt = row.attempt])
    <3> DEFINE new == [job EXCEPT !.pc = "callback", !.attempt = row.attempt]
    <3>1. /\ new \in Job /\ new.pc = "callback" /\ new.execution = job.execution
          /\ new.token = job.token /\ new.at = job.at /\ new.beat = job.beat
          /\ new.attempt = row.attempt
      BY <1>0, <2>0 DEF Job, Steps
    <3> HIDE DEF new
    <3> QED BY <2>0, <2>3, <3>1, Advancing DEF InRun, new
  <2>4. CASE SetJob(h, [job EXCEPT !.pc = "finish", !.attempt = row.attempt,
                                   !.outcome = "fatal", !.at = now])
    <3> DEFINE new == [job EXCEPT !.pc = "finish", !.attempt = row.attempt,
                                  !.outcome = "fatal", !.at = now]
    <3>1. /\ new \in Job /\ new.pc = "finish" /\ new.execution = job.execution
          /\ new.token = job.token /\ new.at = now /\ new.beat = job.beat
          /\ new.attempt = row.attempt
      BY <1>0, <2>0 DEF Job, Steps, Outcomes
    <3> HIDE DEF new
    <3> QED BY <2>0, <2>4, <3>1, Advancing DEF InRun, new
  <2> QED BY <1>5, <2>1, <2>2, <2>3, <2>4 DEF ClaimRead
<1>6. CASE ReadError(h)
  BY <1>6, GivingUp DEF ReadError
<1>7. ASSUME NEW outcome \in Outcomes, CallbackReturn(h, outcome)
      PROVE  Goal
  <2> DEFINE new == [job EXCEPT !.pc = "returned", !.outcome = outcome]
  <2>1. /\ new \in Job /\ new.pc = "returned" /\ new.execution = job.execution
        /\ new.token = job.token /\ new.at = job.at /\ new.beat = job.beat
        /\ new.attempt = job.attempt
    BY <1>0 DEF Job, Steps
  <2>2. SetJob(h, new) /\ job.pc = "callback"
    BY <1>7 DEF CallbackReturn
  <2> HIDE DEF new
  <2> QED BY <2>1, <2>2, Advancing DEF InRun
<1>8. CASE HeartbeatTick(h)
  <2> DEFINE new == [job EXCEPT !.beat = now]
  <2>1. /\ new \in Job /\ new.pc = job.pc /\ new.execution = job.execution
        /\ new.token = job.token /\ new.at = job.at /\ new.beat = now
        /\ new.attempt = job.attempt
    BY <1>0 DEF Job
  <2>2. SetJob(h, new) /\ job.pc \in {"callback", "returned"}
    BY <1>8 DEF HeartbeatTick
  <2> HIDE DEF new
  <2> QED BY <2>1, <2>2, Advancing DEF InRun
<1>9. CASE Heartbeat(h) \/ HeartbeatError(h)
  <2>0. job.pc \in {"callback", "returned"}
    BY <1>9 DEF Heartbeat, HeartbeatError, TypeInv, JobShape
  <2>1. ASSUME NEW lost \in BOOLEAN,
               SetJob(h, [job EXCEPT !.beat = Null, !.leaseLost = lost])
        PROVE  Goal
    <3> DEFINE new == [job EXCEPT !.beat = Null, !.leaseLost = lost]
    <3>1. /\ new \in Job /\ new.pc = job.pc /\ new.execution = job.execution
          /\ new.token = job.token /\ new.at = job.at /\ new.beat = Null
          /\ new.attempt = job.attempt
      BY <1>0 DEF Job
    <3> HIDE DEF new
    <3> QED BY <2>0, <2>1, <3>1, Advancing DEF InRun, new
  <2>2. (~Holds(h)) \in BOOLEAN
    BY DEF Holds, HeldBy
  <2> QED BY <1>9, <2>1, <2>2 DEF Heartbeat, HeartbeatError
<1>10. CASE Join(h)
  <2>1. CASE job.leaseLost
    BY <1>10, <2>1, GivingUp DEF Join
  <2>2. CASE ~job.leaseLost
    <3> DEFINE new == [job EXCEPT !.pc = "finish", !.at = now]
    <3>1. /\ new \in Job /\ new.pc = "finish" /\ new.execution = job.execution
          /\ new.token = job.token /\ new.at = now /\ new.beat = job.beat
          /\ new.attempt = job.attempt
      BY <1>0 DEF Job, Steps
    <3>2. SetJob(h, new) /\ job.pc = "returned" /\ job.beat = Null
      BY <1>10, <2>2 DEF Join
    <3> HIDE DEF new
    <3> QED BY <3>1, <3>2, Advancing DEF InRun
  <2> QED BY <2>1, <2>2
<1>11. CASE Complete(h)
  <2>1. CASE Completes(h)
    <3> DEFINE new == [job EXCEPT !.pc = "ack"]
    <3>1. /\ new \in Job /\ new.pc = "ack" /\ new.execution = job.execution
          /\ new.token = job.token /\ new.at = job.at /\ new.beat = job.beat
      BY <1>0 DEF Job, Steps
    <3>2. SetJob(h, new) /\ job.pc = "finish" /\ job.beat = Null
      BY <1>11, <2>1 DEF Complete, TypeInv, JobShape
    <3> HIDE DEF new
    <3> QED BY <3>1, <3>2, Advancing DEF InRun
  <2>2. CASE ~Completes(h)
    BY <1>11, <2>2, GivingUp DEF Complete
  <2> QED BY <2>1, <2>2
<1>12. CASE CompleteError(h) \/ Ack(h)
  BY <1>12, GivingUp DEF CompleteError, Ack
<1> QED
  BY <1>1, <1>2, <1>3, <1>4, <1>5, <1>6, <1>7, <1>8, <1>9, <1>10, <1>11, <1>12
     DEF HandlerStep

\* The same for every step of the system.
LEMMA AllMoves ==
    ASSUME TypeInv, [Next]_vars
    PROVE  /\ jobs' \in [Handlers -> Job] /\ JobShape'
           /\ \A g \in Handlers : JobMoves(g)
<1>1. CASE \E h \in Handlers : HandlerStep(h)
  BY <1>1, HandlerMoves
<1>2. CASE \E w \in Workers : Crash(w)
  BY <1>2, IdleJobFacts DEF Crash, TypeInv, TypeOK, JobShape, JobMoves, Steps
<1>3. CASE UNCHANGED jobs
  BY <1>3 DEF TypeInv, TypeOK, JobShape, JobMoves
<1> QED
  BY <1>1, <1>2, <1>3
     DEF Next, vars, Tick, ReconcilerStep, ScanStart, RecoverBatch, RecoverError,
         CleanupStep, Cleanup
-----------------------------------------------------------------------------
(* Rows and events: what a step may do to the database *)

IsClaimed(e, h) ==
    /\ jobs[h].pc = "claim" /\ jobs[h].execution = e
    /\ jobs'[h].pc \in {"read", "idle"}
    /\ Claimable(rows[e], jobs[h].at)
    /\ rows'[e] = ClaimedRow(rows[e], Owner[h], jobs[h].token, jobs[h].at)

IsRenewed(e, h) ==
    /\ jobs[h].beat # Null /\ jobs[h].execution = e /\ Holds(h)
    /\ rows'[e] = RenewedRow(rows[e], jobs[h].beat + LeaseTTL)

\* Rows are claimed or renewed, and no event is written.
Quiet ==
    /\ outbox' = outbox
    /\ \A e \in Executions :
         \/ rows'[e] = rows[e]
         \/ \E h \in Handlers : IsClaimed(e, h) \/ IsRenewed(e, h)

\* A handler ends its run and writes its retry event, if there is one.
Completing(h) ==
    /\ jobs[h].pc = "finish" /\ Completes(h)
    /\ jobs'[h].pc \in {"ack", "idle"}
    /\ rows' = [rows EXCEPT ![jobs[h].execution] = CompletedRow(h)]
    /\ outbox' = outbox \cup RetryEvents(h)

\* A reconciler recovers a batch and writes its recovery events.
Recovering(r, batch) ==
    /\ scans[r] # Null
    /\ \A e \in batch : Recoverable(rows[e], scans[r])
    /\ rows' = [e \in Executions |->
                  IF e \in batch THEN RecoveredRow(rows[e], scans[r]) ELSE rows[e]]
    /\ outbox' = outbox \cup RecoveryEvents(batch, scans[r])

DatabaseMoves ==
    \/ Quiet
    \/ \E h \in Handlers : Completing(h)
    \/ \E r \in Reconcilers, batch \in SUBSET Executions : Recovering(r, batch)
    \/ CleanupStep

\* One row is rewritten, the others stay.
LEMMA OneRowMoves ==
    ASSUME TypeInv, NEW id \in Executions, NEW new \in Row,
           rows' = [rows EXCEPT ![id] = new]
    PROVE  /\ rows'[id] = new
           /\ \A e \in Executions \ {id} : rows'[e] = rows[e]
           /\ rows' \in [Executions -> Row]
BY DEF TypeInv, TypeOK

\* What a handler writes when it completes: a row and perhaps an event.
LEMMA CompletedTypes ==
    ASSUME TypeInv, NEW h \in Handlers, jobs[h].pc = "finish"
    PROVE  /\ jobs[h].execution \in Executions
           /\ jobs[h].at \in Time
           /\ RetryAt(h) \in Time
           /\ CompletedRow(h) \in Row
           /\ RetryEvents(h) \subseteq Event
<1>1. /\ rows[jobs[h].execution] \in Row /\ jobs[h].at \in Time
      /\ jobs[h].execution \in Executions /\ jobs[h].attempt \in Nat
      /\ RetryBackoff(jobs[h].attempt) \in Nat
  BY BackoffType DEF TypeInv, TypeOK, Job, JobShape, Steps
<1>2. RetryAt(h) \in Time
  BY <1>1 DEF RetryAt, Time
<1>3. CompletedRow(h) \in Row
  BY <1>1, <1>2, SucceededRowFacts, RetryWaitRowFacts, FailedRowFacts DEF CompletedRow
<1>4. RetryEvents(h) \subseteq Event
  BY <1>1, <1>2 DEF RetryEvents, RetryEvent, Event
<1> QED BY <1>1, <1>2, <1>3, <1>4

\* What a handler's step does to the database.
LEMMA HandlerWrites ==
    ASSUME TypeInv, NEW h \in Handlers, HandlerStep(h)
    PROVE  rows' \in [Executions -> Row] /\ (Quiet \/ Completing(h))
<1> DEFINE id   == jobs[h].execution
           Goal == rows' \in [Executions -> Row] /\ (Quiet \/ Completing(h))
<1>0. rows \in [Executions -> Row] /\ Owner[h] \in Workers
  BY WorkerConstants DEF TypeInv, TypeOK
<1>1. CASE rows' = rows /\ outbox' = outbox
  BY <1>0, <1>1 DEF Quiet
<1>2. ASSUME jobs[h].pc = "claim", ClaimHits(h), jobs'[h].pc \in {"read", "idle"},
             rows' = [rows EXCEPT ![id] =
                        ClaimedRow(rows[id], Owner[h], jobs[h].token, jobs[h].at)],
             outbox' = outbox
      PROVE  Goal
  <2>1. id \in Executions /\ jobs[h].token \in RunTokens /\ jobs[h].at \in Time
    BY <1>2 DEF TypeInv, JobShape, Steps
  <2>2. ClaimedRow(rows[id], Owner[h], jobs[h].token, jobs[h].at) \in Row
    BY <1>0, <2>1, ClaimedRowFacts
  <2>3. /\ rows'[id] = ClaimedRow(rows[id], Owner[h], jobs[h].token, jobs[h].at)
        /\ \A e \in Executions \ {id} : rows'[e] = rows[e]
        /\ rows' \in [Executions -> Row]
    BY <1>2, <2>1, <2>2, OneRowMoves
  <2>4. IsClaimed(id, h)
    BY <1>2, <2>1, <2>3 DEF IsClaimed, ClaimHits
  <2> QED BY <1>2, <2>3, <2>4 DEF Quiet
<1>3. ASSUME jobs[h].beat # Null, Holds(h), outbox' = outbox,
             rows' = [rows EXCEPT ![id] = RenewedRow(rows[id], jobs[h].beat + LeaseTTL)]
      PROVE  Goal
  <2>1. id \in Executions /\ jobs[h].beat \in Time
    BY <1>3 DEF TypeInv, TypeOK, Job, JobShape, Steps
  <2>2. RenewedRow(rows[id], jobs[h].beat + LeaseTTL) \in Row
    BY <1>0, <2>1, RenewedRowFacts
  <2>3. /\ rows'[id] = RenewedRow(rows[id], jobs[h].beat + LeaseTTL)
        /\ \A e \in Executions \ {id} : rows'[e] = rows[e]
        /\ rows' \in [Executions -> Row]
    BY <1>3, <2>1, <2>2, OneRowMoves
  <2>4. IsRenewed(id, h)
    BY <1>3, <2>1, <2>3 DEF IsRenewed
  <2> QED BY <1>3, <2>3, <2>4 DEF Quiet
<1>4. CASE Completing(h)
  <2>1. id \in Executions /\ CompletedRow(h) \in Row
    BY <1>4, CompletedTypes DEF Completing
  <2> QED BY <1>4, <2>1, OneRowMoves DEF Completing
<1>5. ASSUME SetJob(h, IdleJob) PROVE jobs'[h].pc = "idle"
  BY <1>5, IdleJobFacts DEF SetJob, TypeInv, TypeOK
<1>6. CASE ClaimUpdate(h) \/ ClaimError(h)
  <2>1. jobs'[h].pc \in {"read", "idle"}
    <3>1. CASE ClaimError(h)
      BY <1>5, <3>1 DEF ClaimError
    <3>2. CASE ClaimUpdate(h)
      BY <3>2 DEF ClaimUpdate, SetJob, TypeInv, TypeOK, Job
    <3> QED BY <1>6, <3>1, <3>2
  <2> QED BY <1>1, <1>2, <1>6, <2>1 DEF ClaimUpdate, ClaimError, ClaimEffect
<1>7. CASE Heartbeat(h) \/ HeartbeatError(h)
  BY <1>1, <1>3, <1>7 DEF Heartbeat, HeartbeatError, HeartbeatEffect
<1>8. CASE Complete(h) \/ CompleteError(h)
  <2>1. Completes(h) => jobs'[h].pc \in {"ack", "idle"}
    <3>1. CASE CompleteError(h)
      BY <1>5, <3>1 DEF CompleteError
    <3>2. CASE Complete(h)
      BY <3>2 DEF Complete, SetJob, TypeInv, TypeOK, Job
    <3> QED BY <1>8, <3>1, <3>2
  <2> QED
    BY <1>1, <1>4, <1>8, <2>1 DEF Complete, CompleteError, CompleteEffect, Completing
<1> QED
  BY <1>1, <1>6, <1>7, <1>8
     DEF HandlerStep, Receive, ReceiveMalformed, ClaimRead, ReadError,
         CallbackReturn, HeartbeatTick, Join, Ack

\* What any step does to the database.
LEMMA AllWrites ==
    ASSUME TypeInv, [Next]_vars
    PROVE  rows' \in [Executions -> Row] /\ outbox' \subseteq Event /\ DatabaseMoves
<1>0. rows \in [Executions -> Row] /\ outbox \subseteq Event
  BY DEF TypeInv, TypeOK
<1>1. CASE \E h \in Handlers : HandlerStep(h)
  <2>1. PICK h \in Handlers : HandlerStep(h)
    BY <1>1
  <2>2. rows' \in [Executions -> Row] /\ (Quiet \/ Completing(h))
    BY <2>1, HandlerWrites
  <2>3. outbox' \subseteq Event
    BY <1>0, <2>2, CompletedTypes DEF Quiet, Completing
  <2> QED BY <2>2, <2>3 DEF DatabaseMoves
<1>2. CASE UNCHANGED <<rows, outbox>>
  BY <1>0, <1>2 DEF DatabaseMoves, Quiet
<1>3. ASSUME NEW r \in Reconcilers, NEW locked \in SUBSET Executions,
             RecoverBatch(r, locked)
      PROVE  rows' \in [Executions -> Row] /\ outbox' \subseteq Event /\ DatabaseMoves
  <2>1. PICK batch \in SUBSET Executions : Recovering(r, batch)
    BY <1>3 DEF RecoverBatch, Batch, Recovering
  <2>2. scans[r] \in Time
    BY <2>1 DEF Recovering, TypeInv, TypeOK
  <2>3. \A e \in Executions : RecoveredRow(rows[e], scans[r]) \in Row
    BY <1>0, <2>2, RecoveredRowFacts
  <2>4. rows' \in [Executions -> Row]
    BY <1>0, <2>1, <2>3 DEF Recovering
  <2>5. outbox' \subseteq Event
    BY <1>0, <2>1, <2>2 DEF Recovering, RecoveryEvents, RecoveryEvent, Event, Time
  <2> QED BY <2>1, <2>4, <2>5 DEF DatabaseMoves
<1>4. CASE CleanupStep
  BY <1>0, <1>4, PlainRowFacts DEF CleanupStep, Cleanup, DatabaseMoves
<1> QED
  BY <1>1, <1>2, <1>3, <1>4
     DEF Next, vars, Tick, Crash, ReconcilerStep, ScanStart, RecoverError
-----------------------------------------------------------------------------
(* Type correctness *)

\* Every value a clock sample is compared with or written as was sampled in
\* the past.
NoFutureSamples ==
    /\ \A h \in Handlers : /\ jobs[h].at # Null => jobs[h].at <= now
                           /\ jobs[h].beat # Null => jobs[h].beat <= now
    /\ \A r \in Reconcilers : scans[r] # Null => scans[r] <= now

\* The state the scheduler leaves behind has the types.
LEMMA InitTypes == Init => TypeInv /\ NoFutureSamples
<1> SUFFICES ASSUME Init PROVE TypeInv /\ NoFutureSamples
  OBVIOUS
<1>1. rows \in [Executions -> Row] /\ now \in Time
  BY WorkerConstants, PlainRowFacts DEF Init, Time
<1>2. outbox \subseteq Event
  BY WorkerConstants DEF Init, ReadyEvent, Event
<1>3. /\ jobs \in [Handlers -> Job] /\ JobShape
      /\ scans \in [Reconcilers -> Time \cup {Null}]
  BY IdleJobFacts DEF Init, JobShape
<1>4. NoFutureSamples
  BY IdleJobFacts DEF Init, NoFutureSamples
<1> QED BY <1>1, <1>2, <1>3, <1>4 DEF TypeInv, TypeOK

\* The clock moves by a tick of its own, and scans sample it.
LEMMA ClockMoves ==
    ASSUME TypeInv, [Next]_vars
    PROVE  /\ now' \in Time /\ now <= now'
           /\ scans' \in [Reconcilers -> Time \cup {Null}]
           /\ \A r \in Reconcilers : scans'[r] \in {scans[r], now, Null}
<1>0. now \in Time /\ scans \in [Reconcilers -> Time \cup {Null}]
  BY DEF TypeInv, TypeOK
<1>1. CASE UNCHANGED <<now, scans>>
  BY <1>0, <1>1 DEF Time
<1>2. CASE Tick
  BY <1>0, <1>2 DEF Tick, Time
<1>3. CASE \E h \in Handlers : HandlerStep(h)
  BY <1>1, <1>3
     DEF HandlerStep, Receive, ReceiveMalformed, ClaimUpdate, ClaimError, ClaimRead,
         ReadError, CallbackReturn, HeartbeatTick, Heartbeat, HeartbeatError, Join,
         Complete, CompleteError, Ack
<1>4. CASE \E r \in Reconcilers : ReconcilerStep(r)
  BY <1>0, <1>4 DEF ReconcilerStep, ScanStart, RecoverBatch, RecoverError, Time
<1> QED
  BY <1>1, <1>2, <1>3, <1>4 DEF Next, vars, Crash, CleanupStep, Cleanup

\* Every step keeps the types.
LEMMA NextTypes == TypeInv /\ [Next]_vars => TypeInv'
<1> SUFFICES ASSUME TypeInv, [Next]_vars PROVE TypeInv'
  OBVIOUS
<1>1. jobs' \in [Handlers -> Job] /\ JobShape'
  BY AllMoves
<1>2. rows' \in [Executions -> Row] /\ outbox' \subseteq Event
  BY AllWrites
<1>3. now' \in Time /\ scans' \in [Reconcilers -> Time \cup {Null}]
  BY ClockMoves
<1> QED BY <1>1, <1>2, <1>3 DEF TypeInv, TypeOK

\* Type correctness of workers and reconcilers: rows, events, jobs and scans
\* are always what TypeOK says.
THEOREM TypeCorrect == Spec => []TypeOK
<1>1. Init => TypeInv
  BY InitTypes
<1>2. TypeInv /\ [Next]_vars => TypeInv'
  BY NextTypes
<1>3. TypeInv => TypeOK
  BY DEF TypeInv
<1> QED BY <1>1, <1>2, <1>3, PTL DEF Spec
-----------------------------------------------------------------------------
(* One row at a time *)

IsCompleted(e, h) ==
    /\ jobs[h].pc = "finish" /\ jobs[h].execution = e /\ Holds(h)
    /\ jobs'[h].pc \in {"ack", "idle"}
    /\ rows'[e] = CompletedRow(h)

IsRecovered(e, r) ==
    /\ scans[r] \in Time
    /\ Recoverable(rows[e], scans[r])
    /\ rows'[e] = RecoveredRow(rows[e], scans[r])

IsPurged(e) == IsTerminal(rows[e]) /\ rows'[e] = AbsentRow

\* Every step leaves a row alone or claims, renews, completes, recovers or
\* purges it.
LEMMA RowMoves ==
    ASSUME TypeInv, [Next]_vars, NEW e \in Executions
    PROVE  \/ rows'[e] = rows[e]
           \/ \E h \in Handlers : IsClaimed(e, h) \/ IsRenewed(e, h) \/ IsCompleted(e, h)
           \/ \E r \in Reconcilers : IsRecovered(e, r)
           \/ IsPurged(e)
<1>1. DatabaseMoves
  BY AllWrites
<1>2. CASE Quiet
  BY <1>2 DEF Quiet
<1>3. ASSUME NEW h \in Handlers, Completing(h)
      PROVE  rows'[e] = rows[e] \/ IsCompleted(e, h)
  <2>1. jobs[h].execution \in Executions /\ CompletedRow(h) \in Row
    BY <1>3, CompletedTypes DEF Completing
  <2> QED BY <1>3, <2>1, OneRowMoves DEF Completing, IsCompleted, Completes
<1>4. ASSUME NEW r \in Reconcilers, NEW batch \in SUBSET Executions, Recovering(r, batch)
      PROVE  rows'[e] = rows[e] \/ IsRecovered(e, r)
  BY <1>4 DEF Recovering, IsRecovered, TypeInv, TypeOK
<1>5. CASE CleanupStep
  BY <1>5 DEF CleanupStep, Cleanup, IsPurged
<1> QED BY <1>1, <1>2, <1>3, <1>4, <1>5 DEF DatabaseMoves

\* The columns a completed run is left with.
LEMMA CompletedFacts ==
    ASSUME TypeInv, NEW e \in Executions, NEW h \in Handlers, IsCompleted(e, h)
    PROVE  /\ rows[e].status = "RUNNING"
           /\ rows[e].lease_owner = Owner[h] /\ rows[e].run_token = jobs[h].token
           /\ rows'[e].attempt = rows[e].attempt
           /\ rows'[e].lease_owner = Null
           /\ rows'[e].lease_until = Null
           /\ rows'[e].run_token = Null
           /\ \/ /\ jobs[h].outcome = "ok"
                 /\ rows'[e].status = "SUCCESS" /\ rows'[e].finished_at \in Time
              \/ /\ jobs[h].outcome # "ok" /\ Retries(h)
                 /\ rows'[e].status = "RETRY_WAIT"
                 /\ rows'[e].next_attempt_at = RetryAt(h)
                 /\ rows'[e].last_enqueued_at = RetryAt(h)
                 /\ RetryAt(h) \in Time
              \/ /\ jobs[h].outcome # "ok" /\ ~Retries(h)
                 /\ rows'[e].status = "FAILED" /\ rows'[e].finished_at \in Time
<1>1. /\ rows[e] \in Row /\ jobs[h].at \in Time /\ RetryAt(h) \in Time
      /\ jobs[h].execution = e
  BY CompletedTypes DEF IsCompleted, TypeInv, TypeOK
<1>2. /\ rows[e].status = "RUNNING"
      /\ rows[e].lease_owner = Owner[h] /\ rows[e].run_token = jobs[h].token
  BY DEF IsCompleted, Holds, HeldBy
<1>3. CASE jobs[h].outcome = "ok"
  BY <1>1, <1>2, <1>3, SucceededRowFacts DEF IsCompleted, CompletedRow
<1>4. CASE jobs[h].outcome # "ok" /\ Retries(h)
  <2>1. rows'[e] = RetryWaitRow(rows[e], jobs[h].at, RetryAt(h))
    BY <1>1, <1>4 DEF IsCompleted, CompletedRow
  <2> QED BY <1>1, <1>2, <1>4, <2>1, RetryWaitRowFacts
<1>5. CASE jobs[h].outcome # "ok" /\ ~Retries(h)
  BY <1>1, <1>2, <1>5, FailedRowFacts DEF IsCompleted, CompletedRow
<1> QED BY <1>3, <1>4, <1>5

\* The columns a claimed row is left with.
LEMMA ClaimedFacts ==
    ASSUME TypeInv, NEW e \in Executions, NEW h \in Handlers, IsClaimed(e, h)
    PROVE  /\ jobs[h].token \in RunTokens /\ Owner[h] \in Workers /\ jobs[h].at \in Time
           /\ rows'[e].status = "RUNNING"
           /\ rows'[e].attempt = rows[e].attempt + 1
           /\ rows'[e].lease_owner = Owner[h]
           /\ rows'[e].lease_until \in Time
           /\ rows'[e].run_token = jobs[h].token
<1>1. jobs[h].token \in RunTokens /\ jobs[h].at \in Time
  BY DEF IsClaimed, TypeInv, JobShape, Steps
<1>2. rows[e] \in Row /\ Owner[h] \in Workers
  BY WorkerConstants DEF TypeInv, TypeOK
<1>3. jobs[h].at + LeaseTTL \in Time
  BY <1>1, RowConstants DEF Time
<1> QED BY <1>1, <1>2, <1>3, ClaimedRowFacts DEF IsClaimed

\* A renewal moves the end of the lease of a running row.
LEMMA RenewedFacts ==
    ASSUME TypeInv, NEW e \in Executions, NEW h \in Handlers, IsRenewed(e, h)
    PROVE  /\ rows[e].status = "RUNNING" /\ rows'[e].status = "RUNNING"
           /\ rows'[e].lease_until \in Time
           /\ rows'[e].attempt = rows[e].attempt
           /\ rows'[e].lease_owner = rows[e].lease_owner
           /\ rows'[e].run_token = rows[e].run_token
<1>1. rows[e] \in Row /\ jobs[h].beat \in Time
  BY DEF IsRenewed, TypeInv, TypeOK, Job
<1>2. jobs[h].beat + LeaseTTL \in Time
  BY <1>1, RowConstants DEF Time
<1> QED BY <1>1, <1>2 DEF IsRenewed, RenewedRow, Row, Holds, HeldBy

\* The columns of a purged row.
LEMMA PurgedFacts ==
    ASSUME NEW e \in Executions, IsPurged(e)
    PROVE  /\ rows'[e].status = "ABSENT" /\ rows'[e].attempt = 0
           /\ rows'[e].lease_owner = Null /\ rows'[e].lease_until = Null
           /\ rows'[e].run_token = Null
BY DEF IsPurged, AbsentRow, PendingRow
-----------------------------------------------------------------------------
(* The inductive invariant *)

\* Tokens are random, so no two handlers have the same one.
TokensApart ==
    \A h, g \in Handlers :
        h # g /\ jobs[h].token # Null => jobs[h].token # jobs[g].token

\* A handler that is yet to claim has not written its token anywhere.
TokenUnwritten ==
    \A h \in Handlers, e \in Executions :
        jobs[h].pc = "claim" => rows[e].run_token # jobs[h].token

\* A retry event belongs to an attempt that is over.
RetryEventsArePast ==
    \A event \in outbox :
        event.kind = "retry" =>
            /\ event.seq <= rows[event.execution].attempt
            /\ rows[event.execution].status = "RUNNING" =>
                 event.seq < rows[event.execution].attempt

\* A row that waits was enqueued by the statement that made it wait.
RetryWaitEnqueued ==
    \A e \in Executions :
        rows[e].status = "RETRY_WAIT" => rows[e].last_enqueued_at \in Time

Fencing == ColumnsFollowStatus /\ TokensApart /\ TokenUnwritten /\ RunTokenFences

Announcing == RetryEventsArePast /\ RetryWaitEnqueued /\ RetryWaitIsAnnounced

IInv == TypeInv /\ NoFutureSamples /\ Fencing /\ Announcing

\* The initial state satisfies the invariant.
LEMMA InitInv == Init => IInv
<1> SUFFICES ASSUME Init PROVE IInv
  OBVIOUS
<1>1. TypeInv /\ NoFutureSamples
  BY InitTypes
<1>2. Fencing
  BY IdleJobFacts, NullAssumption
     DEF Init, PendingRow, Fencing, ColumnsFollowStatus, TokensApart, TokenUnwritten,
         RunTokenFences, IsTerminal, Terminal
<1>3. Announcing
  BY DEF Init, PendingRow, ReadyEvent, Announcing, RetryEventsArePast,
         RetryWaitEnqueued, RetryWaitIsAnnounced
<1> QED BY <1>1, <1>2, <1>3 DEF IInv

\* Samples are taken from the clock, and the clock does not go back.
LEMMA KeepsSamples ==
    ASSUME IInv, [Next]_vars PROVE NoFutureSamples'
<1>1. /\ \A h \in Handlers : JobMoves(h)
      /\ jobs \in [Handlers -> Job] /\ jobs' \in [Handlers -> Job] /\ now \in Time
  BY AllMoves DEF IInv, TypeInv, TypeOK
<1>2. /\ now' \in Time /\ now <= now'
      /\ \A r \in Reconcilers : scans'[r] \in {scans[r], now, Null}
      /\ scans \in [Reconcilers -> Time \cup {Null}]
  BY ClockMoves DEF IInv, TypeInv, TypeOK
<1>3. ASSUME NEW h \in Handlers
      PROVE  /\ jobs'[h].at # Null => jobs'[h].at <= now'
             /\ jobs'[h].beat # Null => jobs'[h].beat <= now'
  <2>1. /\ jobs'[h].at \in {jobs[h].at, now, Null}
        /\ jobs'[h].beat \in {jobs[h].beat, now, Null}
    BY <1>1, IdleJobFacts DEF JobMoves, Receives, Advances
  <2>2. jobs[h].at \in Time \cup {Null} /\ jobs[h].beat \in Time \cup {Null}
    BY <1>1 DEF Job
  <2> QED BY <1>1, <1>2, <2>1, <2>2 DEF IInv, NoFutureSamples, Time
<1>4. ASSUME NEW r \in Reconcilers PROVE scans'[r] # Null => scans'[r] <= now'
  BY <1>1, <1>2 DEF IInv, NoFutureSamples, Time
<1> QED BY <1>3, <1>4 DEF NoFutureSamples

\* A row carries owner, lease and token exactly while it runs.
LEMMA KeepsColumns ==
    ASSUME IInv, [Next]_vars PROVE ColumnsFollowStatus'
<1> DEFINE Good(row) ==
      /\ IF row.status = "RUNNING"
         THEN Null \notin {row.lease_owner, row.lease_until, row.run_token}
         ELSE {row.lease_owner, row.lease_until, row.run_token} = {Null}
      /\ row.status = "RETRY_WAIT" => row.next_attempt_at # Null
      /\ IsTerminal(row) => row.finished_at # Null
<1>0. Null \notin Time \cup Workers \cup RunTokens
  BY NullAssumption DEF Time
<1>1. SUFFICES ASSUME NEW e \in Executions PROVE Good(rows'[e])
  BY DEF ColumnsFollowStatus
<1>2. TypeInv /\ rows[e] \in Row /\ Good(rows[e])
  BY DEF IInv, Fencing, ColumnsFollowStatus, TypeInv, TypeOK
<1>3. ASSUME NEW h \in Handlers, IsClaimed(e, h) PROVE Good(rows'[e])
  BY <1>0, <1>2, <1>3, ClaimedFacts DEF IsTerminal, Terminal
<1>4. ASSUME NEW h \in Handlers, IsRenewed(e, h) PROVE Good(rows'[e])
  BY <1>0, <1>2, <1>4, RenewedFacts DEF IsTerminal, Terminal
<1>5. ASSUME NEW h \in Handlers, IsCompleted(e, h) PROVE Good(rows'[e])
  BY <1>0, <1>2, <1>5, CompletedFacts DEF IsTerminal, Terminal
<1>6. ASSUME NEW r \in Reconcilers, IsRecovered(e, r) PROVE Good(rows'[e])
  <2>1. /\ scans[r] \in Time /\ rows'[e] = RecoveredRow(rows[e], scans[r])
        /\ Recoverable(rows[e], scans[r])
    BY <1>6 DEF IsRecovered
  <2>2. CASE rows[e].status = "RUNNING"
    <3>1. /\ rows'[e].lease_owner = Null
          /\ rows'[e].lease_until = Null
          /\ rows'[e].run_token = Null
          /\ \/ rows'[e].status = "FAILED" /\ rows'[e].finished_at = scans[r]
             \/ rows'[e].status = "RETRY_WAIT" /\ rows'[e].next_attempt_at = scans[r]
      BY <1>2, <2>1, <2>2, RowConstants, RecoveredRowFacts DEF Row
    <3> QED BY <1>0, <2>1, <3>1 DEF IsTerminal, Terminal
  <2>3. CASE rows[e].status # "RUNNING"
    <3>1. rows'[e] = [rows[e] EXCEPT !.last_enqueued_at = scans[r]]
      BY <1>2, <2>1, <2>3, RecoveredRowFacts
    <3>2. /\ rows'[e].status = rows[e].status
          /\ rows'[e].lease_owner = rows[e].lease_owner
          /\ rows'[e].lease_until = rows[e].lease_until
          /\ rows'[e].run_token = rows[e].run_token
          /\ rows'[e].next_attempt_at = rows[e].next_attempt_at
          /\ rows'[e].finished_at = rows[e].finished_at
      BY <1>2, <3>1 DEF Row
    <3> QED BY <1>2, <3>2 DEF IsTerminal
  <2> QED BY <2>2, <2>3
<1>7. CASE IsPurged(e)
  BY <1>7, PurgedFacts DEF IsTerminal, Terminal
<1>8. CASE rows'[e] = rows[e]
  BY <1>2, <1>8
<1> HIDE DEF Good
<1> QED BY <1>2, <1>3, <1>4, <1>5, <1>6, <1>7, <1>8, RowMoves

\* A token in a row after a step was there before, or a claim wrote it; a row
\* that keeps its token keeps its attempt and its owner.
LEMMA TokenMoves ==
    ASSUME IInv, [Next]_vars, NEW e \in Executions, rows'[e].run_token # Null
    PROVE  \/ /\ rows'[e].run_token = rows[e].run_token
              /\ rows'[e].attempt = rows[e].attempt
              /\ rows'[e].lease_owner = rows[e].lease_owner
           \/ \E h \in Handlers : IsClaimed(e, h) /\ rows'[e].run_token = jobs[h].token
<1>0. TypeInv /\ rows[e] \in Row
  BY DEF IInv, TypeInv, TypeOK
<1>1. ASSUME NEW h \in Handlers, IsClaimed(e, h)
      PROVE  rows'[e].run_token = jobs[h].token
  BY <1>0, <1>1, ClaimedFacts
<1>2. ASSUME NEW h \in Handlers, IsRenewed(e, h)
      PROVE  /\ rows'[e].run_token = rows[e].run_token
             /\ rows'[e].attempt = rows[e].attempt
             /\ rows'[e].lease_owner = rows[e].lease_owner
  BY <1>0, <1>2, RenewedFacts
<1>3. ASSUME NEW h \in Handlers, IsCompleted(e, h) PROVE FALSE
  BY <1>0, <1>3, CompletedFacts
<1>4. ASSUME NEW r \in Reconcilers, IsRecovered(e, r)
      PROVE  /\ rows'[e].run_token = rows[e].run_token
             /\ rows'[e].attempt = rows[e].attempt
             /\ rows'[e].lease_owner = rows[e].lease_owner
  <2>1. scans[r] \in Time /\ rows'[e] = RecoveredRow(rows[e], scans[r])
    BY <1>4 DEF IsRecovered
  <2>2. rows[e].status # "RUNNING" /\ rows'[e] = [rows[e] EXCEPT !.last_enqueued_at = scans[r]]
    BY <1>0, <2>1, RecoveredRowFacts
  <2> QED BY <1>0, <2>2 DEF Row
<1>5. ~IsPurged(e)
  BY PurgedFacts
<1> QED BY <1>0, <1>1, <1>2, <1>3, <1>4, <1>5, RowMoves

\* Tokens stay apart, and a token is written by its own claim only.
LEMMA KeepsTokens ==
    ASSUME IInv, [Next]_vars PROVE TokensApart' /\ TokenUnwritten'
<1>0. TypeInv /\ TokensApart /\ TokenUnwritten
  BY DEF IInv, Fencing
<1>1. \A h \in Handlers : JobMoves(h)
  BY <1>0, AllMoves
<1>2. ASSUME NEW h \in Handlers, NEW g \in Handlers, h # g, jobs'[h].token # Null
      PROVE  jobs'[h].token # jobs'[g].token
  <2>1. CASE Receives(h)
    BY <1>2, <2>1 DEF Receives, Fresh
  <2>2. CASE Receives(g)
    BY <1>2, <2>2 DEF Receives, Fresh
  <2>3. CASE ~Receives(h) /\ ~Receives(g)
    <3>1. jobs'[h].token = jobs[h].token
      BY <1>1, <1>2, <2>3, IdleJobFacts DEF JobMoves, Advances
    <3>2. jobs'[g].token \in {jobs[g].token, Null}
      BY <1>1, <2>3, IdleJobFacts DEF JobMoves, Advances
    <3> QED BY <1>0, <1>2, <3>1, <3>2 DEF TokensApart
  <2> QED BY <2>1, <2>2, <2>3
<1>3. ASSUME NEW h \in Handlers, NEW e \in Executions, jobs'[h].pc = "claim"
      PROVE  rows'[e].run_token # jobs'[h].token
  <2>1. CASE Receives(h)
    BY <2>1 DEF Receives, Fresh
  <2>2. CASE jobs'[h] = jobs[h]
    <3>1. jobs[h].token # Null /\ rows[e].run_token # jobs[h].token
      BY <1>0, <1>3, <2>2, NullAssumption DEF TokenUnwritten, TypeInv, JobShape, Steps
    <3>2. ASSUME NEW g \in Handlers, IsClaimed(e, g) PROVE jobs[g].token # jobs[h].token
      BY <1>0, <1>3, <2>2, <3>1, <3>2 DEF IsClaimed, TokensApart
    <3> QED BY <2>2, <3>1, <3>2, TokenMoves
  <2> QED BY <1>1, <1>3, <2>1, <2>2, IdleJobFacts DEF JobMoves, Advances
<1> QED BY <1>2, <1>3 DEF TokensApart, TokenUnwritten

\* Fencing is kept: a token that matches is the token of the handler's own run.
LEMMA KeepsFences ==
    ASSUME IInv, [Next]_vars PROVE RunTokenFences'
<1>0. TypeInv /\ TokensApart /\ RunTokenFences
  BY DEF IInv, Fencing
<1>1. SUFFICES ASSUME NEW h \in Handlers, NEW e \in Executions,
                      jobs'[h].token # Null, rows'[e].run_token = jobs'[h].token
               PROVE  /\ jobs'[h].execution = e
                      /\ rows'[e].lease_owner = Owner[h]
                      /\ jobs'[h].pc \in InRun => jobs'[h].attempt = rows'[e].attempt
  BY DEF RunTokenFences, InRun
<1>2. JobMoves(h)
  BY <1>0, AllMoves
<1>3. ~Receives(h)
  BY <1>1 DEF Receives, Fresh
<1>4. /\ jobs'[h].token = jobs[h].token /\ jobs'[h].execution = jobs[h].execution
      /\ jobs'[h] = jobs[h] \/ Advances(h)
  BY <1>1, <1>2, <1>3, IdleJobFacts DEF JobMoves, Advances
<1>5. CASE /\ rows'[e].run_token = rows[e].run_token
           /\ rows'[e].attempt = rows[e].attempt
           /\ rows'[e].lease_owner = rows[e].lease_owner
  <2>1. /\ jobs[h].execution = e /\ rows[e].lease_owner = Owner[h]
        /\ jobs[h].pc \in InRun => jobs[h].attempt = rows[e].attempt
    BY <1>0, <1>1, <1>4, <1>5 DEF RunTokenFences, InRun
  <2>2. jobs'[h].pc \in InRun => jobs'[h].attempt = rows[e].attempt
    BY <1>4, <2>1 DEF Advances
  <2> QED BY <1>4, <1>5, <2>1, <2>2
<1>6. ASSUME NEW g \in Handlers, IsClaimed(e, g), rows'[e].run_token = jobs[g].token
      PROVE  /\ jobs'[h].execution = e
             /\ rows'[e].lease_owner = Owner[h]
             /\ jobs'[h].pc \in InRun => jobs'[h].attempt = rows'[e].attempt
  <2>1. g = h
    BY <1>0, <1>1, <1>4, <1>6 DEF TokensApart
  <2> QED BY <1>0, <1>4, <1>6, <2>1, ClaimedFacts DEF IsClaimed, InRun
<1> QED BY <1>1, <1>5, <1>6, TokenMoves

\* A handler that passes the WHERE clause of Complete* owns the run: the row
\* is in the attempt the handler read.
LEMMA HolderKnowsAttempt ==
    ASSUME IInv, NEW h \in Handlers, jobs[h].pc = "finish", Holds(h)
    PROVE  /\ jobs[h].execution \in Executions
           /\ jobs[h].token # Null
           /\ rows[jobs[h].execution].run_token = jobs[h].token
           /\ rows[jobs[h].execution].status = "RUNNING"
           /\ rows[jobs[h].execution].attempt = jobs[h].attempt
           /\ jobs[h].attempt \in Nat
<1>1. /\ jobs[h].execution \in Executions /\ jobs[h].token \in RunTokens
      /\ jobs[h].attempt \in Nat
  BY DEF IInv, TypeInv, TypeOK, Job, JobShape, Steps
<1>2. /\ rows[jobs[h].execution].run_token = jobs[h].token
      /\ rows[jobs[h].execution].status = "RUNNING"
  BY DEF Holds, HeldBy
<1>3. jobs[h].token # Null
  BY <1>1, NullAssumption
<1> QED BY <1>1, <1>2, <1>3 DEF IInv, Fencing, RunTokenFences

\* Retry events stay behind the attempt of their row.
LEMMA KeepsRetryEvents ==
    ASSUME IInv, [Next]_vars PROVE RetryEventsArePast'
<1> DEFINE Past(event, row) ==
      /\ event.seq <= row.attempt
      /\ row.status = "RUNNING" => event.seq < row.attempt
<1>0. /\ TypeInv /\ RetryEventsArePast
      /\ rows \in [Executions -> Row] /\ outbox \subseteq Event
  BY DEF IInv, Announcing, TypeInv, TypeOK
<1>1. DatabaseMoves
  BY <1>0, AllWrites
<1>2. ASSUME NEW event \in outbox, event.kind = "retry"
      PROVE  /\ event.execution \in Executions /\ event.seq \in Nat
             /\ rows[event.execution].attempt \in Nat
             /\ Past(event, rows[event.execution])
  BY <1>0, <1>2 DEF RetryEventsArePast, Event, Row
<1>3. CASE Quiet
  <2> SUFFICES ASSUME NEW event \in outbox, event.kind = "retry"
               PROVE  Past(event, rows'[event.execution])
    BY <1>3 DEF Quiet, RetryEventsArePast
  <2> DEFINE e == event.execution
  <2>1. ASSUME NEW h \in Handlers, IsClaimed(e, h) PROVE Past(event, rows'[e])
    BY <1>0, <1>2, <2>1, ClaimedFacts
  <2>2. ASSUME NEW h \in Handlers, IsRenewed(e, h) PROVE Past(event, rows'[e])
    BY <1>0, <1>2, <2>2, RenewedFacts
  <2> QED BY <1>2, <1>3, <2>1, <2>2 DEF Quiet
<1>4. ASSUME NEW h \in Handlers, Completing(h) PROVE RetryEventsArePast'
  <2> DEFINE id == jobs[h].execution
  <2>1. /\ jobs[h].pc = "finish" /\ Holds(h) /\ id \in Executions
        /\ CompletedRow(h) \in Row
    BY <1>0, <1>4, CompletedTypes DEF Completing, Completes
  <2>2. rows'[id] = CompletedRow(h) /\ \A e \in Executions \ {id} : rows'[e] = rows[e]
    BY <1>0, <1>4, <2>1, OneRowMoves DEF Completing
  <2>3. IsCompleted(id, h)
    BY <1>4, <2>1, <2>2 DEF IsCompleted, Completing
  <2>4. rows'[id].attempt = rows[id].attempt /\ rows'[id].status # "RUNNING"
    BY <1>0, <2>1, <2>3, CompletedFacts
  <2>5. rows[id].attempt = jobs[h].attempt /\ jobs[h].attempt \in Nat
    BY <2>1, HolderKnowsAttempt
  <2>6. ASSUME NEW event \in outbox, event.kind = "retry"
        PROVE  Past(event, rows'[event.execution])
    BY <1>2, <2>2, <2>4, <2>6
  <2>7. ASSUME NEW event \in RetryEvents(h) PROVE Past(event, rows'[event.execution])
    BY <2>4, <2>5, <2>7 DEF RetryEvents, RetryEvent
  <2> QED BY <1>4, <2>6, <2>7 DEF Completing, RetryEventsArePast
<1>5. ASSUME NEW r \in Reconcilers, NEW batch \in SUBSET Executions, Recovering(r, batch)
      PROVE  RetryEventsArePast'
  <2>1. scans[r] \in Time
    BY <1>0, <1>5 DEF Recovering, TypeInv, TypeOK
  <2>2. ASSUME NEW e \in Executions
        PROVE  /\ rows'[e].attempt = rows[e].attempt
               /\ rows'[e].status = "RUNNING" => rows[e].status = "RUNNING"
    <3>1. CASE e \in batch /\ rows[e].status = "RUNNING"
      BY <1>0, <1>5, <2>1, <3>1, RecoveredRowFacts DEF Recovering
    <3>2. CASE e \in batch /\ rows[e].status # "RUNNING"
      <4>1. rows'[e] = [rows[e] EXCEPT !.last_enqueued_at = scans[r]]
        BY <1>0, <1>5, <2>1, <3>2, RecoveredRowFacts DEF Recovering
      <4> QED BY <1>0, <3>2, <4>1 DEF Row
    <3>3. CASE e \notin batch
      BY <1>5, <3>3 DEF Recovering
    <3> QED BY <3>1, <3>2, <3>3
  <2>3. \A event \in RecoveryEvents(batch, scans[r]) : event.kind # "retry"
    BY DEF RecoveryEvents, RecoveryEvent
  <2> QED BY <1>2, <1>5, <2>2, <2>3 DEF Recovering, RetryEventsArePast
<1>6. CASE CleanupStep
  <2>1. PICK events \in SUBSET outbox, ids \in SUBSET Executions : Cleanup(events, ids)
    BY <1>6 DEF CleanupStep
  <2>2. /\ outbox' = outbox \ events
        /\ \A e \in ids : \A event \in outbox' : event.execution # e
        /\ \A e \in Executions \ ids : rows'[e] = rows[e]
    BY <2>1 DEF Cleanup
  <2> QED BY <1>2, <2>2 DEF RetryEventsArePast
<1> QED BY <1>1, <1>3, <1>4, <1>5, <1>6 DEF DatabaseMoves

\* A row that begins to wait, or waits on, is announced by an event available
\* when it was enqueued.
LEMMA KeepsAnnounced ==
    ASSUME IInv, [Next]_vars PROVE RetryWaitEnqueued' /\ RetryWaitIsAnnounced'
<1> DEFINE Good(e) ==
      /\ rows'[e].last_enqueued_at \in Time
      /\ rows'[e].last_enqueued_at >= now' - OutboxRetention =>
           \E event \in outbox' : /\ event.execution = e
                                  /\ event.available_at = rows'[e].last_enqueued_at
<1>0. /\ TypeInv /\ RetryWaitEnqueued /\ RetryWaitIsAnnounced
      /\ rows \in [Executions -> Row] /\ now \in Time
      /\ OutboxRetention \in Nat
  BY WorkerConstants DEF IInv, Announcing, TypeInv, TypeOK
<1>1. now' \in Time /\ now <= now'
  BY <1>0, ClockMoves
<1>2. ASSUME NEW e \in Executions, rows'[e].status = "RETRY_WAIT"
      PROVE  Good(e)
  <2>1. ASSUME rows'[e] = rows[e], outbox \subseteq outbox'
        PROVE  Good(e)
    <3>1. rows[e].last_enqueued_at \in Time
      BY <1>0, <1>2, <2>1 DEF RetryWaitEnqueued
    <3>2. rows[e].last_enqueued_at >= now' - OutboxRetention =>
            rows[e].last_enqueued_at >= now - OutboxRetention
      BY <1>0, <1>1, <3>1 DEF Time
    <3> QED BY <1>0, <1>2, <2>1, <3>1, <3>2 DEF RetryWaitIsAnnounced
  <2>2. CASE Quiet
    <3>1. ASSUME NEW h \in Handlers, IsClaimed(e, h) PROVE FALSE
      BY <1>0, <1>2, <3>1, ClaimedFacts
    <3>2. ASSUME NEW h \in Handlers, IsRenewed(e, h) PROVE FALSE
      BY <1>0, <1>2, <3>2, RenewedFacts
    <3> QED BY <2>1, <2>2, <3>1, <3>2 DEF Quiet
  <2>3. ASSUME NEW h \in Handlers, Completing(h)
        PROVE  Good(e)
    <3>1. /\ jobs[h].pc = "finish" /\ jobs[h].execution \in Executions
          /\ CompletedRow(h) \in Row
      BY <1>0, <2>3, CompletedTypes DEF Completing
    <3>2. /\ rows'[jobs[h].execution] = CompletedRow(h)
          /\ \A f \in Executions \ {jobs[h].execution} : rows'[f] = rows[f]
      BY <1>0, <2>3, <3>1, OneRowMoves DEF Completing
    <3>3. CASE jobs[h].execution # e
      BY <2>1, <2>3, <3>2, <3>3 DEF Completing
    <3>4. CASE jobs[h].execution = e
      <4>1. IsCompleted(e, h)
        BY <2>3, <3>1, <3>2, <3>4 DEF IsCompleted, Completing, Completes
      <4>2. Retries(h) /\ rows'[e].last_enqueued_at = RetryAt(h) /\ RetryAt(h) \in Time
        BY <1>0, <1>2, <4>1, CompletedFacts
      <4>3. RetryEvent(e, jobs[h].attempt, RetryAt(h)) \in outbox'
        BY <2>3, <3>4, <4>2 DEF Completing, RetryEvents
      <4>4. /\ RetryEvent(e, jobs[h].attempt, RetryAt(h)).execution = e
            /\ RetryEvent(e, jobs[h].attempt, RetryAt(h)).available_at = RetryAt(h)
        BY DEF RetryEvent
      <4> QED BY <4>2, <4>3, <4>4
    <3> QED BY <3>3, <3>4
  <2>4. ASSUME NEW r \in Reconcilers, NEW batch \in SUBSET Executions,
               Recovering(r, batch)
        PROVE  Good(e)
    <3>1. scans[r] \in Time /\ rows[e] \in Row
      BY <1>0, <2>4 DEF Recovering, TypeInv, TypeOK
    <3>2. CASE e \notin batch
      BY <2>1, <2>4, <3>2 DEF Recovering
    <3>3. CASE e \in batch
      <4>1. rows'[e] = RecoveredRow(rows[e], scans[r])
        BY <2>4, <3>3 DEF Recovering
      <4>2. ~Exhausted(rows[e]) /\ rows'[e].last_enqueued_at = scans[r]
        <5>1. CASE rows[e].status = "RUNNING"
          <6>1. rows[e].attempt \in Nat /\ MaxAttempts \in Nat
            BY <3>1, RowConstants DEF Row
          <6>2. rows[e].attempt < MaxAttempts
            BY <1>2, <3>1, <4>1, <5>1, <6>1, RecoveredRowFacts
          <6> QED BY <3>1, <4>1, <5>1, <6>1, <6>2, RecoveredRowFacts DEF Exhausted
        <5>2. CASE rows[e].status # "RUNNING"
          <6>1. rows'[e] = [rows[e] EXCEPT !.last_enqueued_at = scans[r]]
            BY <3>1, <4>1, <5>2, RecoveredRowFacts
          <6> QED BY <3>1, <5>2, <6>1 DEF Row, Exhausted
        <5> QED BY <5>1, <5>2
      <4>3. RecoveryEvent(e, scans[r]) \in outbox'
        BY <2>4, <3>3, <4>2 DEF Recovering, RecoveryEvents
      <4>4. /\ RecoveryEvent(e, scans[r]).execution = e
            /\ RecoveryEvent(e, scans[r]).available_at = scans[r]
        BY DEF RecoveryEvent
      <4> QED BY <3>1, <4>2, <4>3, <4>4
    <3> QED BY <3>2, <3>3
  <2>5. CASE CleanupStep
    <3>1. PICK events \in SUBSET outbox, ids \in SUBSET Executions : Cleanup(events, ids)
      BY <2>5 DEF CleanupStep
    <3>2. /\ rows'[e] = IF e \in ids THEN AbsentRow ELSE rows[e]
          /\ outbox' = outbox \ events /\ now' = now
          /\ \A event \in events : event.available_at < now - OutboxRetention
      BY <3>1 DEF Cleanup
    <3>3. rows'[e] = rows[e]
      BY <1>2, <3>2 DEF AbsentRow, PendingRow
    <3>4. rows[e].last_enqueued_at \in Time
      BY <1>0, <1>2, <3>3 DEF RetryWaitEnqueued
    <3>5. ASSUME rows[e].last_enqueued_at >= now - OutboxRetention
          PROVE  \E event \in outbox' :
                   event.execution = e /\ event.available_at = rows[e].last_enqueued_at
      <4>1. PICK event \in outbox :
                 event.execution = e /\ event.available_at = rows[e].last_enqueued_at
        BY <1>0, <1>2, <3>3, <3>5 DEF RetryWaitIsAnnounced
      <4>2. event \notin events
        BY <1>0, <3>2, <3>4, <3>5, <4>1 DEF Time
      <4> QED BY <3>2, <4>1, <4>2
    <3> QED BY <3>2, <3>3, <3>4, <3>5
  <2> QED BY <1>0, <2>2, <2>3, <2>4, <2>5, AllWrites DEF DatabaseMoves
<1> QED BY <1>2 DEF RetryWaitEnqueued, RetryWaitIsAnnounced

\* The invariant is inductive.
LEMMA NextInv == IInv /\ [Next]_vars => IInv'
BY NextTypes, KeepsSamples, KeepsColumns, KeepsTokens, KeepsFences,
   KeepsRetryEvents, KeepsAnnounced
   DEF IInv, Fencing, Announcing

\* The inductive invariant holds in every state the system can reach.
LEMMA Invariance == Spec => []IInv
<1>1. Init => IInv
  BY InitInv
<1>2. IInv /\ [Next]_vars => IInv'
  BY NextInv
<1> QED BY <1>1, <1>2, PTL DEF Spec
-----------------------------------------------------------------------------
(* The invariants of Worker *)

\* The columns of every row agree with its status, so the WHERE clauses of
\* Claim, RecoverBatch and Cleanup miss none.
THEOREM ColumnsAgree == Spec => []ColumnsFollowStatus
<1>1. IInv => ColumnsFollowStatus
  BY DEF IInv, Fencing
<1> QED BY <1>1, Invariance, PTL

\* Fencing: a row that carries a handler's token is that handler's run.
THEOREM TokenFencing == Spec => []RunTokenFences
<1>1. IInv => RunTokenFences
  BY DEF IInv, Fencing
<1> QED BY <1>1, Invariance, PTL

\* Of all handlers at work on an execution at most one can persist a result.
THEOREM SingleWinner == Spec => []OneResultWins
<1>1. IInv => OneResultWins
  <2> SUFFICES ASSUME IInv, NEW h \in Handlers, NEW g \in Handlers,
                      jobs[h].execution # Null, jobs[h].execution = jobs[g].execution,
                      Holds(h), Holds(g)
               PROVE  h = g
    BY DEF OneResultWins
  <2>1. jobs[h].execution \in Executions
    BY DEF IInv, TypeInv, TypeOK, Job
  <2>2. /\ rows[jobs[h].execution].status = "RUNNING"
        /\ rows[jobs[h].execution].run_token = jobs[h].token
        /\ rows[jobs[h].execution].run_token = jobs[g].token
    BY DEF Holds, HeldBy
  <2>3. jobs[h].token # Null
    BY <2>1, <2>2 DEF IInv, Fencing, ColumnsFollowStatus
  <2> QED BY <2>2, <2>3 DEF IInv, Fencing, TokensApart
<1> QED BY <1>1, Invariance, PTL

\* The insert of a retry event never meets the unique key of outbox_events.
THEOREM RetryInsertSucceeds == Spec => []RetryEventIsNew
<1>1. IInv => RetryEventIsNew
  <2> SUFFICES ASSUME IInv, NEW h \in Handlers, jobs[h].pc = "finish", Holds(h),
                      NEW event \in RetryEvents(h), NEW other \in outbox,
                      SameId(event, other)
               PROVE  FALSE
    BY DEF RetryEventIsNew, Collides
  <2>1. /\ rows[jobs[h].execution].status = "RUNNING"
        /\ rows[jobs[h].execution].attempt = jobs[h].attempt
        /\ jobs[h].attempt \in Nat
    BY HolderKnowsAttempt
  <2>2. /\ other.kind = "retry" /\ other.execution = jobs[h].execution
        /\ other.seq = jobs[h].attempt
    BY DEF RetryEvents, RetryEvent, SameId
  <2> QED BY <2>1, <2>2 DEF IInv, Announcing, RetryEventsArePast
<1> QED BY <1>1, Invariance, PTL

\* A waiting row has an event in the outbox until the retention is over.
THEOREM WaitingIsAnnounced == Spec => []RetryWaitIsAnnounced
<1>1. IInv => RetryWaitIsAnnounced
  BY DEF IInv, Announcing
<1> QED BY <1>1, Invariance, PTL
-----------------------------------------------------------------------------
(* What a step may do *)

\* Every way a step takes a running row's token away is one RunEnds allows.
LEMMA StepEndsRun ==
    ASSUME IInv, [Next]_vars, NEW e \in Executions,
           rows[e].status = "RUNNING", rows'[e].run_token # rows[e].run_token
    PROVE  RunEnds(e)
<1>0. /\ TypeInv /\ rows[e] \in Row /\ rows[e].lease_until \in Time
      /\ rows[e].attempt \in Nat /\ MaxAttempts \in Nat /\ now \in Time
  BY RowConstants
     DEF IInv, Fencing, ColumnsFollowStatus, TypeInv, TypeOK, Row
<1>1. ASSUME NEW h \in Handlers, IsClaimed(e, h) PROVE RunEnds(e)
  <2>1. jobs[h].at \in Time /\ rows[e].lease_until < jobs[h].at
    BY <1>0, <1>1, ClaimedFacts DEF IsClaimed, Claimable, Before
  <2>2. jobs[h].at <= now
    BY <2>1, NullAssumption DEF IInv, NoFutureSamples, Time
  <2>3. rows[e].lease_until < now
    BY <1>0, <2>1, <2>2 DEF Time
  <2> QED BY <1>0, <1>1, <2>3, ClaimedFacts DEF RunEnds
<1>2. ASSUME NEW h \in Handlers, IsRenewed(e, h) PROVE FALSE
  BY <1>0, <1>2, RenewedFacts
<1>3. ASSUME NEW h \in Handlers, IsCompleted(e, h) PROVE RunEnds(e)
  <2>1. /\ jobs[h].pc = "finish" /\ jobs'[h].pc # "finish"
        /\ jobs[h].token = rows[e].run_token
        /\ jobs[h].attempt = rows[e].attempt
        /\ rows'[e].attempt = rows[e].attempt
    BY <1>0, <1>3, HolderKnowsAttempt, CompletedFacts DEF IsCompleted
  <2>2. rows'[e].status = IF jobs[h].outcome = "ok" THEN "SUCCESS"
                          ELSE IF jobs[h].outcome = "retryable"
                                  /\ rows[e].attempt < MaxAttempts
                          THEN "RETRY_WAIT" ELSE "FAILED"
    BY <1>0, <1>3, <2>1, CompletedFacts DEF Retries, RetryScheduled
  <2> QED BY <2>1, <2>2 DEF RunEnds
<1>4. ASSUME NEW r \in Reconcilers, IsRecovered(e, r) PROVE RunEnds(e)
  <2>1. /\ scans[r] \in Time /\ rows[e].lease_until < scans[r]
        /\ rows'[e] = RecoveredRow(rows[e], scans[r])
    BY <1>4 DEF IsRecovered, Recoverable, Before
  <2>2. scans[r] <= now
    BY <2>1, NullAssumption DEF IInv, NoFutureSamples, Time
  <2>3. rows[e].lease_until < now
    BY <1>0, <2>1, <2>2 DEF Time
  <2>4. \/ rows[e].attempt < MaxAttempts /\ rows'[e].status = "RETRY_WAIT"
        \/ rows[e].attempt >= MaxAttempts /\ rows'[e].status = "FAILED"
    <3> DEFINE new == RecoveredRow(rows[e], scans[r])
    <3>1. /\ rows[e].attempt >= MaxAttempts => new.status = "FAILED"
          /\ rows[e].attempt < MaxAttempts => new.status = "RETRY_WAIT"
      <4>1. rows[e] \in Row /\ scans[r] \in Time
        BY <1>0, <2>1
      <4> QED BY <1>0, <4>1, RecoveredRowFacts
    <3>2. rows[e].attempt < MaxAttempts \/ rows[e].attempt >= MaxAttempts
      BY <1>0, RowConstants DEF Row
    <3>3. rows'[e].status = new.status
      BY <2>1
    <3> HIDE DEF new
    <3> QED BY <3>1, <3>2, <3>3
  <2> QED BY <2>3, <2>4 DEF RunEnds
<1>5. ~IsPurged(e)
  BY DEF IsPurged, IsTerminal, Terminal
<1> QED BY <1>0, <1>1, <1>2, <1>3, <1>4, <1>5, RowMoves

\* A run ends only as RunEnds says: by its own handler, or after its lease.
THEOREM RunsEnd == Spec => RunsEndProperly
<1>1. IInv /\ [Next]_vars =>
        [\A e \in Executions :
           rows[e].status = "RUNNING" /\ rows'[e].run_token # rows[e].run_token
           => RunEnds(e)]_vars
  BY StepEndsRun
<1> QED BY <1>1, Invariance, PTL DEF Spec, RunsEndProperly

\* A waiting row is left only by a claim that is due, and due by the clock.
THEOREM BackoffKept == Spec => BackoffIsKept
<1>1. ASSUME IInv, [Next]_vars, NEW e \in Executions,
             rows[e].status = "RETRY_WAIT", rows'[e].status # "RETRY_WAIT"
      PROVE  rows'[e].status = "RUNNING" /\ rows[e].next_attempt_at <= now
  <2>0. TypeInv /\ rows[e] \in Row /\ now \in Time
    BY <1>1 DEF IInv, TypeInv, TypeOK
  <2>1. ASSUME NEW h \in Handlers, IsClaimed(e, h)
        PROVE  rows'[e].status = "RUNNING" /\ rows[e].next_attempt_at <= now
    <3>1. /\ jobs[h].at \in Time /\ rows'[e].status = "RUNNING"
          /\ rows[e].next_attempt_at # Null /\ rows[e].next_attempt_at <= jobs[h].at
      BY <1>1, <2>0, <2>1, ClaimedFacts DEF IsClaimed, Claimable, NotAfter
    <3>2. jobs[h].at <= now
      BY <1>1, <3>1, NullAssumption DEF IInv, NoFutureSamples, Time
    <3>3. rows[e].next_attempt_at \in Time
      BY <2>0, <3>1 DEF Row
    <3> QED BY <2>0, <3>1, <3>2, <3>3 DEF Time
  <2>2. ASSUME NEW h \in Handlers, IsRenewed(e, h) \/ IsCompleted(e, h) PROVE FALSE
    BY <1>1, <2>0, <2>2, RenewedFacts, CompletedFacts
  <2>3. ASSUME NEW r \in Reconcilers, IsRecovered(e, r) PROVE FALSE
    <3>1. rows'[e] = [rows[e] EXCEPT !.last_enqueued_at = scans[r]]
      BY <1>1, <2>0, <2>3, RecoveredRowFacts DEF IsRecovered
    <3> QED BY <1>1, <2>0, <3>1 DEF Row
  <2>4. ~IsPurged(e)
    BY <1>1 DEF IsPurged, IsTerminal, Terminal
  <2> QED BY <1>1, <2>0, <2>1, <2>2, <2>3, <2>4, RowMoves
<1>2. IInv /\ [Next]_vars =>
        [\A e \in Executions :
           rows[e].status = "RETRY_WAIT" /\ rows'[e].status # "RETRY_WAIT"
           => ClaimsWhenDue(e)]_vars
  BY <1>1 DEF ClaimsWhenDue
<1> QED BY <1>2, Invariance, PTL DEF Spec, BackoffIsKept
-----------------------------------------------------------------------------
(* Refinement *)

Moves(s, n, t, m) ==
    \/ s \in {"PENDING", "RETRY_WAIT", "RUNNING"} /\ t = "RUNNING" /\ m = n + 1
    \/ s = "RUNNING" /\ t \in {"SUCCESS", "FAILED"} /\ m = n
    \/ s = "RUNNING" /\ n < MaxAttempts /\ t = "RETRY_WAIT" /\ m = n
    \/ s \in Terminal /\ t = "ABSENT" /\ m = 0
    \/ t = s /\ m = n

\* Status and attempt of one row make a move of the abstract machine.
LEMMA RowMakesMove ==
    ASSUME IInv, [Next]_vars, NEW e \in Executions
    PROVE  Moves(rows[e].status, rows[e].attempt, rows'[e].status, rows'[e].attempt)
<1>0. /\ TypeInv /\ rows[e] \in Row /\ rows[e].attempt \in Nat
      /\ MaxAttempts \in Nat
  BY RowConstants DEF IInv, TypeInv, TypeOK, Row
<1> DEFINE Goal == Moves(rows[e].status, rows[e].attempt,
                         rows'[e].status, rows'[e].attempt)
<1>1. ASSUME NEW h \in Handlers, IsClaimed(e, h) PROVE Goal
  <2>1. rows[e].status \in {"PENDING", "RETRY_WAIT", "RUNNING"}
    BY <1>1 DEF IsClaimed, Claimable
  <2> QED BY <1>0, <1>1, <2>1, ClaimedFacts DEF Moves
<1>2. ASSUME NEW h \in Handlers, IsRenewed(e, h) PROVE Goal
  BY <1>0, <1>2, RenewedFacts DEF Moves
<1>3. ASSUME NEW h \in Handlers, IsCompleted(e, h) PROVE Goal
  <2>1. Retries(h) => rows[e].attempt < MaxAttempts
    BY <1>3, HolderKnowsAttempt DEF IsCompleted, Retries, RetryScheduled
  <2> QED BY <1>0, <1>3, <2>1, CompletedFacts DEF Moves
<1>4. ASSUME NEW r \in Reconcilers, IsRecovered(e, r) PROVE Goal
  <2>1. scans[r] \in Time /\ rows'[e] = RecoveredRow(rows[e], scans[r])
    BY <1>4 DEF IsRecovered
  <2>2. CASE rows[e].status # "RUNNING"
    <3>1. rows'[e] = [rows[e] EXCEPT !.last_enqueued_at = scans[r]]
      BY <1>0, <2>1, <2>2, RecoveredRowFacts
    <3>2. rows'[e].status = rows[e].status /\ rows'[e].attempt = rows[e].attempt
      BY <1>0, <3>1 DEF Row
    <3> QED BY <3>2 DEF Moves
  <2>3. CASE rows[e].status = "RUNNING" /\ rows[e].attempt < MaxAttempts
    BY <1>0, <2>1, <2>3, RecoveredRowFacts DEF Moves
  <2>4. CASE rows[e].status = "RUNNING" /\ rows[e].attempt >= MaxAttempts
    BY <1>0, <2>1, <2>4, RecoveredRowFacts DEF Moves
  <2> QED BY <1>0, <2>2, <2>3, <2>4
<1>5. CASE IsPurged(e)
  BY <1>5, PurgedFacts DEF IsPurged, IsTerminal, Moves
<1>6. CASE rows'[e] = rows[e]
  BY <1>6 DEF Moves
<1> QED BY <1>0, <1>1, <1>2, <1>3, <1>4, <1>5, <1>6, RowMoves

\* Workers, reconcilers and cleanup together implement the status machine:
\* terminal executions stay as they are, attempts are counted, and a run goes
\* back to wait only with attempts left.
THEOREM Refinement == Spec => LifecycleSpec
<1>1. Init => Lifecycle!Init
  BY DEF Init, PendingRow, Lifecycle!Init
<1>2. ASSUME IInv, [Next]_vars PROVE Lifecycle!Next
  <2> SUFFICES ASSUME NEW e \in Executions PROVE Lifecycle!Move(e) \/ Lifecycle!Stay(e)
    BY DEF Lifecycle!Next
  <2> QED
    BY <1>2, RowMakesMove
       DEF Moves, Terminal, Lifecycle!Move, Lifecycle!Stay, Lifecycle!Start,
           Lifecycle!Succeed, Lifecycle!Retry, Lifecycle!Fail, Lifecycle!Purge,
           Lifecycle!Becomes, Lifecycle!Terminal
<1>3. IInv /\ [Next]_vars => [Lifecycle!Next]_(Lifecycle!vars)
  BY <1>2
<1> QED BY <1>1, <1>3, Invariance, PTL DEF Spec, LifecycleSpec, Lifecycle!Spec
-----------------------------------------------------------------------------
(* What is acknowledged *)

\* A handler comes to acknowledge the message of an execution with a row that
\* its SELECT, or the result it has just written, shows to have run.
LEMMA EntersAck ==
    ASSUME TypeInv, [Next]_vars, NEW h \in Handlers,
           jobs'[h].pc = "ack", jobs'[h].execution # Null
    PROVE  /\ jobs'[h].execution = jobs[h].execution
           /\ \/ jobs[h].pc = "ack"
              \/ rows'[jobs[h].execution].status # "PENDING"
<1> DEFINE e    == jobs[h].execution
           Goal == /\ jobs'[h].execution = e
                   /\ jobs[h].pc = "ack" \/ rows'[e].status # "PENDING"
<1>0. jobs \in [Handlers -> Job] /\ jobs[h] \in Job /\ jobs' \in [Handlers -> Job]
  BY AllMoves DEF TypeInv, TypeOK
<1>1. CASE jobs'[h] = jobs[h]
  BY <1>1
<1>2. ASSUME SetJob(h, IdleJob) PROVE FALSE
  BY <1>0, <1>2, IdleJobFacts DEF SetJob
<1>3. CASE ReceiveMalformed(h)
  <2>1. jobs[h] = IdleJob
    BY <1>3 DEF ReceiveMalformed, TypeInv, JobShape
  <2>2. jobs'[h].execution = Null
    BY <1>0, <1>3, <2>1, IdleJobFacts DEF ReceiveMalformed, SetJob, Job
  <2> QED BY <2>2
<1>4. CASE ClaimRead(h)
  <2>1. CASE /\ rows[e].status = "ABSENT" \/ Settled(rows[e])
             /\ SetJob(h, [jobs[h] EXCEPT !.pc = "ack"])
    <3>1. rows'[e].status # "PENDING"
      BY <1>4, <2>1 DEF ClaimRead, Settled, IsTerminal, Terminal
    <3> QED BY <1>0, <2>1, <3>1 DEF SetJob, Job
  <2>2. CASE \/ SetJob(h, [jobs[h] EXCEPT !.pc = "callback", !.attempt = rows[e].attempt])
             \/ SetJob(h, [jobs[h] EXCEPT !.pc = "finish", !.attempt = rows[e].attempt,
                                          !.outcome = "fatal", !.at = now])
    <3>1. jobs'[h].pc \in {"callback", "finish"}
      <4>1. ASSUME NEW job, SetJob(h, job) PROVE jobs'[h] = job
        BY <1>0, <4>1 DEF SetJob
      <4>2. CASE SetJob(h, [jobs[h] EXCEPT !.pc = "callback",
                                           !.attempt = rows[e].attempt])
        BY <1>0, <4>1, <4>2 DEF Job
      <4>3. CASE SetJob(h, [jobs[h] EXCEPT !.pc = "finish", !.attempt = rows[e].attempt,
                                           !.outcome = "fatal", !.at = now])
        BY <1>0, <4>1, <4>3 DEF Job
      <4> QED BY <2>2, <4>2, <4>3
    <3> QED BY <3>1
  <2> QED BY <1>2, <1>4, <2>1, <2>2 DEF ClaimRead
<1>5. CASE Complete(h)
  <2>1. CASE Completes(h)
    <3>1. /\ e \in Executions /\ CompletedRow(h) \in Row
          /\ rows' = [rows EXCEPT ![e] = CompletedRow(h)]
          /\ jobs' = [jobs EXCEPT ![h].pc = "ack"]
      BY <1>5, <2>1, CompletedTypes DEF Complete, CompleteEffect, SetJob
    <3>2. rows'[e] = CompletedRow(h) /\ jobs'[h].execution = e
      BY <1>0, <3>1, OneRowMoves DEF Job
    <3>3. IsCompleted(e, h)
      BY <1>5, <2>1, <3>2 DEF Complete, Completes, IsCompleted
    <3>4. rows'[e].status # "PENDING"
      BY <3>1, <3>3, CompletedFacts
    <3> QED BY <3>2, <3>4
  <2>2. CASE ~Completes(h)
    BY <1>2, <1>5, <2>2 DEF Complete
  <2> QED BY <2>1, <2>2
<1>6. ASSUME NEW id \in Executions, NEW token \in RunTokens, Receive(h, id, token)
      PROVE  FALSE
  BY <1>0, <1>6 DEF Receive, SetJob, IdleJob
<1>7. CASE ClaimUpdate(h) \/ Join(h)
  <2>1. CASE ClaimUpdate(h)
    BY <1>0, <2>1 DEF ClaimUpdate, SetJob, Job
  <2>2. CASE Join(h)
    BY <1>0, <1>2, <2>2 DEF Join, SetJob, Job
  <2> QED BY <1>7, <2>1, <2>2
<1>8. ASSUME NEW outcome \in Outcomes, CallbackReturn(h, outcome)
      PROVE  FALSE
  BY <1>0, <1>8 DEF CallbackReturn, SetJob, Job
<1>9. CASE HeartbeatTick(h) \/ Heartbeat(h) \/ HeartbeatError(h)
  <2>1. jobs'[h].pc = jobs[h].pc /\ jobs'[h].execution = e
    <3>1. CASE HeartbeatTick(h)
      BY <1>0, <3>1 DEF HeartbeatTick, SetJob, Job
    <3>2. CASE Heartbeat(h)
      BY <1>0, <3>2 DEF Heartbeat, SetJob, Job
    <3>3. CASE HeartbeatError(h)
      BY <1>0, <3>3 DEF HeartbeatError, SetJob, Job
    <3> QED BY <1>9, <3>1, <3>2, <3>3
  <2> QED BY <2>1
<1>10. CASE ClaimError(h) \/ ReadError(h) \/ CompleteError(h) \/ Ack(h)
  BY <1>2, <1>10 DEF ClaimError, ReadError, CompleteError, Ack
<1>11. CASE HandlerStep(h)
  BY <1>3, <1>4, <1>5, <1>6, <1>7, <1>8, <1>9, <1>10, <1>11 DEF HandlerStep
<1>12. ASSUME NEW g \in Handlers \ {h}, HandlerStep(g) PROVE jobs'[h] = jobs[h]
  BY <1>0, <1>12
     DEF HandlerStep, SetJob, Receive, ReceiveMalformed, ClaimUpdate, ClaimError,
         ClaimRead, ReadError, CallbackReturn, HeartbeatTick, Heartbeat,
         HeartbeatError, Join, Complete, CompleteError, Ack
<1>13. ASSUME NEW w \in Workers, Crash(w) PROVE jobs'[h] = jobs[h]
  BY <1>0, <1>13, IdleJobFacts DEF Crash
<1>14. CASE UNCHANGED jobs
  BY <1>1, <1>14
<1> QED
  BY <1>1, <1>11, <1>12, <1>13, <1>14
     DEF Next, vars, Tick, ReconcilerStep, ScanStart, RecoverBatch, RecoverError,
         CleanupStep, Cleanup

\* No message of an execution that never ran is acknowledged, whatever clocks,
\* failed claims and restarts there are: once a row has left PENDING it does
\* not come back to it.
THEOREM AckedAfterRun == Spec => []AckedHasRun
<1>1. Init => AckedHasRun
  BY IdleJobFacts DEF Init, AckedHasRun
<1>2. ASSUME IInv, AckedHasRun, [Next]_vars PROVE AckedHasRun'
  <2> SUFFICES ASSUME NEW h \in Handlers, jobs'[h].pc = "ack", jobs'[h].execution # Null
               PROVE  rows'[jobs'[h].execution].status # "PENDING"
    BY DEF AckedHasRun
  <2>1. TypeInv /\ jobs[h] \in Job
    BY <1>2 DEF IInv, TypeInv, TypeOK
  <2>2. /\ jobs'[h].execution = jobs[h].execution
        /\ jobs[h].pc = "ack" \/ rows'[jobs[h].execution].status # "PENDING"
    BY <1>2, <2>1, EntersAck
  <2>3. jobs[h].execution \in Executions
    BY <2>1, <2>2 DEF Job
  <2>4. rows[jobs[h].execution].status # "PENDING" =>
          rows'[jobs[h].execution].status # "PENDING"
    BY <1>2, <2>3, RowMakesMove DEF Moves
  <2> QED BY <1>2, <2>2, <2>4 DEF AckedHasRun
<1> QED BY <1>1, <1>2, Invariance, PTL DEF Spec
=============================================================================
