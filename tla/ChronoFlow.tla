----------------------------- MODULE ChronoFlow -----------------------------
(***************************************************************************)
(* The way of an execution through the whole system: scheduler, outbox,    *)
(* dispatcher, Stream, consumer group, worker, and back through retries    *)
(* and the reconciler.  Scheduler.tla, Outbox.tla, ConsumerGroup.tla and   *)
(* Worker.tla model each part in detail and against its clock; this module *)
(* puts together what they hand to each other, so that what no part can    *)
(* promise alone can be checked: every execution comes to an end.          *)
(*                                                                         *)
(* Time is reduced to what has come due.  A waiting row becomes due, then  *)
(* stale; a lease runs out; a pending message becomes idle: each is a flag *)
(* that time raises at any moment.  Whatever a process does not finish (it *)
(* dies, a statement or an answer is lost, its lease was lost, a result    *)
(* does not fit its column) is GiveUp.                                     *)
(***************************************************************************)
EXTENDS Naturals

CONSTANTS
    Executions,
    Handlers,      \* the goroutines of all worker pools
    Messages,      \* bound: places for messages in the Stream
    Null,
    Gone,          \* the holder of a run whose handler has given it up
    MaxAttempts,
    MaxEvents,     \* bound: the reconciler adds no event to so many unpublished
    Deployments    \* the kinds of deployment to look at

\* recovery: recovery.enabled; skew: clocks of processes differ, by less than a
\* lease; trims: messages are trimmed from the Stream before their time.
Deployment == [recovery : BOOLEAN, skew : BOOLEAN, trims : BOOLEAN]

ASSUME ChronoFlowConstants ==
    /\ MaxAttempts \in Nat \ {0}
    /\ MaxEvents \in Nat \ {0}
    /\ Deployments \subseteq Deployment
    /\ Null # Gone /\ {Null, Gone} \cap Handlers = {}
    /\ Null \notin Messages \cup Executions

VARIABLES
    rows,     \* timer_executions
    outbox,   \* per execution, its events that are not published yet
    stream,   \* the messages of the Stream, as the group sees them
    jobs,     \* what each handler is doing
    deployment

vars == <<rows, outbox, stream, jobs, deployment>>
-----------------------------------------------------------------------------
Waiting  == {"PENDING", "RETRY_WAIT"}
Terminal == {"SUCCESS", "FAILED"}

\* "NONE" is an occurrence not scheduled yet, "PURGED" one that Cleanup removed.
Row == [status : Waiting \cup Terminal \cup {"NONE", "RUNNING", "PURGED"},
        attempt : 0..MaxAttempts,                \* counted up to the maximum
        due : BOOLEAN,                           \* scheduled_at, next_attempt_at
        stale : BOOLEAN,                         \* last_enqueued_at
        expired : BOOLEAN,                       \* lease_until
        holder : Handlers \cup {Null, Gone}]     \* whose run_token it is

EmptyRow == [status |-> "NONE", attempt |-> 0, due |-> FALSE, stale |-> FALSE,
             expired |-> FALSE, holder |-> Null]

\* Events that may be sent now, those that must wait for their time, and those
\* that are sent and not marked as published.
Events == [ready : 0..(MaxEvents + MaxAttempts), later : 0..MaxAttempts,
           sent : 0..(MaxEvents + MaxAttempts)]

NoEvents == [ready |-> 0, later |-> 0, sent |-> 0]

Unpublished(e) == outbox[e].ready + outbox[e].later + outbox[e].sent

\* new: not delivered yet; pending: delivered and not acknowledged; idle: long
\* enough so to be reclaimed; free: acknowledged, trimmed or never used.
Message == [execution : Executions \cup {Null},
            state : {"free", "new", "pending", "idle"}]

FreeMessage == [execution |-> Null, state |-> "free"]

Job == [pc : {"idle", "claim", "read", "callback", "finish", "ack"},
        message : Messages \cup {Null},
        execution : Executions \cup {Null},
        claimed : BOOLEAN,
        outcome : {"ok", "retryable", "fatal", Null}]

IdleJob == [pc |-> "idle", message |-> Null, execution |-> Null,
            claimed |-> FALSE, outcome |-> Null]

TypeOK ==
    /\ rows \in [Executions -> Row]
    /\ outbox \in [Executions -> Events]
    /\ stream \in [Messages -> Message]
    /\ jobs \in [Handlers -> Job]
    /\ deployment \in Deployments

Init ==
    /\ rows = [e \in Executions |-> EmptyRow]
    /\ outbox = [e \in Executions |-> NoEvents]
    /\ stream = [m \in Messages |-> FreeMessage]
    /\ jobs = [h \in Handlers |-> IdleJob]
    /\ deployment \in Deployments
-----------------------------------------------------------------------------
(* Time *)

\* Mutant: an event that comes due is handed out, and kept for later as well.
ComesDueAgain(e) ==
    /\ (rows[e].status \in Waiting /\ ~rows[e].due) \/ outbox[e].later > 0
    /\ rows' = [rows EXCEPT ![e].due = rows[e].status \in Waiting]
    /\ outbox' = [outbox EXCEPT ![e].ready = @ + outbox[e].later]
    /\ UNCHANGED <<stream, jobs, deployment>>

\* The time comes that a waiting row and its event wait for.
ComesDue(e) ==
    /\ (rows[e].status \in Waiting /\ ~rows[e].due) \/ outbox[e].later > 0
    /\ rows' = [rows EXCEPT ![e].due = rows[e].status \in Waiting]
    /\ outbox' = [outbox EXCEPT ![e].ready = @ + outbox[e].later, ![e].later = 0]
    /\ UNCHANGED <<stream, jobs, deployment>>

GrowsStale(e) ==
    /\ rows[e].status \in Waiting /\ rows[e].due /\ ~rows[e].stale
    /\ rows' = [rows EXCEPT ![e].stale = TRUE]
    /\ UNCHANGED <<outbox, stream, jobs, deployment>>

\* No heartbeat came in time.
LeaseExpires(e) ==
    /\ rows[e].status = "RUNNING" /\ ~rows[e].expired
    /\ rows' = [rows EXCEPT ![e].expired = TRUE]
    /\ UNCHANGED <<outbox, stream, jobs, deployment>>

GrowsIdle(m) ==
    /\ stream[m].state = "pending"
    /\ stream' = [stream EXCEPT ![m].state = "idle"]
    /\ UNCHANGED <<rows, outbox, jobs, deployment>>

\* What a process may take a row for: if its clock is ahead, for due before
\* its time.
SeemsDue(row) == {row.due} \cup (IF deployment.skew THEN {TRUE} ELSE {})
-----------------------------------------------------------------------------
(* Scheduler, dispatcher, Stream *)

\* The scheduler inserts row and ready event in one transaction.
Schedule(e, due) ==
    /\ rows[e].status = "NONE"
    /\ due \/ deployment.skew
    /\ rows' = [rows EXCEPT ![e] = [EmptyRow EXCEPT !.status = "PENDING", !.due = due]]
    /\ outbox' = [outbox EXCEPT ![e] = IF due THEN [NoEvents EXCEPT !.ready = 1]
                                       ELSE [NoEvents EXCEPT !.later = 1]]
    /\ UNCHANGED <<stream, jobs, deployment>>

\* A place whose last message no handler works on any more.
Free(m) == stream[m].state = "free" /\ \A h \in Handlers : jobs[h].message # m

\* XADD; an event that must wait is sent early by a clock that is ahead.
Send(e) ==
    /\ \/ /\ outbox[e].ready > 0
          /\ outbox' = [outbox EXCEPT ![e].ready = @ - 1, ![e].sent = @ + 1]
       \/ /\ outbox[e].later > 0 /\ deployment.skew
          /\ outbox' = [outbox EXCEPT ![e].later = @ - 1, ![e].sent = @ + 1]
    /\ \E m \in Messages :
         /\ Free(m)
         /\ stream' = [stream EXCEPT ![m] = [execution |-> e, state |-> "new"]]
    /\ UNCHANGED <<rows, jobs, deployment>>

MarkPublished(e) ==
    /\ outbox[e].sent > 0
    /\ outbox' = [outbox EXCEPT ![e].sent = @ - 1]
    /\ UNCHANGED <<rows, stream, jobs, deployment>>

\* The dispatcher fails to mark it; when its claim is over the event is sent
\* again.
ClaimExpires(e) ==
    /\ outbox[e].sent > 0
    /\ outbox' = [outbox EXCEPT ![e].sent = @ - 1, ![e].ready = @ + 1]
    /\ UNCHANGED <<rows, stream, jobs, deployment>>

\* MAXLEN or the retention cleaner drops a message no handler may ever see.
Trim(m) ==
    /\ deployment.trims
    /\ stream[m].state # "free"
    /\ stream' = [stream EXCEPT ![m] = FreeMessage]
    /\ UNCHANGED <<rows, outbox, jobs, deployment>>
-----------------------------------------------------------------------------
(* Workers *)

\* XREADGROUP or XAUTOCLAIM, and Submit.
Deliver(h, m) ==
    /\ jobs[h] = IdleJob
    /\ stream[m].state \in {"new", "idle"}
    /\ stream' = [stream EXCEPT ![m].state = "pending"]
    /\ jobs' = [jobs EXCEPT ![h] = [IdleJob EXCEPT
                   !.pc = "claim", !.message = m, !.execution = stream[m].execution]]
    /\ UNCHANGED <<rows, outbox, deployment>>

\* The worker dies between reading a message and handing it to its pool.
DeliverLost(m) ==
    /\ stream[m].state \in {"new", "idle"}
    /\ stream' = [stream EXCEPT ![m].state = "pending"]
    /\ UNCHANGED <<rows, outbox, jobs, deployment>>

Claimable(row, due) ==
    \/ row.status \in Waiting /\ due
    \/ row.status = "RUNNING" /\ row.expired

ClaimedRow(row, h) ==
    [row EXCEPT !.status  = "RUNNING",
                !.attempt = IF @ < MaxAttempts THEN @ + 1 ELSE @,
                !.due     = FALSE,
                !.stale   = FALSE,
                !.expired = FALSE,
                !.holder  = h]

Claim(h) ==
    LET e == jobs[h].execution IN
    /\ jobs[h].pc = "claim"
    /\ \E due \in SeemsDue(rows[e]) :
         LET hit == Claimable(rows[e], due) IN
         /\ rows' = IF hit THEN [rows EXCEPT ![e] = ClaimedRow(@, h)] ELSE rows
         /\ jobs' = [jobs EXCEPT ![h].pc = "read", ![h].claimed = hit]
    /\ UNCHANGED <<outbox, stream, deployment>>

\* Mutant: leaves messages of ended executions pending.
SettledWaiting(row) == row.status = "RETRY_WAIT"

Settled(row) == row.status \in Terminal \cup {"RETRY_WAIT"}

\* Claim's SELECT, and what process makes of it.
ReadRow(h) ==
    LET row == rows[jobs[h].execution]
        To(pc) == jobs' = [jobs EXCEPT ![h].pc = pc]
    IN  /\ jobs[h].pc = "read"
        /\ \/ row.status = "PURGED" /\ To("ack")
           \/ row.status # "PURGED" /\ jobs[h].claimed /\ To("callback")
           \/ row.status # "PURGED" /\ ~jobs[h].claimed /\ Settled(row) /\ To("ack")
           \/ /\ row.status # "PURGED" /\ ~jobs[h].claimed /\ ~Settled(row)
              /\ jobs' = [jobs EXCEPT ![h] = IdleJob]
        /\ UNCHANGED <<rows, outbox, stream, deployment>>

CallbackReturn(h, outcome) ==
    /\ jobs[h].pc = "callback"
    /\ jobs' = [jobs EXCEPT ![h].pc = "finish", ![h].outcome = outcome]
    /\ UNCHANGED <<rows, outbox, stream, deployment>>

Heartbeat(h) ==
    LET e == jobs[h].execution IN
    /\ jobs[h].pc = "callback"
    /\ rows[e].holder = h /\ rows[e].expired
    /\ rows' = [rows EXCEPT ![e].expired = FALSE]
    /\ UNCHANGED <<outbox, stream, jobs, deployment>>

Retries(h) ==
    /\ jobs[h].outcome = "retryable"
    /\ rows[jobs[h].execution].attempt < MaxAttempts

EndedRow(row, status) ==
    [row EXCEPT !.status = status, !.due = FALSE, !.stale = FALSE,
                !.expired = FALSE, !.holder = Null]

\* Mutant: the retry is not announced.
CompleteUnannounced(h) ==
    LET e == jobs[h].execution IN
    /\ rows' = [rows EXCEPT ![e] = EndedRow(@, IF jobs[h].outcome = "ok" THEN "SUCCESS"
                                               ELSE IF Retries(h) THEN "RETRY_WAIT"
                                               ELSE "FAILED")]
    /\ UNCHANGED outbox

\* CompleteSuccess, CompleteFailure: one transaction for row and retry event.
CompleteEffect(h) ==
    LET e == jobs[h].execution IN
    /\ rows' = [rows EXCEPT ![e] = EndedRow(@, IF jobs[h].outcome = "ok" THEN "SUCCESS"
                                               ELSE IF Retries(h) THEN "RETRY_WAIT"
                                               ELSE "FAILED")]
    /\ outbox' = IF Retries(h) THEN [outbox EXCEPT ![e].later = @ + 1] ELSE outbox

\* A run that is not the handler's any more ends without a trace, the message
\* left pending.
Complete(h) ==
    /\ jobs[h].pc = "finish"
    /\ IF rows[jobs[h].execution].holder = h
       THEN CompleteEffect(h) /\ jobs' = [jobs EXCEPT ![h].pc = "ack"]
       ELSE UNCHANGED <<rows, outbox>> /\ jobs' = [jobs EXCEPT ![h] = IdleJob]
    /\ UNCHANGED <<stream, deployment>>

Ack(h) ==
    /\ jobs[h].pc = "ack"
    /\ stream' = [stream EXCEPT ![jobs[h].message] = FreeMessage]
    /\ jobs' = [jobs EXCEPT ![h] = IdleJob]
    /\ UNCHANGED <<rows, outbox, deployment>>

\* The message stays pending, and a run the handler has started stays RUNNING
\* under a token that no one has.
GiveUp(h) ==
    LET e == jobs[h].execution IN
    /\ jobs[h].pc # "idle"
    /\ jobs' = [jobs EXCEPT ![h] = IdleJob]
    /\ rows' = IF rows[e].holder = h THEN [rows EXCEPT ![e].holder = Gone] ELSE rows
    /\ UNCHANGED <<outbox, stream, deployment>>
-----------------------------------------------------------------------------
(* Reconciler and cleanup *)

\* Mutant: looks for waiting rows only.
RecoverableWaiting(row) ==
    row.status \in Waiting /\ TRUE \in SeemsDue(row) /\ row.stale

Recoverable(row) ==
    \/ row.status \in Waiting /\ TRUE \in SeemsDue(row) /\ row.stale
    \/ row.status = "RUNNING" /\ row.expired

\* A run without attempts left fails; any other row is announced again.
RecoveredRow(row) ==
    IF row.status = "RUNNING" /\ row.attempt >= MaxAttempts
    THEN EndedRow(row, "FAILED")
    ELSE IF row.status = "RUNNING"
    THEN [EndedRow(row, "RETRY_WAIT") EXCEPT !.due = TRUE]
    ELSE [row EXCEPT !.stale = FALSE]

Recover(e) ==
    LET row == RecoveredRow(rows[e]) IN
    /\ deployment.recovery
    /\ Recoverable(rows[e])
    /\ row.status # "FAILED" => Unpublished(e) < MaxEvents
    /\ rows' = [rows EXCEPT ![e] = row]
    /\ outbox' = IF row.status = "FAILED"
                 THEN outbox ELSE [outbox EXCEPT ![e].ready = @ + 1]
    /\ UNCHANGED <<stream, jobs, deployment>>

\* Cleanup deletes old terminal rows that have no event left.
Purge(e) ==
    /\ deployment.recovery
    /\ rows[e].status \in Terminal
    /\ outbox[e] = NoEvents
    /\ rows' = [rows EXCEPT ![e] = [EmptyRow EXCEPT !.status = "PURGED"]]
    /\ UNCHANGED <<outbox, stream, jobs, deployment>>
-----------------------------------------------------------------------------
\* The end of what a handler is at, one way or the other.
HandlerStep(h) ==
    \/ Claim(h) \/ ReadRow(h)
    \/ \E outcome \in {"ok", "retryable", "fatal"} : CallbackReturn(h, outcome)
    \/ Complete(h) \/ Ack(h) \/ GiveUp(h)

ExecutionStep(e) ==
    \/ \E due \in BOOLEAN : Schedule(e, due)
    \/ ComesDue(e) \/ GrowsStale(e) \/ LeaseExpires(e)
    \/ Send(e) \/ MarkPublished(e) \/ ClaimExpires(e)
    \/ Recover(e) \/ Purge(e)

MessageStep(m) == GrowsIdle(m) \/ Trim(m) \/ DeliverLost(m)

Next ==
    \/ \E e \in Executions : ExecutionStep(e)
    \/ \E h \in Handlers : HandlerStep(h) \/ Heartbeat(h)
    \/ \E h \in Handlers, m \in Messages : Deliver(h, m)
    \/ \E m \in Messages : MessageStep(m)

Spec == Init /\ [][Next]_vars

\* Time passes, and a lease nobody renews runs out.  A handler does not stay in
\* a step for ever.  MySQL and Redis are not down, processes do not die and
\* messages are not trimmed every single time: of the repeated chances to
\* send an event and to mark it, to deliver a message, to claim, to read and to
\* acknowledge with it, and to recover a row, one is taken.
Fairness ==
    /\ \A e \in Executions :
         /\ WF_vars(ComesDue(e)) /\ WF_vars(GrowsStale(e))
         /\ WF_vars(rows[e].holder = Gone /\ LeaseExpires(e))
         /\ SF_vars(Send(e)) /\ SF_vars(MarkPublished(e))
         /\ SF_vars(Recover(e))
    /\ \A h \in Handlers : WF_vars(HandlerStep(h))
    /\ \A m \in Messages :
         /\ WF_vars(GrowsIdle(m))
         /\ SF_vars(\E h \in Handlers : Deliver(h, m))
         /\ SF_vars(\E h \in Handlers : jobs[h].message = m /\ Claim(h))
         /\ SF_vars(\E h \in Handlers : jobs[h].message = m /\ ReadRow(h))
         /\ SF_vars(\E h \in Handlers : jobs[h].message = m /\ Ack(h))

FairSpec == Spec /\ Fairness
-----------------------------------------------------------------------------
(* Properties *)

Ended(e) == rows[e].status \in Terminal \cup {"PURGED"}

Traces(e) ==
    \/ Unpublished(e) > 0
    \/ \E m \in Messages : stream[m].execution = e
    \/ \E h \in Handlers : jobs[h].execution = e

\* Where there is a reconciler, an execution the scheduler has inserted comes to
\* an end, whatever message, answer, result or process is lost on its way, and
\* then nothing goes round for ever: its events are published, its messages
\* acknowledged and its handlers done, for good.  This does not even need a
\* single result to be stored: attempts run out.
EveryExecutionEnds ==
    \A e \in Executions :
        deployment.recovery /\ rows[e].status = "PENDING"
            ~> [](Ended(e) /\ ~Traces(e))

\* An execution that has not ended is never forgotten by the queue: one of its
\* events is still to be published, or one of its messages is not acknowledged
\* and will be delivered again.  Handlers acknowledge messages of rows in
\* RETRY_WAIT relying on it.  It takes clocks that agree and a Stream that is
\* not trimmed; then the reconciler is not needed for it.
Carried ==
    ~deployment.skew /\ ~deployment.trims =>
        \A e \in Executions :
            rows[e].status \in Waiting \cup {"RUNNING"} =>
                \/ Unpublished(e) > 0
                \/ \E m \in Messages : stream[m].execution = e
=============================================================================
