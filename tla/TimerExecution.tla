--------------------------- MODULE TimerExecution ---------------------------
(***************************************************************************)
(* The row of the table timer_executions and the SQL statements that       *)
(* change it, one operator per statement.  A statement's WHERE clause is a *)
(* predicate on the row, its SET clause a row.  The module has no          *)
(* variables: Worker.tla runs these statements from its processes.         *)
(*                                                                         *)
(* A definition marked "Mutant" is a plausible mistake in the definition   *)
(* that follows it.  No specification uses it; PROJECT.json names the      *)
(* property that fails when it takes the other's place.                    *)
(*                                                                         *)
(* Columns nothing depends on (response_*, error_message, duration_ms,     *)
(* started_at, request_snapshot) are left out.  Null stands for SQL NULL   *)
(* and for the empty string the code writes in lease_owner and run_token.  *)
(***************************************************************************)
EXTENDS Integers

CONSTANTS
    Workers,       \* consumer ids: the values of lease_owner
    RunTokens,     \* the random run tokens (newRunToken)
    Null,
    MaxAttempts,   \* max_attempts, 3 on every row the scheduler inserts
    LeaseTTL,      \* worker.lease_ttl_seconds
    RetryBase,     \* worker.retry_base_seconds
    RetryMax,      \* worker.retry_max_seconds
    PendingStale   \* recovery.pending_stale_seconds

ASSUME NullAssumption == Null \notin Int \cup Workers \cup RunTokens

ASSUME RowConstants ==
    /\ MaxAttempts \in Nat \ {0}
    /\ LeaseTTL \in Nat \ {0}
    /\ PendingStale \in Nat \ {0}
    /\ RetryBase \in Nat \ {0}
    /\ RetryMax \in Nat \ {0}
-----------------------------------------------------------------------------
Time == Nat

\* CANCELLED is declared and treated as terminal, but no statement writes it.
Terminal == {"SUCCESS", "FAILED", "CANCELLED"}

\* "ABSENT" is the status of an id that has no row.
Status == {"PENDING", "RUNNING", "RETRY_WAIT", "ABSENT"} \cup Terminal

Row == [status           : Status,
        scheduled_at     : Time,
        attempt          : Nat,
        next_attempt_at  : Time \cup {Null},
        lease_owner      : Workers \cup {Null},
        lease_until      : Time \cup {Null},
        run_token        : RunTokens \cup {Null},
        last_enqueued_at : Time \cup {Null},
        finished_at      : Time \cup {Null}]

\* The row the scheduler's transaction inserts for an occurrence.
PendingRow(scheduledAt, t) ==
    [status           |-> "PENDING",
     scheduled_at     |-> scheduledAt,
     attempt          |-> 0,
     next_attempt_at  |-> Null,
     lease_owner      |-> Null,
     lease_until      |-> Null,
     run_token        |-> Null,
     last_enqueued_at |-> t,
     finished_at      |-> Null]

AbsentRow == [PendingRow(0, Null) EXCEPT !.status = "ABSENT"]

IsTerminal(row) == row.status \in Terminal
-----------------------------------------------------------------------------
\* retryBackoff: base * 2^(attempt-1), the exponent at most 30, capped at
\* RetryMax.  The product is never negative, so "in 0..RetryMax" is the code's
\* "not greater than the maximum".
RetryBackoff(attempt) ==
    LET exponent == IF attempt < 1 THEN 0
                    ELSE IF attempt > 31 THEN 30
                    ELSE attempt - 1
        seconds  == RetryBase * 2^exponent
    IN  IF seconds \in 0..RetryMax THEN seconds ELSE RetryMax

NotAfter(time, t) == time # Null /\ time <= t
Before(time, t)   == time # Null /\ time < t
-----------------------------------------------------------------------------
(* Claim *)

\* Mutant: takes a run over at lease_until, not after it.
ClaimableAtExpiry(row, t) ==
    \/ row.status = "PENDING"    /\ row.scheduled_at <= t
    \/ row.status = "RETRY_WAIT" /\ NotAfter(row.next_attempt_at, t)
    \/ row.status = "RUNNING"    /\ NotAfter(row.lease_until, t)

\* Mutant: forgets next_attempt_at.
ClaimableAnyWaiting(row, t) ==
    \/ row.status \in {"PENDING", "RETRY_WAIT"} /\ row.scheduled_at <= t
    \/ row.status = "RUNNING" /\ Before(row.lease_until, t)

Claimable(row, t) ==
    \/ row.status = "PENDING"    /\ row.scheduled_at <= t
    \/ row.status = "RETRY_WAIT" /\ NotAfter(row.next_attempt_at, t)
    \/ row.status = "RUNNING"    /\ Before(row.lease_until, t)

\* Mutant: counts the first run and takeovers, but not retries.
ClaimedRowUncounted(row, owner, token, t) ==
    [row EXCEPT !.status      = "RUNNING",
                !.attempt     = IF row.status = "RETRY_WAIT" THEN @ ELSE @ + 1,
                !.lease_owner = owner,
                !.lease_until = t + LeaseTTL,
                !.run_token   = token,
                !.finished_at = Null]

\* Claim's SET clause; next_attempt_at keeps its value.
ClaimedRow(row, owner, token, t) ==
    [row EXCEPT !.status      = "RUNNING",
                !.attempt     = @ + 1,
                !.lease_owner = owner,
                !.lease_until = t + LeaseTTL,
                !.run_token   = token,
                !.finished_at = Null]
-----------------------------------------------------------------------------
(* Heartbeat, CompleteSuccess, CompleteFailure: the WHERE clause they share *)

\* Mutant: no check of the token.
HeldByWorker(row, owner, token) ==
    row.status = "RUNNING" /\ row.lease_owner = owner

HeldBy(row, owner, token) ==
    row.status = "RUNNING" /\ row.lease_owner = owner /\ row.run_token = token

RenewedRow(row, until) == [row EXCEPT !.lease_until = until]

\* Mutant: leaves the token behind.
ReleasedRowKeepsToken(row) ==
    [row EXCEPT !.lease_owner = Null, !.lease_until = Null]

\* What every statement that ends a run writes.
ReleasedRow(row) ==
    [row EXCEPT !.lease_owner = Null, !.lease_until = Null, !.run_token = Null]

SucceededRow(row, t) ==
    [ReleasedRow(row) EXCEPT !.status          = "SUCCESS",
                             !.finished_at     = t,
                             !.next_attempt_at = Null]

\* Mutant: one retry too many.
RetryScheduledOnceMore(retryable, attempt) == retryable /\ attempt <= MaxAttempts

\* CompleteFailure decides on the attempt the handler read, not on the row's.
RetryScheduled(retryable, attempt) == retryable /\ attempt < MaxAttempts

RetryWaitRow(row, t, retryAt) ==
    [ReleasedRow(row) EXCEPT !.status           = "RETRY_WAIT",
                             !.finished_at      = t,
                             !.next_attempt_at  = retryAt,
                             !.last_enqueued_at = retryAt]

\* Mutant: a status the table does not have.
FailedRowMisspelt(row, t) ==
    [ReleasedRow(row) EXCEPT !.status          = "FAILURE",
                             !.finished_at     = t,
                             !.next_attempt_at = Null]

FailedRow(row, t) ==
    [ReleasedRow(row) EXCEPT !.status          = "FAILED",
                             !.finished_at     = t,
                             !.next_attempt_at = Null]
-----------------------------------------------------------------------------
(* RecoverBatch *)

Stale(row, t) ==
    row.last_enqueued_at = Null \/ row.last_enqueued_at < t - PendingStale

Recoverable(row, t) ==
    \/ row.status = "PENDING"    /\ row.scheduled_at <= t /\ Stale(row, t)
    \/ row.status = "RETRY_WAIT" /\ NotAfter(row.next_attempt_at, t) /\ Stale(row, t)
    \/ row.status = "RUNNING"    /\ Before(row.lease_until, t)

\* The lease ran out on the last attempt: the row ends, and no event is sent.
Exhausted(row) == row.status = "RUNNING" /\ row.attempt >= MaxAttempts

\* Mutant: sends an expired run back to the start.
RecoveredRowToPending(row, t) ==
    IF Exhausted(row)
    THEN [ReleasedRow(row) EXCEPT !.status = "FAILED", !.finished_at = t]
    ELSE [ReleasedRow(row) EXCEPT !.status = "PENDING", !.last_enqueued_at = t]

RecoveredRow(row, t) ==
    IF Exhausted(row)
    THEN [ReleasedRow(row) EXCEPT !.status = "FAILED", !.finished_at = t]
    ELSE IF row.status = "RUNNING"
    THEN [ReleasedRow(row) EXCEPT !.status           = "RETRY_WAIT",
                                  !.next_attempt_at  = t,
                                  !.last_enqueued_at = t]
    ELSE [row EXCEPT !.last_enqueued_at = t]
=============================================================================
