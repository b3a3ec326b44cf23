------------------------------- MODULE Outbox -------------------------------
(***************************************************************************)
(* The dispatchers that move committed outbox_events to the Redis Stream.  *)
(*                                                                         *)
(* A dispatcher claims a batch of events under a lease, sends each one     *)
(* with XADD, and records the result in the event's row if the row is      *)
(* still claimed by it.  MySQL and Redis share no transaction: between any *)
(* two of these statements the claim may expire, another dispatcher may    *)
(* take the event, the process may die, or an answer may be lost after the *)
(* statement took effect.                                                  *)
(*                                                                         *)
(* Time is relative: 0 is the present, and a tick of the clock moves every *)
(* timestamp one unit further into the past.  A timestamp too old to make  *)
(* a difference to any comparison stops ageing, which keeps the states     *)
(* finite however long the system runs, without a last tick.               *)
(***************************************************************************)
EXTENDS Integers, FiniteSets

CONSTANTS
    Events,       \* ids of outbox_events, ordered as the numbers they are
    Dispatchers,  \* owner ids; a restarted process keeps its id
    Null,
    BatchSize,    \* outbox.batch_size
    ClaimTTL,     \* outbox.claim_ttl_seconds
    MaxBackoff,   \* outbox.max_backoff_seconds
    MaxDelay,     \* bound: how far ahead available_at may lie
    MaxStall,     \* bound: how late a ClaimBatch may run after reading the clock
    AttemptCap    \* bound: attempts are counted up to here

ASSUME OutboxConstants ==
    /\ Events \subseteq Nat \ {0}
    /\ Null \notin Int \cup Dispatchers
    /\ BatchSize \in Nat \ {0}
    /\ ClaimTTL \in Nat \ {0}
    /\ MaxBackoff \in Nat \ {0}
    /\ MaxDelay \in Nat
    /\ MaxStall \in Nat
    /\ ClaimTTL <= MaxStall + MaxBackoff
    /\ AttemptCap \in Nat \ {0}

VARIABLES
    rows,         \* outbox_events
    copies,       \* messages of each event in the Stream: none, one, more (2)
    dispatchers   \* what each dispatcher is doing

vars == <<rows, copies, dispatchers>>
-----------------------------------------------------------------------------
Time == Int

\* An event not inserted yet has no available_at.
Row == [available_at    : Time \cup {Null},
        published       : BOOLEAN,             \* published_at IS NOT NULL
        attempts        : 0..AttemptCap,
        next_attempt_at : Time \cup {Null},
        claim_owner     : Dispatchers \cup {Null},
        claim_until     : Time \cup {Null}]

Dispatcher == [pc   : {"idle", "claim", "publish", "sent", "failed"},
               at   : Time \cup {Null},              \* now in dispatchOnce
               todo : SUBSET Events,                 \* events left of the batch
               seen : [Events -> 0..AttemptCap]]     \* event.Attempts as claimed

IdleDispatcher == [pc |-> "idle", at |-> Null, todo |-> {},
                   seen |-> [e \in Events |-> 0]]

TypeOK ==
    /\ rows \in [Events -> Row]
    /\ copies \in [Events -> 0..2]
    /\ dispatchers \in [Dispatchers -> Dispatcher]
    /\ \A d \in Dispatchers :
         /\ dispatchers[d].at = Null <=> dispatchers[d].pc = "idle"
         /\ dispatchers[d].todo = {} <=> dispatchers[d].pc \in {"idle", "claim"}

Init ==
    /\ rows = [e \in Events |->
                 [available_at |-> Null, published |-> FALSE, attempts |-> 0,
                  next_attempt_at |-> Null, claim_owner |-> Null,
                  claim_until |-> Null]]
    /\ copies = [e \in Events |-> 0]
    /\ dispatchers = [d \in Dispatchers |-> IdleDispatcher]

\* A scheduler, worker or reconciler commits an event.
Insert(e, delay) ==
    /\ rows[e].available_at = Null
    /\ rows' = [rows EXCEPT ![e].available_at = delay]
    /\ UNCHANGED <<copies, dispatchers>>
-----------------------------------------------------------------------------
(* The clock *)

\* A column is compared with clock readings at most MaxStall old; a batch's
\* clock reading is used again, with a backoff added, when a publish fails.
Older(t, limit) == IF t = Null \/ t <= -limit THEN t ELSE t - 1

ColumnLimit == MaxStall + 1
BatchLimit  == ColumnLimit + MaxBackoff

Tick ==
    /\ \A d \in Dispatchers : dispatchers[d].pc = "claim" =>
                                dispatchers[d].at > -MaxStall
    /\ rows' = [e \in Events |->
                  [rows[e] EXCEPT !.available_at    = Older(@, ColumnLimit),
                                  !.next_attempt_at = Older(@, ColumnLimit),
                                  !.claim_until     = Older(@, ColumnLimit)]]
    /\ dispatchers' = [d \in Dispatchers |->
                         [dispatchers[d] EXCEPT !.at = Older(@, BatchLimit)]]
    /\ UNCHANGED copies
-----------------------------------------------------------------------------
(* dispatchOnce: ClaimBatch *)

SetDispatcher(d, state) == dispatchers' = [dispatchers EXCEPT ![d] = state]

Poll(d) ==
    /\ dispatchers[d].pc = "idle"
    /\ SetDispatcher(d, [dispatchers[d] EXCEPT !.pc = "claim", !.at = 0])
    /\ UNCHANGED <<rows, copies>>

\* Mutant: takes a claim that is due to expire.
ClaimableAtExpiry(row, t) ==
    /\ ~row.published
    /\ row.available_at # Null /\ row.available_at <= t
    /\ row.next_attempt_at = Null \/ row.next_attempt_at <= t
    /\ row.claim_owner = Null \/ row.claim_until = Null \/ row.claim_until <= t

\* Mutant: does not look at published_at.
ClaimableForEver(row, t) ==
    /\ row.available_at # Null /\ row.available_at <= t
    /\ row.next_attempt_at = Null \/ row.next_attempt_at <= t
    /\ row.claim_owner = Null \/ row.claim_until = Null \/ row.claim_until < t

\* Mutant: waits for a claim to be given back.
ClaimableIfFree(row, t) ==
    /\ ~row.published
    /\ row.available_at # Null /\ row.available_at <= t
    /\ row.next_attempt_at = Null \/ row.next_attempt_at <= t
    /\ row.claim_owner = Null

Claimable(row, t) ==
    /\ ~row.published
    /\ row.available_at # Null /\ row.available_at <= t
    /\ row.next_attempt_at = Null \/ row.next_attempt_at <= t
    /\ row.claim_owner = Null \/ row.claim_until = Null \/ row.claim_until < t

\* ORDER BY id LIMIT, over the rows no other transaction has locked.
Batch(candidates) ==
    {e \in candidates : Cardinality({f \in candidates : f < e}) < BatchSize}

Claimed(d, locked) ==
    Batch({e \in Events \ locked : Claimable(rows[e], dispatchers[d].at)})

ClaimEffect(d, batch) ==
    rows' = [e \in Events |->
               IF e \in batch
               THEN [rows[e] EXCEPT !.claim_owner = d,
                                    !.claim_until = dispatchers[d].at + ClaimTTL]
               ELSE rows[e]]

ClaimBatch(d, locked) ==
    LET batch == Claimed(d, locked) IN
    /\ dispatchers[d].pc = "claim"
    /\ ClaimEffect(d, batch)
    /\ SetDispatcher(d, IF batch = {}
                        THEN IdleDispatcher
                        ELSE [dispatchers[d] EXCEPT
                                !.pc = "publish", !.todo = batch,
                                !.seen = [e \in Events |->
                                   IF e \in batch THEN rows[e].attempts ELSE 0]])
    /\ UNCHANGED copies

\* The transaction rolls back, or its commit is not confirmed.
ClaimError(d, locked) ==
    /\ dispatchers[d].pc = "claim"
    /\ ClaimEffect(d, Claimed(d, locked)) \/ UNCHANGED rows
    /\ SetDispatcher(d, IdleDispatcher)
    /\ UNCHANGED copies
-----------------------------------------------------------------------------
(* dispatchOnce: the loop over the batch *)

\* The event whose turn it is in the batch of d.
Current(d, e) ==
    /\ e \in dispatchers[d].todo
    /\ \A f \in dispatchers[d].todo : e <= f

Sent(e) == copies' = [copies EXCEPT ![e] = IF @ < 2 THEN @ + 1 ELSE @]

Publish(d, e) ==
    /\ dispatchers[d].pc = "publish" /\ Current(d, e)
    /\ Sent(e)
    /\ SetDispatcher(d, [dispatchers[d] EXCEPT !.pc = "sent"])
    /\ UNCHANGED rows

\* Mutant: takes a failed XADD for a sent message.
PublishErrorIgnored(d, e) ==
    /\ dispatchers[d].pc = "publish" /\ Current(d, e)
    /\ Sent(e) \/ UNCHANGED copies
    /\ SetDispatcher(d, [dispatchers[d] EXCEPT !.pc = "sent"])
    /\ UNCHANGED rows

\* No answer from XADD: the message may be in the Stream all the same.
PublishError(d, e) ==
    /\ dispatchers[d].pc = "publish" /\ Current(d, e)
    /\ Sent(e) \/ UNCHANGED copies
    /\ SetDispatcher(d, [dispatchers[d] EXCEPT !.pc = "failed"])
    /\ UNCHANGED rows

\* Mutant: no check of the claim.
OwnsUnchecked(d, e) == ~rows[e].published

\* The WHERE clause of MarkPublished and MarkFailed.
Owns(d, e) == rows[e].claim_owner = d /\ ~rows[e].published

Counted(attempts) == IF attempts < AttemptCap THEN attempts + 1 ELSE attempts

PublishedRow(row) ==
    [row EXCEPT !.published   = TRUE,
                !.attempts    = Counted(@),
                !.claim_owner = Null,
                !.claim_until = Null]

\* backoff: 2^(attempt-1) seconds, the exponent at most 30, at most MaxBackoff.
Backoff(attempt) ==
    LET exponent == IF attempt < 1 THEN 0
                    ELSE IF attempt > 31 THEN 30
                    ELSE attempt - 1
        delay    == 2^exponent
    IN  IF delay > MaxBackoff THEN MaxBackoff ELSE delay

\* The retry counts from the start of the batch, not from the failure.
RetryAt(d, e) ==
    LET t == dispatchers[d].at + Backoff(dispatchers[d].seen[e] + 1)
    IN  IF t < -ColumnLimit THEN -ColumnLimit ELSE t

FailedRow(row, t) ==
    [row EXCEPT !.attempts        = Counted(@),
                !.next_attempt_at = t,
                !.claim_owner     = Null,
                !.claim_until     = Null]

\* Mutant: does not notice the end of the batch.
AdvancePastEnd(d, e) ==
    SetDispatcher(d, [dispatchers[d] EXCEPT !.pc = "publish",
                                            !.todo = @ \ {e}])

\* On to the next event of the batch, whatever became of this one.
Advance(d, e) ==
    LET rest == dispatchers[d].todo \ {e} IN
    SetDispatcher(d, IF rest = {}
                     THEN IdleDispatcher
                     ELSE [dispatchers[d] EXCEPT !.pc = "publish", !.todo = rest,
                                                 !.seen[e] = 0])

MarkPublished(d, e) ==
    /\ dispatchers[d].pc = "sent" /\ Current(d, e)
    /\ rows' = IF Owns(d, e) THEN [rows EXCEPT ![e] = PublishedRow(@)] ELSE rows
    /\ Advance(d, e)
    /\ UNCHANGED copies

MarkFailed(d, e) ==
    /\ dispatchers[d].pc = "failed" /\ Current(d, e)
    /\ rows' = IF Owns(d, e)
               THEN [rows EXCEPT ![e] = FailedRow(@, RetryAt(d, e))]
               ELSE rows
    /\ Advance(d, e)
    /\ UNCHANGED copies

\* Either statement fails without effect; one that took effect before its
\* answer was lost looks to the dispatcher like MarkPublished, MarkFailed.
MarkError(d, e) ==
    /\ dispatchers[d].pc \in {"sent", "failed"} /\ Current(d, e)
    /\ Advance(d, e)
    /\ UNCHANGED <<rows, copies>>

\* The process dies or is told to stop, and starts again with the same id.
Restart(d) ==
    /\ dispatchers[d].pc # "idle"
    /\ SetDispatcher(d, IdleDispatcher)
    /\ UNCHANGED <<rows, copies>>
-----------------------------------------------------------------------------
DispatcherStep(d) ==
    \/ \E locked \in SUBSET Events : ClaimBatch(d, locked) \/ ClaimError(d, locked)
    \/ \E e \in Events : \/ Publish(d, e)
                         \/ PublishError(d, e)
                         \/ MarkPublished(d, e)
                         \/ MarkFailed(d, e)
                         \/ MarkError(d, e)

Next ==
    \/ Tick
    \/ \E e \in Events, delay \in 0..MaxDelay : Insert(e, delay)
    \/ \E d \in Dispatchers : Poll(d) \/ DispatcherStep(d) \/ Restart(d)

\* The clock goes on, dispatchers keep polling and come to the end of every
\* statement.  MySQL and Redis are not down for ever: if there are always new
\* chances to claim something, to send an event or to mark one published while
\* the claim on it is still held, one of them is taken.
Fairness ==
    /\ SF_vars(Tick)
    /\ \A d \in Dispatchers : WF_vars(Poll(d)) /\ WF_vars(DispatcherStep(d))
    /\ SF_vars(\E d \in Dispatchers : ClaimBatch(d, {}) /\ Claimed(d, {}) # {})
    /\ SF_vars(\E d \in Dispatchers, e \in Events : Owns(d, e) /\ Publish(d, e))
    /\ SF_vars(\E d \in Dispatchers, e \in Events :
                 Owns(d, e) /\ MarkPublished(d, e))

Spec == Init /\ [][Next]_vars

FairSpec == Spec /\ Fairness
-----------------------------------------------------------------------------
(* Properties *)

\* An event counts as published only if its message is in the Stream, however
\* XADD and the claim went in between: no event is lost by the dispatchers.
PublishedWasSent ==
    \A e \in Events : rows[e].published => copies[e] > 0

\* While claims last, dispatchers never work on the same event: a message is
\* sent twice only after a failure or by a dispatcher that overran its claim.
LiveClaimsAreDisjoint ==
    \A c, d \in Dispatchers :
        /\ dispatchers[c].todo \cap dispatchers[d].todo # {}
        /\ dispatchers[c].at + ClaimTTL >= 0 /\ dispatchers[d].at + ClaimTTL >= 0
        => c = d

\* The attempts a dispatcher read with its batch are still the row's when it
\* may record a failure, so the backoff it computes from them is the right one
\* and attempts grows by one for each recorded result.
AttemptsAreCurrent ==
    \A d \in Dispatchers : \A e \in dispatchers[d].todo :
        Owns(d, e) => dispatchers[d].seen[e] = rows[e].attempts

\* An event is not sent for ever: once it is published, the dispatchers that
\* still have it in a batch are the last ones.
SendingEnds ==
    \A e \in Events :
        rows[e].published ~> [](\A d \in Dispatchers : e \notin dispatchers[d].todo)
-----------------------------------------------------------------------------
(* What is promised to the transactions that insert events *)

Promise == INSTANCE AtLeastOnce
           WITH committed <- {e \in Events : rows[e].available_at # Null},
                published <- {e \in Events : rows[e].published}

\* The dispatchers implement AtLeastOnce: whatever claims expire, answers get
\* lost and processes restart, no event is marked published unsent, none is
\* unpublished again, and every committed one is published some time.
AtLeastOnceSpec == Promise!Spec
=============================================================================
