---------------------------- MODULE OutboxProofs ----------------------------
(***************************************************************************)
(* Proofs about Outbox, for any events and dispatchers, any batch size,    *)
(* claim and backoff times and any bounds.                                 *)
(***************************************************************************)
EXTENDS Outbox, TLAPS

\* A clock reading is used for a claim at most MaxStall later.
ClaimReadings ==
    \A d \in Dispatchers : dispatchers[d].pc = "claim" =>
        -MaxStall <= dispatchers[d].at /\ dispatchers[d].at <= 0

\* A claim that lasts is the one in the row.
LiveClaimsHold ==
    \A d \in Dispatchers : \A e \in dispatchers[d].todo :
        dispatchers[d].at + ClaimTTL >= 0 =>
            /\ rows[e].claim_owner = d
            /\ rows[e].claim_until = dispatchers[d].at + ClaimTTL

\* Between XADD and MarkPublished the message is in the Stream.
SentHasCopy ==
    \A d \in Dispatchers, e \in Events :
        dispatchers[d].pc = "sent" /\ Current(d, e) => copies[e] > 0

\* Only events that are in the table are claimed and published.
WorkIsCommitted ==
    \A e \in Events :
        \/ rows[e].available_at # Null
        \/ /\ ~rows[e].published
           /\ \A d \in Dispatchers : e \notin dispatchers[d].todo

IInv ==
    /\ TypeOK
    /\ ClaimReadings
    /\ LiveClaimsHold
    /\ SentHasCopy
    /\ WorkIsCommitted
    /\ PublishedWasSent
    /\ AttemptsAreCurrent
-----------------------------------------------------------------------------
(* Rows: what each statement writes is a row, with these values. *)

\* The retry time is a time: the backoff is a number of seconds whatever the
\* attempt.
LEMMA BackoffType ==
    ASSUME NEW attempt \in Int PROVE Backoff(attempt) \in Int
<1> DEFINE exponent == IF attempt < 1 THEN 0
                       ELSE IF attempt > 31 THEN 30
                       ELSE attempt - 1
<1>1. exponent \in Nat
  OBVIOUS
<1>2. 2^exponent \in Int
  BY <1>1
<1>3. MaxBackoff \in Int
  BY OutboxConstants
<1> QED BY <1>2, <1>3 DEF Backoff

\* ClaimBatch sets owner and end of the claim and nothing else.
LEMMA ClaimedRowFacts ==
    ASSUME NEW row \in Row, NEW d \in Dispatchers, NEW t \in Int
    PROVE  LET new == [row EXCEPT !.claim_owner = d, !.claim_until = t] IN
           /\ new \in Row
           /\ new.claim_owner = d
           /\ new.claim_until = t
           /\ new.available_at = row.available_at
           /\ new.published = row.published
           /\ new.attempts = row.attempts
BY DEF Row, Time

\* MarkPublished gives the claim back.
LEMMA PublishedRowFacts ==
    ASSUME NEW row \in Row
    PROVE  LET new == PublishedRow(row) IN
           /\ new \in Row
           /\ new.published = TRUE
           /\ new.claim_owner = Null
           /\ new.available_at = row.available_at
<1>1. Counted(row.attempts) \in 0..AttemptCap
  BY OutboxConstants DEF Counted, Row
<1> QED BY <1>1 DEF PublishedRow, Row

\* MarkFailed gives the claim back and sets the time of the next attempt.
LEMMA FailedRowFacts ==
    ASSUME NEW row \in Row, NEW t \in Int
    PROVE  LET new == FailedRow(row, t) IN
           /\ new \in Row
           /\ new.published = row.published
           /\ new.claim_owner = Null
           /\ new.available_at = row.available_at
<1>1. Counted(row.attempts) \in 0..AttemptCap
  BY OutboxConstants DEF Counted, Row
<1> QED BY <1>1 DEF FailedRow, Row, Time

\* The passing of time keeps a time a time, and moves it unless it is old.
LEMMA OlderFacts ==
    ASSUME NEW t \in Int \cup {Null}, NEW limit \in Int
    PROVE  /\ Older(t, limit) \in Int \cup {Null}
           /\ Older(t, limit) = Null <=> t = Null
           /\ t \in Int /\ t > -limit => Older(t, limit) = t - 1
           /\ t \in Int /\ t <= -limit => Older(t, limit) = t
BY OutboxConstants DEF Older
-----------------------------------------------------------------------------
(* Moves: how a step may change a row and a dispatcher *)

\* An event is inserted.
Inserted(e) ==
    /\ rows[e].available_at = Null
    /\ \E t \in Int : rows'[e] = [rows[e] EXCEPT !.available_at = t]

\* A dispatcher claims the event; whether it gets to work on it or not.
Taken(d, e) ==
    /\ dispatchers[d].pc = "claim"
    /\ Claimable(rows[e], dispatchers[d].at)
    /\ rows'[e] = [rows[e] EXCEPT !.claim_owner = d,
                                  !.claim_until = dispatchers[d].at + ClaimTTL]

\* The owner records the result of XADD and drops the event.
Settled(d, e) ==
    /\ Owns(d, e)
    /\ e \in dispatchers[d].todo /\ e \notin dispatchers'[d].todo
    /\ \/ /\ dispatchers[d].pc = "sent" /\ Current(d, e)
          /\ rows'[e] = PublishedRow(rows[e])
       \/ \E t \in Int : rows'[e] = FailedRow(rows[e], t)

RowMoves(e) ==
    \/ rows'[e] = rows[e]
    \/ Inserted(e)
    \/ \E d \in Dispatchers : Taken(d, e) \/ Settled(d, e)

\* The dispatcher works on the batch it just claimed.
Begins(d) ==
    /\ dispatchers[d].pc = "claim"
    /\ dispatchers'[d].pc = "publish"
    /\ dispatchers'[d].at = dispatchers[d].at
    /\ \A e \in dispatchers'[d].todo :
         Taken(d, e) /\ dispatchers'[d].seen[e] = rows[e].attempts

\* The dispatcher works on what is left of its batch, or on nothing.
Continues(d) ==
    /\ dispatchers'[d].todo \subseteq dispatchers[d].todo
    /\ \A e \in dispatchers'[d].todo :
         /\ dispatchers'[d].at = dispatchers[d].at
         /\ dispatchers'[d].seen[e] = dispatchers[d].seen[e]
    /\ \/ dispatchers'[d] = dispatchers[d]
       \/ dispatchers'[d].pc = "claim" /\ dispatchers'[d].at = 0
       \/ /\ dispatchers'[d].pc = "sent"
          /\ dispatchers'[d].todo = dispatchers[d].todo
          /\ \A e \in Events : Current(d, e) => copies'[e] > 0
       \/ dispatchers'[d].pc \notin {"claim", "sent"}

CopiesMove ==
    /\ copies' \in [Events -> 0..2]
    /\ \A e \in Events : copies[e] > 0 => copies'[e] > 0

\* The part of TypeOK that is about the dispatchers.
DispatchersOK ==
    /\ dispatchers \in [Dispatchers -> Dispatcher]
    /\ \A d \in Dispatchers :
         /\ dispatchers[d].at = Null <=> dispatchers[d].pc = "idle"
         /\ dispatchers[d].todo = {} <=> dispatchers[d].pc \in {"idle", "claim"}

\* What every step but a tick of the clock does.
Moves ==
    /\ TypeOK'
    /\ \A e \in Events : RowMoves(e)
    /\ \A d \in Dispatchers : Begins(d) \/ Continues(d)
    /\ CopiesMove

\* A step of one dispatcher changes that dispatcher's state only.
LEMMA OneDispatcherMoves ==
    ASSUME TypeOK, NEW d \in Dispatchers, NEW state \in Dispatcher,
           SetDispatcher(d, state),
           state.at = Null <=> state.pc = "idle",
           state.todo = {} <=> state.pc \in {"idle", "claim"}
    PROVE  /\ DispatchersOK'
           /\ dispatchers'[d] = state
           /\ \A c \in Dispatchers \ {d} : dispatchers'[c] = dispatchers[c]
BY DEF SetDispatcher, TypeOK, DispatchersOK

\* What a dispatcher does not change goes on as it was.
LEMMA OthersContinue ==
    ASSUME NEW d, dispatchers'[d] = dispatchers[d]
    PROVE  Continues(d)
BY DEF Continues

\* The state a dispatcher goes back to.
LEMMA IdleFacts ==
    /\ IdleDispatcher \in Dispatcher
    /\ IdleDispatcher.pc = "idle" /\ IdleDispatcher.at = Null
    /\ IdleDispatcher.todo = {}
BY OutboxConstants DEF IdleDispatcher, Dispatcher, Time

\* Giving up, whatever the reason.
LEMMA GivingUp ==
    ASSUME TypeOK, NEW d \in Dispatchers, SetDispatcher(d, IdleDispatcher)
    PROVE  /\ DispatchersOK'
           /\ dispatchers'[d].todo = {}
           /\ \A c \in Dispatchers : Continues(c)
<1>1. /\ DispatchersOK'
      /\ dispatchers'[d] = IdleDispatcher
      /\ \A c \in Dispatchers \ {d} : dispatchers'[c] = dispatchers[c]
  BY IdleFacts, OneDispatcherMoves
<1>2. Continues(d)
  BY <1>1, IdleFacts DEF Continues
<1> QED BY <1>1, <1>2, IdleFacts, OthersContinue

\* Going on to the next event drops one event and touches nothing else of
\* what is left.
LEMMA Advancing ==
    ASSUME TypeOK, NEW d \in Dispatchers, NEW e \in Events,
           dispatchers[d].pc \in {"sent", "failed"}, Current(d, e), Advance(d, e)
    PROVE  /\ DispatchersOK'
           /\ e \in dispatchers[d].todo /\ e \notin dispatchers'[d].todo
           /\ \A c \in Dispatchers : Continues(c)
<1> DEFINE old  == dispatchers[d]
           rest == old.todo \ {e}
           new  == [old EXCEPT !.pc = "publish", !.todo = rest, !.seen[e] = 0]
<1>0. old \in Dispatcher /\ old.at # Null /\ e \in old.todo
  BY DEF TypeOK, Current
<1>1. CASE rest = {}
  <2>1. SetDispatcher(d, IdleDispatcher)
    BY <1>1 DEF Advance
  <2> QED BY <1>0, <2>1, GivingUp
<1>2. CASE rest # {}
  <2>1. SetDispatcher(d, new)
    BY <1>2 DEF Advance
  <2>2. /\ new \in Dispatcher /\ new.pc = "publish" /\ new.at = old.at
        /\ new.todo = rest
        /\ \A f \in rest : new.seen[f] = old.seen[f]
    <3> DEFINE part  == [old EXCEPT !.pc = "publish", !.todo = rest]
               seen1 == [old.seen EXCEPT ![e] = 0]
    <3>1. /\ part \in Dispatcher /\ part.pc = "publish" /\ part.at = old.at
          /\ part.todo = rest /\ part.seen = old.seen
      BY <1>0 DEF Dispatcher
    <3>2. /\ seen1 \in [Events -> 0..AttemptCap]
          /\ \A f \in rest : seen1[f] = old.seen[f]
      BY <1>0, OutboxConstants DEF Dispatcher
    <3>3. new = [part EXCEPT !.seen = seen1]
      BY <1>0 DEF Dispatcher
    <3> HIDE DEF part, seen1, new
    <3> QED BY <3>1, <3>2, <3>3 DEF Dispatcher
  <2> HIDE DEF new
  <2>3. /\ DispatchersOK'
        /\ dispatchers'[d] = new
        /\ \A c \in Dispatchers \ {d} : dispatchers'[c] = dispatchers[c]
    BY <1>0, <1>2, <2>1, <2>2, OneDispatcherMoves
  <2>4. Continues(d)
    BY <2>2, <2>3 DEF Continues
  <2> QED BY <1>0, <2>2, <2>3, <2>4, OthersContinue
<1> QED BY <1>1, <1>2

\* XADD, answered or not, adds messages and takes none away.
LEMMA SentFacts ==
    ASSUME TypeOK, NEW e \in Events
    PROVE  /\ Sent(e) => CopiesMove /\ copies'[e] > 0
           /\ UNCHANGED copies => CopiesMove
BY DEF TypeOK, Sent, CopiesMove

\* A claim takes claimable events only.
LEMMA ClaimTakes ==
    ASSUME TypeOK, NEW d \in Dispatchers, NEW locked \in SUBSET Events,
           dispatchers[d].pc = "claim", ClaimEffect(d, Claimed(d, locked))
    PROVE  /\ Claimed(d, locked) \subseteq Events
           /\ rows' \in [Events -> Row]
           /\ \A e \in Claimed(d, locked) : Taken(d, e)
           /\ \A e \in Events : RowMoves(e)
<1> DEFINE batch == Claimed(d, locked)
           t     == dispatchers[d].at + ClaimTTL
<1>1. batch \subseteq Events /\ \A e \in batch : Claimable(rows[e], dispatchers[d].at)
  BY DEF Claimed, Batch
<1>2. t \in Int
  BY OutboxConstants DEF TypeOK, Dispatcher, Time
<1>3. rows' = [e \in Events |->
                 IF e \in batch
                 THEN [rows[e] EXCEPT !.claim_owner = d, !.claim_until = t]
                 ELSE rows[e]]
  BY DEF ClaimEffect
<1> HIDE DEF batch
<1>4. \A e \in batch : Taken(d, e)
  BY <1>1, <1>3 DEF Taken
<1>5. rows' \in [Events -> Row]
  <2> SUFFICES ASSUME NEW e \in Events PROVE rows'[e] \in Row
    BY <1>3
  <2>1. rows[e] \in Row
    BY DEF TypeOK
  <2> HIDE DEF t
  <2> QED BY <1>2, <1>3, <2>1, ClaimedRowFacts
<1>6. \A e \in Events : RowMoves(e)
  BY <1>3, <1>4 DEF RowMoves
<1> QED BY <1>1, <1>4, <1>5, <1>6 DEF batch

LEMMA ClaimMoves ==
    ASSUME TypeOK, NEW d \in Dispatchers, NEW locked \in SUBSET Events,
           ClaimBatch(d, locked)
    PROVE  Moves
<1> DEFINE batch == Claimed(d, locked)
           old == dispatchers[d]
           read == [e \in Events |-> IF e \in batch THEN rows[e].attempts ELSE 0]
           new == [old EXCEPT !.pc = "publish", !.todo = batch, !.seen = read]
<1>1. /\ old \in Dispatcher /\ old.pc = "claim" /\ old.at # Null
      /\ ClaimEffect(d, batch) /\ UNCHANGED copies
  BY DEF ClaimBatch, TypeOK
<1>2. /\ batch \subseteq Events
      /\ rows' \in [Events -> Row]
      /\ \A e \in batch : Taken(d, e)
      /\ \A e \in Events : RowMoves(e)
  BY <1>1, ClaimTakes
<1>3. CopiesMove
  BY <1>1, SentFacts DEF TypeOK, CopiesMove
<1>4. CASE batch = {}
  <2>1. SetDispatcher(d, IdleDispatcher)
    BY <1>4 DEF ClaimBatch
  <2> QED BY <1>2, <1>3, <2>1, GivingUp DEF Moves, TypeOK, DispatchersOK, CopiesMove
<1>5. CASE batch # {}
  <2>1. SetDispatcher(d, new)
    BY <1>5 DEF ClaimBatch
  <2>2. read \in [Events -> 0..AttemptCap] /\ \A e \in batch : read[e] = rows[e].attempts
    BY <1>2, OutboxConstants DEF TypeOK, Row
  <2>3. /\ new \in Dispatcher /\ new.pc = "publish" /\ new.at = old.at
        /\ new.todo = batch /\ new.seen = read
    <3> HIDE DEF batch, read
    <3> QED BY <1>1, <1>2, <2>2 DEF Dispatcher
  <2> HIDE DEF new, read, batch
  <2>4. /\ DispatchersOK' /\ dispatchers'[d] = new
        /\ \A c \in Dispatchers \ {d} : dispatchers'[c] = dispatchers[c]
    BY <1>1, <1>5, <2>1, <2>3, OneDispatcherMoves
  <2>5. Begins(d)
    BY <1>1, <1>2, <2>2, <2>3, <2>4 DEF Begins
  <2> QED BY <1>2, <1>3, <2>4, <2>5, OthersContinue
          DEF Moves, TypeOK, DispatchersOK, CopiesMove
<1> QED BY <1>4, <1>5

LEMMA PublishMoves ==
    ASSUME TypeOK, NEW d \in Dispatchers, NEW e \in Events,
           Publish(d, e) \/ PublishError(d, e)
    PROVE  Moves
<1> DEFINE old == dispatchers[d]
<1>0. /\ old \in Dispatcher /\ old.at # Null /\ old.todo # {}
      /\ UNCHANGED rows /\ Current(d, e)
  BY DEF Publish, PublishError, TypeOK
<1>1. \A f \in Events : RowMoves(f)
  BY <1>0 DEF RowMoves
<1>2. \A f \in Events : Current(d, f) => f = e
  BY <1>0, OutboxConstants DEF Current
<1>3. CASE Publish(d, e)
  <2> DEFINE new == [old EXCEPT !.pc = "sent"]
  <2>1. SetDispatcher(d, new) /\ CopiesMove /\ copies'[e] > 0
    BY <1>3, SentFacts DEF Publish
  <2>2. /\ new \in Dispatcher /\ new.pc = "sent" /\ new.at = old.at
        /\ new.todo = old.todo /\ new.seen = old.seen
    BY <1>0 DEF Dispatcher
  <2> HIDE DEF new
  <2>3. /\ DispatchersOK' /\ dispatchers'[d] = new
        /\ \A c \in Dispatchers \ {d} : dispatchers'[c] = dispatchers[c]
    BY <1>0, <2>1, <2>2, OneDispatcherMoves
  <2>4. Continues(d)
    BY <1>2, <2>1, <2>2, <2>3 DEF Continues
  <2> QED BY <1>0, <1>1, <2>1, <2>3, <2>4, OthersContinue
          DEF Moves, TypeOK, DispatchersOK, CopiesMove
<1>4. CASE PublishError(d, e)
  <2> DEFINE new == [old EXCEPT !.pc = "failed"]
  <2>1. SetDispatcher(d, new) /\ CopiesMove
    BY <1>4, SentFacts DEF PublishError
  <2>2. /\ new \in Dispatcher /\ new.pc = "failed" /\ new.at = old.at
        /\ new.todo = old.todo /\ new.seen = old.seen
    BY <1>0 DEF Dispatcher
  <2> HIDE DEF new
  <2>3. /\ DispatchersOK' /\ dispatchers'[d] = new
        /\ \A c \in Dispatchers \ {d} : dispatchers'[c] = dispatchers[c]
    BY <1>0, <2>1, <2>2, OneDispatcherMoves
  <2>4. Continues(d)
    BY <2>2, <2>3 DEF Continues
  <2> QED BY <1>0, <1>1, <2>1, <2>3, <2>4, OthersContinue
          DEF Moves, TypeOK, DispatchersOK, CopiesMove
<1> QED BY <1>3, <1>4

LEMMA MarkMoves ==
    ASSUME TypeOK, NEW d \in Dispatchers, NEW e \in Events,
           MarkPublished(d, e) \/ MarkFailed(d, e) \/ MarkError(d, e)
    PROVE  Moves
<1>1. /\ dispatchers[d].pc \in {"sent", "failed"} /\ Current(d, e)
      /\ Advance(d, e) /\ UNCHANGED copies
  BY DEF MarkPublished, MarkFailed, MarkError
<1>2. /\ DispatchersOK'
      /\ e \in dispatchers[d].todo /\ e \notin dispatchers'[d].todo
      /\ \A c \in Dispatchers : Continues(c)
  BY <1>1, Advancing
<1>3. rows \in [Events -> Row] /\ rows[e] \in Row /\ CopiesMove
  BY <1>1, SentFacts DEF TypeOK
<1> SUFFICES rows' \in [Events -> Row] /\ \A f \in Events : RowMoves(f)
  BY <1>2, <1>3 DEF Moves, TypeOK, DispatchersOK, CopiesMove
<1>4. CASE UNCHANGED rows
  BY <1>3, <1>4 DEF RowMoves
<1>5. CASE MarkPublished(d, e) /\ Owns(d, e)
  <2> DEFINE new == PublishedRow(rows[e])
  <2>1. rows' = [rows EXCEPT ![e] = new] /\ dispatchers[d].pc = "sent"
    BY <1>5 DEF MarkPublished
  <2>2. new \in Row
    BY <1>3, PublishedRowFacts
  <2>3. rows'[e] = new /\ \A f \in Events \ {e} : rows'[f] = rows[f]
    <3> HIDE DEF new
    <3> QED BY <1>3, <2>1
  <2>4. Settled(d, e)
    BY <1>1, <1>2, <1>5, <2>1, <2>3 DEF Settled
  <2>5. rows' \in [Events -> Row]
    <3> HIDE DEF new
    <3> QED BY <1>3, <2>1, <2>2
  <2> QED BY <2>3, <2>4, <2>5 DEF RowMoves
<1>6. CASE MarkFailed(d, e) /\ Owns(d, e)
  <2> DEFINE t   == RetryAt(d, e)
             new == FailedRow(rows[e], t)
  <2>1. rows' = [rows EXCEPT ![e] = new]
    BY <1>6 DEF MarkFailed
  <2>2. t \in Int
    <3>1. /\ dispatchers[d].at \in Int
          /\ dispatchers[d].seen[e] + 1 \in Int
      BY <1>1, OutboxConstants DEF TypeOK, Dispatcher, Time
    <3>2. Backoff(dispatchers[d].seen[e] + 1) \in Int
      BY <3>1, BackoffType
    <3> QED BY <3>1, <3>2, OutboxConstants DEF RetryAt, ColumnLimit
  <2> HIDE DEF t
  <2>3. new \in Row
    BY <1>3, <2>2, FailedRowFacts
  <2>4. rows'[e] = new /\ \A f \in Events \ {e} : rows'[f] = rows[f]
    <3> HIDE DEF new
    <3> QED BY <1>3, <2>1
  <2>5. Settled(d, e)
    BY <1>1, <1>2, <1>6, <2>2, <2>4 DEF Settled
  <2>6. rows' \in [Events -> Row]
    <3> HIDE DEF new
    <3> QED BY <1>3, <2>1, <2>3
  <2> QED BY <2>4, <2>5, <2>6 DEF RowMoves
<1> QED BY <1>4, <1>5, <1>6 DEF MarkPublished, MarkFailed, MarkError

LEMMA PollMoves ==
    ASSUME TypeOK, NEW d \in Dispatchers, Poll(d)
    PROVE  Moves
<1> DEFINE old == dispatchers[d]
           new == [old EXCEPT !.pc = "claim", !.at = 0]
<1>1. old \in Dispatcher /\ old.todo = {} /\ SetDispatcher(d, new)
      /\ UNCHANGED <<rows, copies>>
  BY DEF Poll, TypeOK
<1>2. new \in Dispatcher /\ new.pc = "claim" /\ new.at = 0 /\ new.todo = {}
  <2> DEFINE part == [old EXCEPT !.pc = "claim"]
  <2>1. part \in Dispatcher /\ part.pc = "claim" /\ part.todo = {}
    BY <1>1 DEF Dispatcher
  <2>2. new = [part EXCEPT !.at = 0]
    OBVIOUS
  <2> HIDE DEF part, new
  <2> QED BY <2>1, <2>2 DEF Dispatcher, Time
<1> HIDE DEF new
<1>3. /\ DispatchersOK' /\ dispatchers'[d] = new
      /\ \A c \in Dispatchers \ {d} : dispatchers'[c] = dispatchers[c]
  BY <1>1, <1>2, OneDispatcherMoves, OutboxConstants
<1>4. Continues(d)
  BY <1>1, <1>2, <1>3 DEF Continues
<1> QED BY <1>1, <1>3, <1>4, OthersContinue
        DEF Moves, RowMoves, TypeOK, DispatchersOK, CopiesMove

\* An idle dispatcher, after an error or a restart.
LEMMA DropMoves ==
    ASSUME TypeOK, NEW d \in Dispatchers,
           \/ Restart(d)
           \/ \E locked \in SUBSET Events : ClaimError(d, locked)
    PROVE  Moves
<1>1. SetDispatcher(d, IdleDispatcher) /\ UNCHANGED copies
  BY DEF Restart, ClaimError
<1>2. rows' \in [Events -> Row] /\ \A e \in Events : RowMoves(e)
  <2>1. CASE UNCHANGED rows
    BY <2>1 DEF TypeOK, RowMoves
  <2>2. ASSUME NEW locked \in SUBSET Events, ClaimError(d, locked),
               ClaimEffect(d, Claimed(d, locked))
        PROVE  rows' \in [Events -> Row] /\ \A e \in Events : RowMoves(e)
    BY <2>2, ClaimTakes DEF ClaimError
  <2> QED BY <2>1, <2>2 DEF Restart, ClaimError
<1> QED BY <1>1, <1>2, GivingUp DEF Moves, TypeOK, DispatchersOK, CopiesMove

LEMMA InsertMoves ==
    ASSUME TypeOK, NEW e \in Events, NEW delay \in 0..MaxDelay, Insert(e, delay)
    PROVE  Moves
<1> DEFINE new == [rows[e] EXCEPT !.available_at = delay]
<1>1. /\ rows[e].available_at = Null
      /\ rows' = [rows EXCEPT ![e] = new]
      /\ rows \in [Events -> Row] /\ delay \in Int
      /\ UNCHANGED <<copies, dispatchers>>
  BY OutboxConstants DEF Insert, TypeOK
<1>2. new \in Row
  BY <1>1 DEF Row, Time
<1>3. /\ rows' \in [Events -> Row] /\ rows'[e] = new
      /\ \A f \in Events \ {e} : rows'[f] = rows[f]
  <2> HIDE DEF new
  <2> QED BY <1>1, <1>2
<1>4. \A f \in Events : RowMoves(f)
  BY <1>1, <1>3 DEF RowMoves, Inserted
<1>5. /\ dispatchers' = dispatchers /\ copies' = copies
      /\ dispatchers \in [Dispatchers -> Dispatcher]
      /\ \A c \in Dispatchers : Continues(c)
  BY <1>1 DEF TypeOK, Continues
<1> QED BY <1>3, <1>4, <1>5 DEF Moves, TypeOK, CopiesMove

LEMMA StutterMoves ==
    ASSUME TypeOK, UNCHANGED vars PROVE Moves
BY DEF vars, Moves, RowMoves, Continues, TypeOK, CopiesMove

\* Every step is a tick of the clock or moves rows, dispatchers and messages
\* in the ways of Moves.
LEMMA NextMoves ==
    ASSUME TypeOK, [Next]_vars PROVE Tick \/ Moves
BY ClaimMoves, PublishMoves, MarkMoves, PollMoves, DropMoves, InsertMoves,
   StutterMoves DEF Next, DispatcherStep
-----------------------------------------------------------------------------
(* The clock *)

\* A tick moves timestamps only.
TickRow(old, new) ==
    /\ new \in Row
    /\ new.available_at = Older(old.available_at, ColumnLimit)
    /\ new.claim_until = Older(old.claim_until, ColumnLimit)
    /\ new.claim_owner = old.claim_owner
    /\ new.published = old.published
    /\ new.attempts = old.attempts

TickDispatcher(old, new) ==
    /\ new \in Dispatcher
    /\ new.at = Older(old.at, BatchLimit)
    /\ new.pc = old.pc /\ new.todo = old.todo /\ new.seen = old.seen

LEMMA TickMoves ==
    ASSUME TypeOK, Tick
    PROVE  /\ TypeOK'
           /\ \A e \in Events : TickRow(rows[e], rows'[e])
           /\ \A d \in Dispatchers : TickDispatcher(dispatchers[d], dispatchers'[d])
           /\ copies' = copies
<1>0. ColumnLimit \in Int /\ BatchLimit \in Int /\ UNCHANGED copies
  <2>1. ColumnLimit \in Int /\ BatchLimit \in Int
    BY OutboxConstants DEF ColumnLimit, BatchLimit
  <2> QED BY <2>1 DEF Tick
<1>1. ASSUME NEW e \in Events PROVE TickRow(rows[e], rows'[e])
  <2> DEFINE old == rows[e]
             a == Older(old.available_at, ColumnLimit)
             b == Older(old.next_attempt_at, ColumnLimit)
             c == Older(old.claim_until, ColumnLimit)
  <2>1. old \in Row
    BY DEF TypeOK
  <2>2. {a, b, c} \subseteq Int \cup {Null}
    BY <1>0, <2>1, OlderFacts DEF Row, Time
  <2>3. rows'[e] = [old EXCEPT !.available_at = a, !.next_attempt_at = b,
                               !.claim_until = c]
    BY DEF Tick
  <2> HIDE DEF old, a, b, c
  <2>4. /\ rows'[e] \in Row
        /\ rows'[e].available_at = a /\ rows'[e].claim_until = c
        /\ rows'[e].claim_owner = old.claim_owner
        /\ rows'[e].published = old.published
        /\ rows'[e].attempts = old.attempts
    BY <2>1, <2>2, <2>3 DEF Row, Time
  <2> QED BY <2>4 DEF TickRow, old, a, c
<1>2. ASSUME NEW d \in Dispatchers
      PROVE  TickDispatcher(dispatchers[d], dispatchers'[d])
  <2> DEFINE old == dispatchers[d]
             t == Older(old.at, BatchLimit)
  <2>1. old \in Dispatcher
    BY DEF TypeOK
  <2>2. t \in Int \cup {Null}
    BY <1>0, <2>1, OlderFacts DEF Dispatcher, Time
  <2>3. dispatchers'[d] = [old EXCEPT !.at = t]
    BY DEF Tick
  <2> HIDE DEF old, t
  <2>4. /\ dispatchers'[d] \in Dispatcher /\ dispatchers'[d].at = t
        /\ dispatchers'[d].pc = old.pc /\ dispatchers'[d].todo = old.todo
        /\ dispatchers'[d].seen = old.seen
    BY <2>1, <2>2, <2>3 DEF Dispatcher, Time
  <2> QED BY <2>4 DEF TickDispatcher, old, t
<1>3. rows' \in [Events -> Row] /\ dispatchers' \in [Dispatchers -> Dispatcher]
  <2>1. rows' = [e \in Events |-> rows'[e]]
    BY DEF Tick
  <2>2. dispatchers' = [d \in Dispatchers |-> dispatchers'[d]]
    BY DEF Tick
  <2> QED BY <1>1, <1>2, <2>1, <2>2 DEF TickRow, TickDispatcher
<1>4. ASSUME NEW d \in Dispatchers
      PROVE  /\ dispatchers'[d].at = Null <=> dispatchers'[d].pc = "idle"
             /\ dispatchers'[d].todo = {} <=> dispatchers'[d].pc \in {"idle", "claim"}
  <2>1. dispatchers[d].at \in Int \cup {Null}
    BY DEF TypeOK, Dispatcher, Time
  <2>2. dispatchers'[d].at = Null <=> dispatchers[d].at = Null
    BY <1>0, <1>2, <2>1, OlderFacts DEF TickDispatcher
  <2> QED BY <1>2, <2>2 DEF TickDispatcher, TypeOK
<1> QED BY <1>0, <1>1, <1>2, <1>3, <1>4 DEF TypeOK
-----------------------------------------------------------------------------
(* The inductive invariant *)

LEMMA InitInv == Init => IInv
<1> SUFFICES ASSUME Init PROVE IInv
  OBVIOUS
<1>1. \A d \in Dispatchers :
        /\ dispatchers[d] \in Dispatcher /\ dispatchers[d].pc = "idle"
        /\ dispatchers[d].at = Null /\ dispatchers[d].todo = {}
  BY IdleFacts DEF Init
<1>2. rows \in [Events -> Row] /\ copies \in [Events -> 0..2]
  BY OutboxConstants DEF Init, Row
<1>3. TypeOK
  BY <1>1, <1>2 DEF Init, TypeOK
<1>4. \A e \in Events : ~rows[e].published
  BY DEF Init
<1> QED
  BY <1>1, <1>3, <1>4
     DEF IInv, ClaimReadings, LiveClaimsHold, SentHasCopy, WorkIsCommitted,
         PublishedWasSent, AttemptsAreCurrent

LEMMA NextTypes == TypeOK /\ [Next]_vars => TypeOK'
BY NextMoves, TickMoves DEF Moves

\* Only a row that is in the table is claimable, and a claim in force is not
\* taken over.
LEMMA TakenFacts ==
    ASSUME TypeOK, ClaimReadings, NEW d \in Dispatchers, NEW e \in Events,
           Taken(d, e)
    PROVE  /\ rows[e].available_at # Null
           /\ ~rows[e].published
           /\ rows[e].claim_owner = Null \/ rows[e].claim_until = Null
                \/ rows[e].claim_until < 0
           /\ dispatchers[d].at \in Int
           /\ rows'[e].claim_owner = d
           /\ rows'[e].claim_until = dispatchers[d].at + ClaimTTL
           /\ rows'[e].available_at = rows[e].available_at
           /\ rows'[e].published = rows[e].published
           /\ rows'[e].attempts = rows[e].attempts
<1>1. rows[e] \in Row /\ dispatchers[d].at \in Int /\ dispatchers[d].at <= 0
  BY DEF TypeOK, ClaimReadings, Taken, Dispatcher, Time
<1>2. /\ rows[e].available_at # Null /\ ~rows[e].published
      /\ rows[e].claim_owner = Null \/ rows[e].claim_until = Null
           \/ rows[e].claim_until < dispatchers[d].at
  BY DEF Taken, Claimable
<1>3. rows[e].claim_until \in Int \cup {Null}
  BY <1>1 DEF Row, Time
<1>4. dispatchers[d].at + ClaimTTL \in Int
  BY <1>1, OutboxConstants
<1>5. /\ rows'[e].claim_owner = d
      /\ rows'[e].claim_until = dispatchers[d].at + ClaimTTL
      /\ rows'[e].available_at = rows[e].available_at
      /\ rows'[e].published = rows[e].published
      /\ rows'[e].attempts = rows[e].attempts
  <2> DEFINE t   == dispatchers[d].at + ClaimTTL
             new == [rows[e] EXCEPT !.claim_owner = d, !.claim_until = t]
  <2>1. rows'[e] = new
    BY DEF Taken
  <2>2. t \in Int
    BY <1>4
  <2> HIDE DEF t
  <2>3. /\ new.claim_owner = d /\ new.claim_until = t
        /\ new.available_at = rows[e].available_at
        /\ new.published = rows[e].published
        /\ new.attempts = rows[e].attempts
    BY <1>1, <2>2 DEF Row
  <2> HIDE DEF new
  <2> QED BY <2>1, <2>3 DEF t
<1> QED BY <1>1, <1>2, <1>3, <1>5

\* A result is recorded by the owner of a row that is not published.
LEMMA SettledFacts ==
    ASSUME TypeOK, NEW d \in Dispatchers, NEW e \in Events, Settled(d, e)
    PROVE  /\ rows[e].claim_owner = d
           /\ ~rows[e].published
           /\ rows'[e].claim_owner = Null
           /\ rows'[e].available_at = rows[e].available_at
           /\ rows'[e].published => dispatchers[d].pc = "sent" /\ Current(d, e)
<1>1. rows[e] \in Row
  BY DEF TypeOK
<1>2. rows[e].claim_owner = d /\ ~rows[e].published
  BY DEF Settled, Owns
<1>3. CASE /\ dispatchers[d].pc = "sent" /\ Current(d, e)
           /\ rows'[e] = PublishedRow(rows[e])
  BY <1>1, <1>2, <1>3, PublishedRowFacts
<1>4. ASSUME NEW t \in Int, rows'[e] = FailedRow(rows[e], t)
      PROVE  /\ rows'[e].claim_owner = Null
             /\ rows'[e].available_at = rows[e].available_at
             /\ ~rows'[e].published
  BY <1>1, <1>2, <1>4, FailedRowFacts
<1> QED BY <1>2, <1>3, <1>4 DEF Settled

\* An insert changes available_at only.
LEMMA InsertedFacts ==
    ASSUME TypeOK, NEW e \in Events, Inserted(e)
    PROVE  /\ rows'[e].available_at # Null
           /\ rows'[e].published = rows[e].published
           /\ rows'[e].attempts = rows[e].attempts
           /\ rows'[e].claim_owner = rows[e].claim_owner
           /\ rows'[e].claim_until = rows[e].claim_until
BY OutboxConstants DEF TypeOK, Inserted, Row, Time

LEMMA KeepsReadings ==
    ASSUME IInv, Moves PROVE ClaimReadings'
<1> SUFFICES ASSUME NEW d \in Dispatchers, dispatchers'[d].pc = "claim"
             PROVE  -MaxStall <= dispatchers'[d].at /\ dispatchers'[d].at <= 0
  BY DEF ClaimReadings
<1> QED BY OutboxConstants DEF IInv, Moves, Begins, Continues, ClaimReadings

LEMMA KeepsLiveClaims ==
    ASSUME IInv, Moves PROVE LiveClaimsHold'
<1> SUFFICES ASSUME NEW d \in Dispatchers, NEW e \in dispatchers'[d].todo,
                    dispatchers'[d].at + ClaimTTL >= 0
             PROVE  /\ rows'[e].claim_owner = d
                    /\ rows'[e].claim_until = dispatchers'[d].at + ClaimTTL
  BY DEF LiveClaimsHold
<1>0. /\ TypeOK /\ ClaimReadings /\ e \in Events
      /\ d # Null /\ ClaimTTL \in Int
  BY OutboxConstants DEF IInv, Moves, TypeOK, Dispatcher
<1>1. CASE Begins(d)
  BY <1>0, <1>1, TakenFacts DEF Begins
<1>2. CASE Continues(d)
  <2>1. e \in dispatchers[d].todo /\ dispatchers'[d].at = dispatchers[d].at
    BY <1>2 DEF Continues
  <2>2. /\ rows[e].claim_owner = d
        /\ rows[e].claim_until = dispatchers[d].at + ClaimTTL
    BY <2>1 DEF IInv, LiveClaimsHold
  <2>3. dispatchers[d].at \in Int
    BY <1>0, <2>1 DEF TypeOK, Dispatcher, Time
  <2>4. rows[e].claim_until \in Int /\ rows[e].claim_until >= 0
    BY <1>0, <2>1, <2>2, <2>3
  <2>5. ASSUME NEW c \in Dispatchers, Taken(c, e) PROVE FALSE
    BY <1>0, <2>2, <2>4, <2>5, TakenFacts, OutboxConstants
  <2>6. ASSUME NEW c \in Dispatchers, Settled(c, e) PROVE FALSE
    BY <2>2, <2>6 DEF Settled, Owns
  <2>7. CASE Inserted(e)
    BY <1>0, <2>1, <2>2, <2>7, InsertedFacts
  <2>8. CASE rows'[e] = rows[e]
    BY <2>1, <2>2, <2>8
  <2> QED BY <1>0, <2>5, <2>6, <2>7, <2>8 DEF Moves, RowMoves
<1> QED BY <1>1, <1>2 DEF Moves

LEMMA KeepsSent ==
    ASSUME IInv, Moves PROVE SentHasCopy'
<1> SUFFICES ASSUME NEW d \in Dispatchers, NEW e \in Events,
                    dispatchers'[d].pc = "sent", Current(d, e)'
             PROVE  copies'[e] > 0
  BY DEF SentHasCopy
<1>1. /\ Continues(d)
      /\ dispatchers'[d].todo = dispatchers[d].todo
      /\ \/ dispatchers'[d] = dispatchers[d]
         \/ Current(d, e) => copies'[e] > 0
  BY DEF Moves, Begins, Continues
<1>2. Current(d, e)
  BY <1>1 DEF Current
<1> QED BY <1>1, <1>2 DEF IInv, Moves, CopiesMove, SentHasCopy

LEMMA KeepsCommitted ==
    ASSUME IInv, Moves PROVE WorkIsCommitted'
<1> SUFFICES ASSUME NEW e \in Events, rows'[e].available_at = Null
             PROVE  /\ ~rows'[e].published
                    /\ \A d \in Dispatchers : e \notin dispatchers'[d].todo
  BY DEF WorkIsCommitted
<1>0. TypeOK /\ ClaimReadings
  BY DEF IInv
<1>1. ASSUME NEW d \in Dispatchers PROVE ~Taken(d, e)
  BY <1>0, TakenFacts
<1>2. rows[e].available_at = Null
  BY <1>0, <1>1, SettledFacts, InsertedFacts DEF Moves, RowMoves
<1>3. ~rows[e].published /\ \A d \in Dispatchers : e \notin dispatchers[d].todo
  BY <1>2 DEF IInv, WorkIsCommitted
<1>4. ~Inserted(e)
  BY <1>0, InsertedFacts
<1>5. rows'[e] = rows[e]
  BY <1>1, <1>3, <1>4 DEF Moves, RowMoves, Settled
<1> QED BY <1>1, <1>3, <1>5 DEF Moves, Begins, Continues

LEMMA KeepsPublished ==
    ASSUME IInv, Moves PROVE PublishedWasSent'
<1> SUFFICES ASSUME NEW e \in Events, rows'[e].published PROVE copies'[e] > 0
  BY DEF PublishedWasSent
<1>0. TypeOK /\ ClaimReadings
  BY DEF IInv
<1>1. CASE rows[e].published
  BY <1>1 DEF IInv, PublishedWasSent, Moves, CopiesMove
<1>2. ASSUME NEW d \in Dispatchers, Settled(d, e) PROVE copies'[e] > 0
  BY <1>0, <1>2, SettledFacts DEF IInv, SentHasCopy, Moves, CopiesMove
<1> QED BY <1>0, <1>1, <1>2, TakenFacts, InsertedFacts DEF Moves, RowMoves

LEMMA KeepsAttempts ==
    ASSUME IInv, Moves PROVE AttemptsAreCurrent'
<1> SUFFICES ASSUME NEW d \in Dispatchers, NEW e \in dispatchers'[d].todo,
                    rows'[e].claim_owner = d, ~rows'[e].published
             PROVE  dispatchers'[d].seen[e] = rows'[e].attempts
  BY DEF AttemptsAreCurrent, Owns
<1>0. TypeOK /\ ClaimReadings /\ e \in Events /\ d # Null
  BY OutboxConstants DEF IInv, Moves, TypeOK, Dispatcher
<1>1. CASE Begins(d)
  BY <1>0, <1>1, TakenFacts DEF Begins
<1>2. CASE Continues(d)
  <2>1. e \in dispatchers[d].todo /\ dispatchers'[d].seen[e] = dispatchers[d].seen[e]
    BY <1>2 DEF Continues
  <2>2. ASSUME NEW c \in Dispatchers, Taken(c, e) PROVE FALSE
    <3>1. c = d
      BY <1>0, <2>2, TakenFacts
    <3> QED BY <2>1, <2>2, <3>1, <1>0 DEF Taken, TypeOK
  <2>3. ASSUME NEW c \in Dispatchers, Settled(c, e) PROVE FALSE
    BY <1>0, <2>3, SettledFacts
  <2>4. /\ rows'[e].attempts = rows[e].attempts
        /\ rows'[e].claim_owner = rows[e].claim_owner
        /\ rows'[e].published = rows[e].published
    BY <1>0, <2>2, <2>3, InsertedFacts DEF Moves, RowMoves
  <2> QED BY <2>1, <2>4 DEF IInv, AttemptsAreCurrent, Owns
<1> QED BY <1>1, <1>2 DEF Moves

\* The clock makes claims end, and changes nothing else of the invariant.
LEMMA TickInv ==
    ASSUME IInv, Tick PROVE IInv'
<1>0. /\ TypeOK /\ TypeOK'
      /\ \A e \in Events : TickRow(rows[e], rows'[e])
      /\ \A d \in Dispatchers : TickDispatcher(dispatchers[d], dispatchers'[d])
      /\ copies' = copies
  BY TickMoves DEF IInv
<1>1. /\ ColumnLimit \in Int /\ BatchLimit \in Int
      /\ ColumnLimit > 0 /\ BatchLimit > MaxStall /\ BatchLimit > ClaimTTL
      /\ ClaimTTL \in Int /\ MaxStall \in Int
  BY OutboxConstants DEF ColumnLimit, BatchLimit
<1>2. ClaimReadings'
  <2> SUFFICES ASSUME NEW d \in Dispatchers, dispatchers'[d].pc = "claim"
               PROVE  -MaxStall <= dispatchers'[d].at /\ dispatchers'[d].at <= 0
    BY DEF ClaimReadings
  <2>1. dispatchers[d].pc = "claim" /\ dispatchers'[d].at = Older(dispatchers[d].at, BatchLimit)
    BY <1>0 DEF TickDispatcher
  <2>2. /\ dispatchers[d].at \in Int /\ dispatchers[d].at <= 0
        /\ dispatchers[d].at > -MaxStall
    BY <1>0, <2>1 DEF IInv, ClaimReadings, Tick, TypeOK, Dispatcher, Time
  <2>3. dispatchers[d].at > -BatchLimit
    BY <1>1, <2>2
  <2>4. Older(dispatchers[d].at, BatchLimit) = dispatchers[d].at - 1
    BY <1>1, <2>2, <2>3, OlderFacts
  <2> QED BY <1>1, <2>1, <2>2, <2>4
<1>3. LiveClaimsHold'
  <2> SUFFICES ASSUME NEW d \in Dispatchers, NEW e \in dispatchers'[d].todo,
                      dispatchers'[d].at + ClaimTTL >= 0
               PROVE  /\ rows'[e].claim_owner = d
                      /\ rows'[e].claim_until = dispatchers'[d].at + ClaimTTL
    BY DEF LiveClaimsHold
  <2>1. e \in dispatchers[d].todo /\ e \in Events /\ dispatchers[d].at \in Int
    BY <1>0 DEF TickDispatcher, TypeOK, Dispatcher, Time
  <2>2. dispatchers'[d].at = Older(dispatchers[d].at, BatchLimit)
    BY <1>0 DEF TickDispatcher
  <2>3. dispatchers'[d].at = dispatchers[d].at - 1
    <3> DEFINE t == dispatchers[d].at
    <3>1. t \in Int /\ (t <= -BatchLimit => Older(t, BatchLimit) = t)
                   /\ (t > -BatchLimit => Older(t, BatchLimit) = t - 1)
      BY <1>1, <2>1, OlderFacts
    <3>2. Older(t, BatchLimit) + ClaimTTL >= 0
      BY <2>2
    <3> HIDE DEF t
    <3>3. Older(t, BatchLimit) = t - 1
      BY <1>1, <3>1, <3>2
    <3> QED BY <2>2, <3>3 DEF t
  <2>4. dispatchers[d].at + ClaimTTL >= 1
    BY <1>1, <2>1, <2>3
  <2>5. /\ rows[e].claim_owner = d
        /\ rows[e].claim_until = dispatchers[d].at + ClaimTTL
    BY <1>1, <2>1, <2>4 DEF IInv, LiveClaimsHold
  <2>6. Older(rows[e].claim_until, ColumnLimit) = rows[e].claim_until - 1
    BY <1>1, <2>1, <2>4, <2>5, OlderFacts
  <2> QED BY <1>0, <1>1, <2>1, <2>3, <2>5, <2>6 DEF TickRow
<1>4. SentHasCopy'
  BY <1>0 DEF TickDispatcher, IInv, SentHasCopy, Current
<1>5. WorkIsCommitted'
  <2> SUFFICES ASSUME NEW e \in Events, rows'[e].available_at = Null
               PROVE  /\ ~rows'[e].published
                      /\ \A d \in Dispatchers : e \notin dispatchers'[d].todo
    BY DEF WorkIsCommitted
  <2>1. rows[e].available_at \in Int \cup {Null}
    BY <1>0 DEF TypeOK, Row, Time
  <2>2. rows[e].available_at = Null
    BY <1>0, <1>1, <2>1, OlderFacts DEF TickRow
  <2> QED BY <1>0, <2>2 DEF IInv, WorkIsCommitted, TickRow, TickDispatcher
<1>6. PublishedWasSent' /\ AttemptsAreCurrent'
  <2>1. PublishedWasSent'
    BY <1>0 DEF TickRow, IInv, PublishedWasSent
  <2>2. \A d \in Dispatchers : \A e \in dispatchers[d].todo : e \in Events
    BY <1>0 DEF TypeOK, Dispatcher
  <2>3. AttemptsAreCurrent'
    BY <1>0, <2>2 DEF TickRow, TickDispatcher, IInv, AttemptsAreCurrent, Owns
  <2> QED BY <2>1, <2>3
<1> QED BY <1>0, <1>2, <1>3, <1>4, <1>5, <1>6 DEF IInv

LEMMA NextInv == IInv /\ [Next]_vars => IInv'
<1> SUFFICES ASSUME IInv, [Next]_vars PROVE IInv'
  OBVIOUS
<1>1. Tick \/ Moves
  BY NextMoves DEF IInv
<1>2. CASE Moves
  BY <1>2, KeepsReadings, KeepsLiveClaims, KeepsSent, KeepsCommitted,
     KeepsPublished, KeepsAttempts DEF IInv, Moves
<1> QED BY <1>1, <1>2, TickInv

LEMMA Invariance == Spec => []IInv
BY InitInv, NextInv, PTL DEF Spec
-----------------------------------------------------------------------------
(* Theorems *)

\* Rows, messages and dispatchers are what the code can make them; a
\* dispatcher has events to work on exactly while it is in the loop over its
\* batch.
THEOREM TypeCorrect == Spec => []TypeOK
BY Invariance, PTL DEF IInv

\* No event is marked published whose message was not sent, whatever XADD
\* answers, claims expire and processes restart.
THEOREM PublishedEventsAreSent == Spec => []PublishedWasSent
BY Invariance, PTL DEF IInv

\* Two dispatchers never work on the same event while their claims last, so
\* the row of an event always shows the one claim that is in force.
THEOREM LiveClaimsApart == Spec => []LiveClaimsAreDisjoint
<1>1. IInv => LiveClaimsAreDisjoint
  BY DEF IInv, TypeOK, Dispatcher, LiveClaimsHold, LiveClaimsAreDisjoint
<1> QED BY <1>1, Invariance, PTL

\* MarkFailed backs off by the number of attempts the row has.
THEOREM BackoffCountsAttempts == Spec => []AttemptsAreCurrent
BY Invariance, PTL DEF IInv
-----------------------------------------------------------------------------
(* AtLeastOnce, without its fairness *)

\* A step that keeps what AtLeastOnce sees is a stutter of it.
LEMMA StutterOfPromise ==
    ASSUME UNCHANGED copies,
           \A e \in Events : /\ rows'[e].available_at = Null <=>
                                rows[e].available_at = Null
                             /\ rows'[e].published = rows[e].published
    PROVE  UNCHANGED Promise!vars
BY DEF Promise!vars

\* Rows an event at a time, for the steps that write one row.
LEMMA OneRow ==
    ASSUME TypeOK, NEW e \in Events, NEW row, rows' = [rows EXCEPT ![e] = row]
    PROVE  rows'[e] = row /\ \A f \in Events \ {e} : rows'[f] = rows[f]
BY DEF TypeOK

LEMMA NextOfPromise ==
    ASSUME IInv, [Next]_vars PROVE [Promise!Next]_(Promise!vars)
<1>0. TypeOK /\ TypeOK' /\ ClaimReadings
  BY NextInv DEF IInv
<1>1. CASE Tick
  <2> SUFFICES ASSUME NEW e \in Events
               PROVE  /\ rows'[e].available_at = Null <=> rows[e].available_at = Null
                      /\ rows'[e].published = rows[e].published
    BY <1>0, <1>1, TickMoves, StutterOfPromise
  <2>1. /\ TickRow(rows[e], rows'[e])
        /\ rows[e].available_at \in Int \cup {Null} /\ ColumnLimit \in Int
    BY <1>0, <1>1, TickMoves, OutboxConstants DEF TypeOK, Row, Time, ColumnLimit
  <2> QED BY <2>1, OlderFacts DEF TickRow
<1>2. ASSUME NEW e \in Events, NEW delay \in 0..MaxDelay, Insert(e, delay)
      PROVE  Promise!Commit(e)
  <2> DEFINE new == [rows[e] EXCEPT !.available_at = delay]
  <2>1. /\ rows[e] \in Row /\ delay # Null /\ rows[e].available_at = Null
        /\ rows' = [rows EXCEPT ![e] = new] /\ UNCHANGED copies
    BY <1>0, <1>2, OutboxConstants DEF TypeOK, Insert
  <2>2. new.available_at # Null /\ new.published = rows[e].published
    BY <2>1 DEF Row
  <2> HIDE DEF new
  <2>3. rows'[e] = new /\ \A f \in Events \ {e} : rows'[f] = rows[f]
    BY <1>0, <2>1, OneRow
  <2> QED BY <2>1, <2>2, <2>3 DEF Promise!Commit
<1>3. ASSUME NEW d \in Dispatchers, NEW e \in Events,
             Publish(d, e) \/ PublishError(d, e)
      PROVE  Promise!Send(e) \/ UNCHANGED Promise!vars
  <2>1. UNCHANGED rows /\ (Sent(e) \/ UNCHANGED copies) /\ e \in dispatchers[d].todo
    BY <1>3 DEF Publish, PublishError, Current
  <2>2. rows[e].available_at # Null
    BY <2>1 DEF IInv, WorkIsCommitted
  <2> QED BY <2>1, <2>2 DEF Sent, Promise!Send, Promise!vars
<1>4. ASSUME NEW d \in Dispatchers, NEW e \in Events, MarkPublished(d, e), Owns(d, e)
      PROVE  Promise!Finish(e)
  <2>1. /\ rows' = [rows EXCEPT ![e] = PublishedRow(rows[e])] /\ UNCHANGED copies
        /\ dispatchers[d].pc = "sent" /\ Current(d, e)
        /\ ~rows[e].published /\ rows[e] \in Row
    BY <1>0, <1>4 DEF MarkPublished, Owns, TypeOK
  <2>2. rows[e].available_at # Null /\ copies[e] > 0
    BY <2>1 DEF IInv, WorkIsCommitted, SentHasCopy, Current
  <2>3. /\ rows'[e] = PublishedRow(rows[e])
        /\ \A f \in Events \ {e} : rows'[f] = rows[f]
    BY <1>0, <2>1, OneRow
  <2>4. rows'[e].published /\ rows'[e].available_at = rows[e].available_at
    BY <2>1, <2>3, PublishedRowFacts
  <2> QED BY <2>1, <2>2, <2>3, <2>4 DEF Promise!Finish
<1>5. ASSUME NEW d \in Dispatchers, NEW e \in Events,
             \/ MarkPublished(d, e) /\ ~Owns(d, e)
             \/ MarkFailed(d, e)
             \/ MarkError(d, e)
      PROVE  UNCHANGED Promise!vars
  <2>1. CASE UNCHANGED <<rows, copies>>
    BY <2>1 DEF Promise!vars
  <2>2. CASE MarkFailed(d, e) /\ Owns(d, e)
    <3> SUFFICES ASSUME NEW f \in Events
                 PROVE  /\ rows'[f].available_at = rows[f].available_at
                        /\ rows'[f].published = rows[f].published
      BY <2>2, StutterOfPromise DEF MarkFailed
    <3>1. /\ rows' = [rows EXCEPT ![e] = FailedRow(rows[e], RetryAt(d, e))]
          /\ rows[e] \in Row
      BY <1>0, <2>2 DEF MarkFailed, TypeOK
    <3>2. /\ rows'[e] = FailedRow(rows[e], RetryAt(d, e))
          /\ \A g \in Events \ {e} : rows'[g] = rows[g]
      BY <1>0, <3>1, OneRow
    <3> QED BY <3>1, <3>2 DEF FailedRow, Row
  <2> QED BY <1>5, <2>1, <2>2 DEF MarkPublished, MarkFailed, MarkError
<1>6. ASSUME NEW d \in Dispatchers, NEW locked \in SUBSET Events,
             ClaimBatch(d, locked) \/ ClaimError(d, locked)
      PROVE  UNCHANGED Promise!vars
  <2> SUFFICES ASSUME NEW e \in Events
               PROVE  /\ rows'[e].available_at = rows[e].available_at
                      /\ rows'[e].published = rows[e].published
    BY <1>6, StutterOfPromise DEF ClaimBatch, ClaimError
  <2>1. CASE UNCHANGED rows
    BY <2>1
  <2>2. CASE ClaimEffect(d, Claimed(d, locked))
    <3>1. rows[e] \in Row
      BY <1>0 DEF TypeOK
    <3>2. CASE e \in Claimed(d, locked)
      BY <1>0, <1>6, <2>2, <3>2, ClaimTakes, TakenFacts DEF ClaimBatch, ClaimError
    <3>3. CASE e \notin Claimed(d, locked)
      BY <2>2, <3>3 DEF ClaimEffect
    <3> QED BY <3>2, <3>3
  <2> QED BY <1>6, <2>1, <2>2 DEF ClaimBatch, ClaimError
<1>7. ASSUME NEW d \in Dispatchers, Poll(d) \/ Restart(d)
      PROVE  UNCHANGED Promise!vars
  BY <1>7 DEF Poll, Restart, Promise!vars
<1>8. CASE UNCHANGED vars
  BY <1>8 DEF vars, Promise!vars
<1> QED BY <1>1, <1>2, <1>3, <1>4, <1>5, <1>6, <1>7, <1>8
        DEF Next, DispatcherStep, Promise!Next

\* The dispatchers implement the safety part of AtLeastOnce, step by step: an
\* event is sent only once it is committed, is finished only once it is sent,
\* and is neither uncommitted nor unpublished again.
THEOREM PromiseKept == Spec => Promise!Safety
<1>1. Init => Promise!Init
  BY DEF Init, Promise!Init
<1> QED BY <1>1, NextOfPromise, Invariance, PTL DEF Spec, Promise!Safety
=============================================================================
