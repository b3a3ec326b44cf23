--------------------------- MODULE ConsumerGroup ----------------------------
(***************************************************************************)
(* How messages of the Redis Stream reach the goroutines of the workers:   *)
(* the read loop of StreamWorker with XREADGROUP, XAUTOCLAIM, the bounded  *)
(* pool and XACK, and the retention cleaner with XPENDING and XTRIM.       *)
(*                                                                         *)
(* Redis itself is external; its commands are modelled as the code uses    *)
(* them.  A message is new until it is delivered to some consumer; from    *)
(* then on it is in the pending entries list until it is acknowledged.     *)
(* What a handler does with a message is Worker.tla's subject: here it     *)
(* ends with XACK or without.                                              *)
(*                                                                         *)
(* Time is relative, as in Outbox.tla: 0 is the present, a tick makes      *)
(* every timestamp one older, and what is old enough stops ageing.         *)
(***************************************************************************)
EXTENDS Integers, FiniteSetsExt

CONSTANTS
    Workers,
    Handlers,     \* the goroutines of all pools
    Owner,        \* the worker whose pool a handler belongs to
    Null,
    MaxMessages,  \* bound: messages added to the Stream
    ReadCount,    \* worker.read_count
    ReclaimIdle,  \* worker.reclaim_idle_seconds
    Retention,    \* recovery.stream_retention_hours
    StreamMaxLen  \* outbox.stream_max_len; 0, the default, is no limit

ASSUME GroupConstants ==
    /\ Owner \in [Handlers -> Workers]
    /\ MaxMessages \in Nat
    /\ ReadCount \in Nat \ {0}
    /\ ReclaimIdle \in Nat \ {0}
    /\ Retention \in Nat \ {0}
    /\ StreamMaxLen \in Nat
    /\ Null \notin Int \cup Workers
    /\ Null \notin [consumer : Workers, since : Int]

\* Message ids, in the order Redis gave them out.
Messages == 1..MaxMessages

Time == Int

VARIABLES
    stamp,      \* the time part of each message's id, Null before XADD
    kept,       \* messages the Stream still holds
    delivered,  \* the group's last-delivered-id
    pending,    \* pending entries: consumer and time of delivery, or Null
    acked,      \* messages acknowledged so far
    loops,      \* the read loop of each worker
    pool,       \* the message each goroutine works on, or Null
    trim        \* the cleaner between XPENDING and XTRIM, or Null

vars == <<stamp, kept, delivered, pending, acked, loops, pool, trim>>
-----------------------------------------------------------------------------
Added == {m \in Messages : stamp[m] # Null}

Entry == [consumer : Workers, since : Time]

\* queue: messages read, not handed to the pool yet; cursor: reclaimCursor.
Loop == [pc : {"reclaim", "read"}, queue : SUBSET Messages, cursor : 0..MaxMessages]

StartedLoop == [pc |-> "reclaim", queue |-> {}, cursor |-> 0]

\* XTRIM MINID drops what is before bound; seen is the group's
\* last-delivered-id at the time of XPENDING, for the properties only.
Trim == [bound : 1..(MaxMessages + 1), seen : 0..MaxMessages]

TypeOK ==
    /\ stamp \in [Messages -> Time \cup {Null}]
    /\ kept \subseteq Added
    /\ delivered \in 0..MaxMessages
    /\ pending \in [Messages -> Entry \cup {Null}]
    /\ acked \subseteq Added
    /\ loops \in [Workers -> Loop]
    /\ pool \in [Handlers -> Messages \cup {Null}]
    /\ trim \in Trim \cup {Null}

\* EnsureConsumerGroup has created the group at id 0.
Init ==
    /\ stamp = [m \in Messages |-> Null]
    /\ kept = {} /\ acked = {}
    /\ delivered = 0
    /\ pending = [m \in Messages |-> Null]
    /\ loops = [w \in Workers |-> StartedLoop]
    /\ pool = [h \in Handlers |-> Null]
    /\ trim = Null

Older(t, limit) == IF t = Null \/ t <= -limit THEN t ELSE t - 1

Tick ==
    /\ stamp' = [m \in Messages |-> Older(stamp[m], Retention + 1)]
    /\ pending' = [m \in Messages |->
                     IF pending[m] = Null THEN Null
                     ELSE [pending[m] EXCEPT !.since = Older(@, ReclaimIdle)]]
    /\ UNCHANGED <<kept, delivered, acked, loops, pool, trim>>

\* A dispatcher's XADD.  With MAXLEN ~ it may drop the entries before some
\* first one, as long as StreamMaxLen of them stay.
Add(m, first) ==
    /\ m \notin Added /\ \A n \in 1..(m - 1) : n \in Added
    /\ stamp' = [stamp EXCEPT ![m] = 0]
    /\ kept' = {n \in kept \cup {m} : n >= first}
    /\ first = 1 \/ (StreamMaxLen > 0 /\ Cardinality(kept') >= StreamMaxLen)
    /\ UNCHANGED <<delivered, pending, acked, loops, pool, trim>>
-----------------------------------------------------------------------------
(* The read loop *)

SetLoop(w, state) == loops' = [loops EXCEPT ![w] = state]

\* The first n of a set of messages.
First(n, messages) ==
    {m \in messages : Cardinality({k \in messages : k < m}) < n}

Delivered(w, messages) ==
    [m \in Messages |->
       IF m \in messages THEN [consumer |-> w, since |-> 0] ELSE pending[m]]

InGroup == {m \in Messages : pending[m] # Null}

\* XAUTOCLAIM walks the entries from the cursor on and stops after ReadCount of
\* them that it claims, having been idle, or drops, having been trimmed.
Idle(w) ==
    {m \in InGroup : /\ m >= loops[w].cursor
                     /\ pending[m].since <= -ReclaimIdle \/ m \notin kept}

Taken(w) == First(ReadCount, Idle(w))

\* Mutant: goes on from the last message claimed, and never starts over.
NextCursorForward(w) ==
    IF Taken(w) = {} THEN loops[w].cursor ELSE Max(Taken(w))

\* Mutant: always the id after the last message claimed.
NextCursorPastEnd(w) ==
    IF Taken(w) = {} THEN 0 ELSE Max(Taken(w)) + 1

\* The first entry not walked over, or 0-0 at the end of the list.
NextCursor(w) ==
    LET rest == {m \in InGroup : \A n \in Taken(w) : m > n}
    IN  IF Cardinality(Taken(w)) < ReadCount \/ rest = {} THEN 0 ELSE Min(rest)

Reclaim(w) ==
    /\ pending' = [m \in Messages |-> IF m \in Taken(w) \ kept THEN Null
                                      ELSE Delivered(w, Taken(w))[m]]
    /\ UNCHANGED <<stamp, kept, delivered, acked, pool, trim>>

AutoClaim(w) ==
    /\ loops[w].pc = "reclaim" /\ loops[w].queue = {}
    /\ Reclaim(w)
    /\ SetLoop(w, [pc |-> "read", queue |-> Taken(w) \cap kept,
                   cursor |-> NextCursor(w)])

\* It is not time to reclaim yet, or XAUTOCLAIM fails, perhaps in its answer
\* only.
NoReclaim(w) ==
    /\ loops[w].pc = "reclaim" /\ loops[w].queue = {}
    /\ Reclaim(w) \/ UNCHANGED <<stamp, kept, delivered, pending, acked, pool, trim>>
    /\ SetLoop(w, [loops[w] EXCEPT !.pc = "read"])

New == First(ReadCount, {m \in kept : m > delivered})

\* Mutant: XREADGROUP ... NOACK.
ReadNoAck(w) ==
    /\ delivered' = IF New = {} THEN delivered ELSE Max(New)
    /\ UNCHANGED <<stamp, kept, pending, acked, pool, trim>>

Read(w) ==
    /\ delivered' = IF New = {} THEN delivered ELSE Max(New)
    /\ pending' = Delivered(w, New)
    /\ UNCHANGED <<stamp, kept, acked, pool, trim>>

ReadNew(w) ==
    /\ loops[w].pc = "read" /\ loops[w].queue = {}
    /\ Read(w)
    /\ SetLoop(w, [loops[w] EXCEPT !.pc = "reclaim", !.queue = New])

\* XREADGROUP fails, perhaps in its answer only.
ReadError(w) ==
    /\ loops[w].pc = "read" /\ loops[w].queue = {}
    /\ Read(w) \/ UNCHANGED <<stamp, kept, delivered, pending, acked, pool, trim>>
    /\ SetLoop(w, [loops[w] EXCEPT !.pc = "reclaim"])

\* Submit blocks the loop until a goroutine of the pool is free.
Submit(w, h) ==
    /\ Owner[h] = w /\ pool[h] = Null
    /\ loops[w].queue # {}
    /\ pool' = [pool EXCEPT ![h] = Min(loops[w].queue)]
    /\ SetLoop(w, [loops[w] EXCEPT !.queue = @ \ {Min(@)}])
    /\ UNCHANGED <<stamp, kept, delivered, pending, acked, trim>>
-----------------------------------------------------------------------------
(* The handlers *)

\* XACK removes the entry whoever holds it, and is no error without one.
Ack(h) ==
    /\ pool[h] # Null
    /\ pending' = [pending EXCEPT ![pool[h]] = Null]
    /\ acked' = acked \cup {pool[h]}
    /\ pool' = [pool EXCEPT ![h] = Null]
    /\ UNCHANGED <<stamp, kept, delivered, loops, trim>>

\* The handler leaves the message pending, or its XACK fails.
NoAck(h) ==
    /\ pool[h] # Null
    /\ pool' = [pool EXCEPT ![h] = Null]
    /\ UNCHANGED <<stamp, kept, delivered, pending, acked, loops, trim>>

\* A worker process dies and is started again under the same consumer id.
Crash(w) ==
    /\ SetLoop(w, StartedLoop)
    /\ pool' = [h \in Handlers |-> IF Owner[h] = w THEN Null ELSE pool[h]]
    /\ UNCHANGED <<stamp, kept, delivered, pending, acked, trim>>
-----------------------------------------------------------------------------
(* TrimAcknowledgedBefore *)

Expired(m) == stamp[m] # Null /\ stamp[m] < -Retention

\* Mutant: does not look at the pending entries.
BoundByAge == 1 + Cardinality({m \in Messages : Expired(m)})

\* The id of the cutoff, or the first pending message if it is before that.
Bound ==
    LET cutoff == 1 + Cardinality({m \in Messages : Expired(m)})
    IN  IF InGroup # {} /\ Min(InGroup) < cutoff THEN Min(InGroup) ELSE cutoff

TrimRead ==
    /\ trim = Null
    /\ trim' = [bound |-> Bound, seen |-> delivered]
    /\ UNCHANGED <<stamp, kept, delivered, pending, acked, loops, pool>>

TrimApply ==
    /\ trim # Null
    /\ kept' = {m \in kept : m >= trim.bound}
    /\ trim' = Null
    /\ UNCHANGED <<stamp, delivered, pending, acked, loops, pool>>

\* Either command fails, or the cleaner's process ends between them.
TrimError ==
    /\ trim # Null
    /\ trim' = Null
    /\ UNCHANGED <<stamp, kept, delivered, pending, acked, loops, pool>>
-----------------------------------------------------------------------------
LoopStep(w) ==
    \/ AutoClaim(w) \/ NoReclaim(w)
    \/ ReadNew(w) \/ ReadError(w)
    \/ \E h \in Handlers : Submit(w, h)

HandlerStep(h) == Ack(h) \/ NoAck(h)

Next ==
    \/ Tick
    \/ \E m, first \in Messages : Add(m, first)
    \/ \E w \in Workers : LoopStep(w) \/ Crash(w)
    \/ \E h \in Handlers : HandlerStep(h)
    \/ TrimRead \/ TrimApply \/ TrimError

Spec == Init /\ [][Next]_vars

\* The loops run on and handlers come to an end.  Redis and MySQL are not down,
\* and processes do not die, every single time: among the repeated chances to
\* read, to reclaim, to submit and to acknowledge, one is taken.
Fairness ==
    /\ WF_vars(Tick)
    /\ \A w \in Workers : WF_vars(LoopStep(w))
    /\ \A h \in Handlers : WF_vars(HandlerStep(h))
    /\ SF_vars(\E w \in Workers : ReadNew(w) /\ New # {})
    /\ SF_vars(\E w \in Workers : AutoClaim(w))
    /\ SF_vars(\E w \in Workers : AutoClaim(w) /\ Taken(w) # {})
    /\ SF_vars(\E w \in Workers, h \in Handlers : Submit(w, h))
    /\ SF_vars(\E h \in Handlers : Ack(h))

FairSpec == Spec /\ Fairness
-----------------------------------------------------------------------------
(* Properties *)

\* Nothing falls out of the group: a message that was delivered stays among the
\* pending entries until it is acknowledged or trimmed, whichever worker, loop
\* or answer is lost on the way.
PendingUntilAcked ==
    \A m \in kept : m <= delivered /\ m \notin acked => pending[m] # Null

\* The cleaner spares delivered work: what it is about to trim was acknowledged
\* if it had been delivered when XPENDING ran.
TrimSparesDelivered ==
    trim # Null =>
        \A m \in kept : m < trim.bound /\ m <= trim.seen => m \in acked

\* Every message in the Stream is acknowledged some time, or trimmed: neither a
\* full pool, nor a dead worker, nor the walk of the reclaim cursor leaves one
\* behind.
MessagesGetAcked ==
    \A m \in Messages : m \in kept ~> m \in acked \/ m \notin kept

\* What docs/roles-and-runtime.md says of the cleaner: it removes nothing that
\* is not acknowledged.
TrimsAcknowledgedOnly ==
    \A m \in Added : m \in kept \/ m \in acked
=============================================================================
