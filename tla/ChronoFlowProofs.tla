-------------------------- MODULE ChronoFlowProofs --------------------------
(***************************************************************************)
(* Proofs about ChronoFlow.tla, for any executions, handlers and places in *)
(* the Stream: its bounds hold, and the queue never forgets an execution   *)
(* that has not ended.                                                     *)
(***************************************************************************)
EXTENDS ChronoFlow, TLAPS

-----------------------------------------------------------------------------
(* The inductive invariant *)

\* The events a row may have got besides the reconciler's: the first one, and
\* one for each attempt that was followed by another.
Announced(row) ==
    IF row.status \in Waiting THEN row.attempt + 1 ELSE row.attempt

\* A row and its events.  A run that somebody has, or has given up, is a RUNNING
\* row; a waiting row has an attempt left.  With clocks that agree an event
\* waits exactly as long as the row does.
Sound(row, events, skew) ==
    /\ row.holder # Null => row.status = "RUNNING"
    /\ row.status \in Waiting => row.attempt < MaxAttempts
    /\ row.status = "NONE" => events = NoEvents
    /\ events.later <= Announced(row)
    /\ events.ready + events.later + events.sent <= MaxEvents + Announced(row)
    /\ ~skew /\ row.status \in Waiting /\ ~row.due => events.later > 0

RowsAreSound == \A e \in Executions : Sound(rows[e], outbox[e], deployment.skew)

\* A place in the Stream is free or has a message of an execution the scheduler
\* has inserted.
MessagesAreSound ==
    \A m \in Messages :
        /\ stream[m].state = "free" <=> stream[m].execution = Null
        /\ stream[m].execution # Null => rows[stream[m].execution].status # "NONE"

\* A busy handler works on the message its place still has, unless another
\* handler has acknowledged it.
JobsAreSound ==
    \A h \in Handlers :
        IF jobs[h].pc = "idle" THEN jobs[h] = IdleJob
        ELSE /\ jobs[h].message \in Messages
             /\ jobs[h].execution \in Executions
             /\ rows[jobs[h].execution].status # "NONE"
             /\ stream[jobs[h].message].execution \in {Null, jobs[h].execution}

\* A handler that will acknowledge its message whatever happens to the row: it
\* is about to, or has not got the row and will read that it waits.
Spent(h, row) ==
    \/ jobs[h].pc = "ack"
    \/ jobs[h].pc = "read" /\ ~jobs[h].claimed /\ row.status # "RUNNING"

\* A message that carries e on: no handler is about to drop it.
Carries(m, e) ==
    /\ stream[m].execution = e
    /\ \A h \in Handlers : jobs[h].message = m => ~Spent(h, rows[e])

CarriedOn ==
    ~deployment.skew /\ ~deployment.trims =>
        \A e \in Executions :
            rows[e].status \in Waiting \cup {"RUNNING"} =>
                \/ outbox[e].ready > 0 \/ outbox[e].later > 0
                \/ \E m \in Messages : Carries(m, e)

IInv ==
    /\ TypeOK
    /\ RowsAreSound
    /\ MessagesAreSound
    /\ JobsAreSound
    /\ CarriedOn
-----------------------------------------------------------------------------
(* Rows and their events *)

\* Events as numbers without a bound, which Sound then sets.
CountedEvents == [ready : Nat, later : Nat, sent : Nat]

LEMMA EmptyFacts ==
    /\ EmptyRow \in Row /\ NoEvents \in Events
    /\ \A skew : Sound(EmptyRow, NoEvents, skew)
BY ChronoFlowConstants
   DEF EmptyRow, Row, NoEvents, Events, Sound, Announced, Waiting, Terminal

LEMMA NoneCounted ==
    ASSUME NEW events \in CountedEvents,
           events.ready = 0, events.later = 0, events.sent = 0
    PROVE  events = NoEvents
BY DEF CountedEvents, NoEvents

LEMMA RowFacts ==
    ASSUME TypeOK, NEW e \in Executions
    PROVE  /\ rows[e] \in Row /\ outbox[e] \in Events /\ outbox[e] \in CountedEvents
           /\ rows[e].status \in Waiting \cup Terminal \cup {"NONE", "RUNNING", "PURGED"}
           /\ rows[e].attempt \in Nat /\ rows[e].attempt <= MaxAttempts
           /\ rows[e].due \in BOOLEAN /\ rows[e].stale \in BOOLEAN
           /\ rows[e].expired \in BOOLEAN
           /\ rows[e].holder \in Handlers \cup {Null, Gone}
           /\ outbox[e].ready \in Nat /\ outbox[e].later \in Nat
           /\ outbox[e].sent \in Nat
<1>1. rows[e] \in Row /\ outbox[e] \in Events
  BY DEF TypeOK
<1>2. \A n \in Nat : 0..n \subseteq Nat
  OBVIOUS
<1>3. outbox[e] \in CountedEvents
  BY <1>1, <1>2, ChronoFlowConstants DEF Events, CountedEvents
<1> QED BY <1>1, <1>3, ChronoFlowConstants DEF Row, CountedEvents

LEMMA BoundedEvents ==
    ASSUME NEW row \in Row, NEW events \in CountedEvents, NEW skew,
           Sound(row, events, skew)
    PROVE  events \in Events
<1>1. /\ row.attempt \in Nat /\ row.attempt <= MaxAttempts
      /\ MaxAttempts \in Nat /\ MaxEvents \in Nat
  BY ChronoFlowConstants DEF Row
<1>2. Announced(row) \in Nat /\ Announced(row) <= MaxAttempts
  BY <1>1 DEF Announced, Sound
<1>3. /\ events.ready \in Nat /\ events.later \in Nat /\ events.sent \in Nat
      /\ events = [ready |-> events.ready, later |-> events.later, sent |-> events.sent]
  BY DEF CountedEvents
<1>4. /\ events.later <= MaxAttempts
      /\ events.ready <= MaxEvents + MaxAttempts
      /\ events.sent <= MaxEvents + MaxAttempts
  BY <1>1, <1>2, <1>3 DEF Sound
<1> QED BY <1>1, <1>3, <1>4 DEF Events

\* What holds of one row and its events after a step that changes only them.
LEMMA RowEffect ==
    ASSUME IInv, UNCHANGED deployment,
           NEW e \in Executions, NEW row \in Row, NEW events \in CountedEvents,
           Sound(row, events, deployment.skew),
           row.status = "NONE" => rows[e].status = "NONE",
           rows' = [rows EXCEPT ![e] = row],
           outbox' = [outbox EXCEPT ![e] = events]
    PROVE  /\ rows' \in [Executions -> Row] /\ outbox' \in [Executions -> Events]
           /\ RowsAreSound'
           /\ rows'[e] = row /\ outbox'[e] = events
           /\ \A x \in Executions \ {e} : rows'[x] = rows[x] /\ outbox'[x] = outbox[x]
           /\ \A x \in Executions : rows'[x].status = "NONE" => rows[x].status = "NONE"
<1>1. events \in Events
  BY BoundedEvents
<1>2. rows \in [Executions -> Row] /\ outbox \in [Executions -> Events]
  BY DEF IInv, TypeOK
<1>3. rows'[e] = row /\ outbox'[e] = events
  BY <1>2
<1>4. \A x \in Executions \ {e} : rows'[x] = rows[x] /\ outbox'[x] = outbox[x]
  BY <1>2
<1>5. \A x \in Executions : Sound(rows'[x], outbox'[x], deployment.skew)
  BY <1>3, <1>4 DEF IInv, RowsAreSound
<1>6. RowsAreSound'
  BY <1>5 DEF RowsAreSound
<1> QED BY <1>1, <1>2, <1>3, <1>4, <1>6

\* The messages and the jobs stay sound if executions are only inserted.
LEMMA SameStream ==
    ASSUME IInv, UNCHANGED stream,
           \A x \in Executions : rows'[x].status = "NONE" => rows[x].status = "NONE"
    PROVE  MessagesAreSound' /\ (UNCHANGED jobs => JobsAreSound')
<1>1. \A m \in Messages : stream[m].execution \in Executions \cup {Null}
  BY DEF IInv, TypeOK, Message
<1>2. MessagesAreSound'
  BY <1>1 DEF IInv, MessagesAreSound
<1>3. ASSUME UNCHANGED jobs PROVE JobsAreSound'
  BY <1>3 DEF IInv, JobsAreSound
<1> QED BY <1>2, <1>3

Live == Waiting \cup {"RUNNING"}

\* A step of a row alone: if it still lives, an event is due to be sent, or
\* it is carried on by the message that carried it before.
LEMMA RowStep ==
    ASSUME IInv, UNCHANGED <<stream, jobs, deployment>>,
           NEW e \in Executions, NEW row \in Row, NEW events \in CountedEvents,
           Sound(row, events, deployment.skew),
           row.status = "NONE" => rows[e].status = "NONE",
           rows' = [rows EXCEPT ![e] = row],
           outbox' = [outbox EXCEPT ![e] = events],
           ~deployment.skew /\ row.status \in Live =>
              \/ events.ready > 0 \/ events.later > 0
              \/ /\ rows[e].status \in Live
                 /\ row.status = rows[e].status \/ row.status = "RUNNING"
                 /\ ~(outbox[e].ready > 0) /\ ~(outbox[e].later > 0)
    PROVE  IInv'
<1>1. /\ rows' \in [Executions -> Row] /\ outbox' \in [Executions -> Events]
      /\ RowsAreSound'
      /\ rows'[e] = row /\ outbox'[e] = events
      /\ \A x \in Executions \ {e} : rows'[x] = rows[x] /\ outbox'[x] = outbox[x]
      /\ \A x \in Executions : rows'[x].status = "NONE" => rows[x].status = "NONE"
  BY RowEffect
<1>2. TypeOK'
  BY <1>1 DEF IInv, TypeOK
<1>3. MessagesAreSound' /\ JobsAreSound'
  BY <1>1, SameStream
<1>4. CarriedOn'
  <2> SUFFICES ASSUME ~deployment.skew, ~deployment.trims,
                      NEW x \in Executions, rows'[x].status \in Live
               PROVE  \/ outbox'[x].ready > 0 \/ outbox'[x].later > 0
                      \/ \E m \in Messages : Carries(m, x)'
    BY DEF CarriedOn, Live
  <2>1. rows[x].status \in Live =>
          \/ outbox[x].ready > 0 \/ outbox[x].later > 0
          \/ \E m \in Messages : Carries(m, x)
    BY DEF IInv, CarriedOn, Live
  <2>2. CASE x # e
    BY <1>1, <2>1, <2>2 DEF Carries, Spent
  <2>3. CASE x = e
    BY <1>1, <2>1, <2>3 DEF Carries, Spent
  <2> QED BY <2>2, <2>3
<1> QED BY <1>1, <1>2, <1>3, <1>4 DEF IInv
-----------------------------------------------------------------------------
(* The steps *)

LEMMA InitInv == Init => IInv
<1> SUFFICES ASSUME Init PROVE IInv
  OBVIOUS
<1>1. TypeOK
  BY EmptyFacts, ChronoFlowConstants
     DEF Init, TypeOK, Message, FreeMessage, Job, IdleJob
<1>2. RowsAreSound
  BY EmptyFacts DEF Init, RowsAreSound
<1>3. MessagesAreSound /\ JobsAreSound
  BY DEF Init, MessagesAreSound, JobsAreSound, FreeMessage, IdleJob
<1>4. CarriedOn
  BY DEF Init, CarriedOn, EmptyRow, Waiting
<1> QED BY <1>1, <1>2, <1>3, <1>4 DEF IInv

LEMMA ScheduleInv ==
    ASSUME IInv, NEW e \in Executions, NEW due \in BOOLEAN, Schedule(e, due)
    PROVE  IInv'
<1> DEFINE row    == [EmptyRow EXCEPT !.status = "PENDING", !.due = due]
           events == IF due THEN [NoEvents EXCEPT !.ready = 1]
                     ELSE [NoEvents EXCEPT !.later = 1]
<1>1. row \in Row /\ events \in CountedEvents
  <2>1. EmptyRow \in Row
    BY EmptyFacts
  <2>2. row \in Row
    BY <2>1 DEF Row, Waiting
  <2>3. NoEvents \in CountedEvents
    BY DEF NoEvents, CountedEvents
  <2>4. events \in CountedEvents
    BY <2>3 DEF CountedEvents
  <2> QED BY <2>2, <2>4
<1>2. /\ row.status = "PENDING" /\ row.attempt = 0 /\ row.due = due /\ row.holder = Null
      /\ events.ready + events.later + events.sent = 1 /\ events.later <= 1
      /\ events.ready > 0 \/ events.later > 0
      /\ ~due => events.later > 0
  BY DEF EmptyRow, NoEvents
<1>3. Sound(row, events, deployment.skew)
  BY <1>2, ChronoFlowConstants DEF Sound, Announced, Waiting
<1>4. /\ rows' = [rows EXCEPT ![e] = row]
      /\ outbox' = [outbox EXCEPT ![e] = events]
      /\ UNCHANGED <<stream, jobs, deployment>>
  BY DEF Schedule
<1> HIDE DEF row, events
<1> QED BY <1>1, <1>2, <1>3, <1>4, RowStep

LEMMA ComesDueInv ==
    ASSUME IInv, NEW e \in Executions, ComesDue(e)
    PROVE  IInv'
<1> PICK due \in BOOLEAN : due = (rows[e].status \in Waiting)
  <2>1. (rows[e].status \in Waiting) \in BOOLEAN
    OBVIOUS
  <2> QED BY <2>1, Zenon
<1> DEFINE row    == [rows[e] EXCEPT !.due = due]
           events == [outbox[e] EXCEPT !.ready = @ + outbox[e].later, !.later = 0]
<1>0. TypeOK /\ Sound(rows[e], outbox[e], deployment.skew)
  BY DEF IInv, RowsAreSound
<1>1. row \in Row /\ events \in CountedEvents
  <2>1. /\ rows[e] \in Row /\ outbox[e] \in CountedEvents
        /\ outbox[e].ready + outbox[e].later \in Nat
    BY <1>0, RowFacts
  <2>2. row \in Row
    BY <2>1 DEF Row
  <2>3. events \in CountedEvents
    BY <2>1 DEF CountedEvents
  <2> QED BY <2>2, <2>3
<1>2. /\ row.status = rows[e].status /\ row.attempt = rows[e].attempt
      /\ row.holder = rows[e].holder
      /\ row.due = due
      /\ events.ready = outbox[e].ready + outbox[e].later /\ events.later = 0
      /\ events.sent = outbox[e].sent
  BY <1>0, RowFacts DEF Row, CountedEvents
<1>3. Announced(row) = Announced(rows[e]) /\ Announced(row) \in Nat
  BY <1>0, <1>2, RowFacts DEF Announced
<1>4. rows[e].status = "NONE" => events = NoEvents
  <2> SUFFICES ASSUME outbox[e] = NoEvents PROVE events = NoEvents
    BY <1>0 DEF Sound
  <2>1. events.ready = 0 /\ events.later = 0 /\ events.sent = 0
    BY <1>2 DEF NoEvents
  <2> QED BY <1>1, <2>1, NoneCounted
<1>7. ~row.due => row.status \notin Waiting
  BY <1>2, Zenon
<1>5. Sound(row, events, deployment.skew)
  <2> HIDE DEF row, events
  <2> QED BY <1>0, <1>2, <1>3, <1>4, <1>7, RowFacts DEF Sound
<1>6. /\ rows' = [rows EXCEPT ![e] = row]
      /\ outbox' = [outbox EXCEPT ![e] = events]
      /\ UNCHANGED <<stream, jobs, deployment>>
  BY DEF ComesDue
<1>8. ~(events.ready > 0) => ~(outbox[e].ready > 0) /\ ~(outbox[e].later > 0)
  BY <1>0, <1>2, RowFacts
<1> HIDE DEF row, events
<1> QED BY <1>1, <1>2, <1>5, <1>6, <1>8, RowStep

\* A row changes in what its status, attempt, due time and holder do not show.
LEMMA SameRow ==
    ASSUME IInv, UNCHANGED <<outbox, stream, jobs, deployment>>,
           NEW e \in Executions, NEW row \in Row,
           row.status = rows[e].status, row.attempt = rows[e].attempt,
           row.due = rows[e].due,
           row.holder = rows[e].holder \/ row.holder = Null \/ row.status = "RUNNING",
           rows' = [rows EXCEPT ![e] = row]
    PROVE  IInv'
<1>0. TypeOK /\ Sound(rows[e], outbox[e], deployment.skew) /\ outbox[e] \in CountedEvents
  BY RowFacts DEF IInv, RowsAreSound
<1>1. Sound(row, outbox[e], deployment.skew)
  BY <1>0 DEF Sound, Announced
<1>2. outbox' = [outbox EXCEPT ![e] = outbox[e]]
  BY <1>0 DEF TypeOK
<1> QED BY <1>0, <1>1, <1>2, RowStep

LEMMA FlagInv ==
    ASSUME IInv, NEW e \in Executions,
           GrowsStale(e) \/ LeaseExpires(e)
    PROVE  IInv'
<1>0. TypeOK
  BY DEF IInv
<1>1. CASE GrowsStale(e)
  <2> DEFINE row == [rows[e] EXCEPT !.stale = TRUE]
  <2>1. /\ row \in Row /\ row.status = rows[e].status /\ row.attempt = rows[e].attempt
        /\ row.due = rows[e].due /\ row.holder = rows[e].holder
    BY <1>0, RowFacts DEF Row
  <2>2. rows' = [rows EXCEPT ![e] = row] /\ UNCHANGED <<outbox, stream, jobs, deployment>>
    BY <1>1 DEF GrowsStale
  <2> HIDE DEF row
  <2> QED BY <2>1, <2>2, SameRow
<1>2. CASE LeaseExpires(e)
  <2> DEFINE row == [rows[e] EXCEPT !.expired = TRUE]
  <2>1. /\ row \in Row /\ row.status = rows[e].status /\ row.attempt = rows[e].attempt
        /\ row.due = rows[e].due /\ row.holder = rows[e].holder
    BY <1>0, RowFacts DEF Row
  <2>2. rows' = [rows EXCEPT ![e] = row] /\ UNCHANGED <<outbox, stream, jobs, deployment>>
    BY <1>2 DEF LeaseExpires
  <2> HIDE DEF row
  <2> QED BY <2>1, <2>2, SameRow
<1> QED BY <1>1, <1>2

LEMMA HeartbeatInv ==
    ASSUME IInv, NEW h \in Handlers, Heartbeat(h)
    PROVE  IInv'
<1>1. TypeOK
  BY DEF IInv
<1>2. PICK e \in Executions : e = jobs[h].execution
  BY DEF Heartbeat, IInv, JobsAreSound
<1> DEFINE row == [rows[e] EXCEPT !.expired = FALSE]
<1>3. /\ row \in Row /\ row.status = rows[e].status /\ row.attempt = rows[e].attempt
      /\ row.due = rows[e].due /\ row.holder = rows[e].holder
  <2>1. rows[e] \in Row
    BY <1>1, RowFacts
  <2> QED BY <2>1 DEF Row
<1>4. rows' = [rows EXCEPT ![e] = row] /\ UNCHANGED <<outbox, stream, jobs, deployment>>
  BY <1>2 DEF Heartbeat
<1> HIDE DEF row
<1> QED BY <1>3, <1>4, SameRow

LEMMA PublishInv ==
    ASSUME IInv, NEW e \in Executions, MarkPublished(e) \/ ClaimExpires(e)
    PROVE  IInv'
<1>0. /\ TypeOK /\ Sound(rows[e], outbox[e], deployment.skew)
      /\ rows[e] \in Row /\ outbox[e] \in CountedEvents /\ outbox[e].sent > 0
      /\ outbox[e].ready \in Nat /\ outbox[e].later \in Nat /\ outbox[e].sent \in Nat
      /\ rows' = [rows EXCEPT ![e] = rows[e]]
      /\ UNCHANGED <<stream, jobs, deployment>>
  BY RowFacts DEF IInv, RowsAreSound, MarkPublished, ClaimExpires, TypeOK
<1>1. /\ Announced(rows[e]) \in Nat /\ MaxEvents \in Nat
      /\ rows[e].status # "NONE"
  BY <1>0, RowFacts, ChronoFlowConstants DEF Announced, Sound, NoEvents
<1>2. CASE MarkPublished(e)
  <2> DEFINE events == [outbox[e] EXCEPT !.sent = @ - 1]
  <2>1. /\ events \in CountedEvents
        /\ events.ready = outbox[e].ready /\ events.later = outbox[e].later
        /\ events.sent = outbox[e].sent - 1
    BY <1>0 DEF CountedEvents
  <2>2. outbox' = [outbox EXCEPT ![e] = events]
    BY <1>2 DEF MarkPublished
  <2> HIDE DEF events
  <2>3. Sound(rows[e], events, deployment.skew)
    BY <1>0, <1>1, <2>1 DEF Sound
  <2>4. ~deployment.skew /\ rows[e].status \in Live =>
           \/ events.ready > 0 \/ events.later > 0
           \/ ~(outbox[e].ready > 0) /\ ~(outbox[e].later > 0)
    BY <2>1
  <2> QED BY <1>0, <1>1, <2>1, <2>2, <2>3, <2>4, RowStep
<1>3. CASE ClaimExpires(e)
  <2> DEFINE events == [outbox[e] EXCEPT !.sent = @ - 1, !.ready = @ + 1]
  <2>1. /\ events \in CountedEvents
        /\ events.ready = outbox[e].ready + 1 /\ events.later = outbox[e].later
        /\ events.sent = outbox[e].sent - 1
    <3>1. outbox[e].sent - 1 \in Nat /\ outbox[e].ready + 1 \in Nat
      BY <1>0
    <3>2. events \in CountedEvents
      BY <1>0, <3>1 DEF CountedEvents
    <3>3. events.sent = outbox[e].sent - 1
      BY <1>0 DEF CountedEvents
    <3>4. events.ready = outbox[e].ready + 1 /\ events.later = outbox[e].later
      BY <1>0 DEF CountedEvents
    <3> QED BY <3>2, <3>3, <3>4
  <2>2. outbox' = [outbox EXCEPT ![e] = events]
    BY <1>3 DEF ClaimExpires
  <2> HIDE DEF events
  <2>3. Sound(rows[e], events, deployment.skew)
    BY <1>0, <1>1, <2>1 DEF Sound
  <2>4. events.ready > 0
    BY <1>0, <2>1
  <2> QED BY <1>0, <1>1, <2>1, <2>2, <2>3, <2>4, RowStep
<1> QED BY <1>2, <1>3

\* A row that ends, or ends an attempt.
LEMMA EndedRowFacts ==
    ASSUME NEW row \in Row, NEW status \in Terminal \cup {"RETRY_WAIT"}
    PROVE  LET ended == EndedRow(row, status) IN
           /\ ended \in Row /\ ended.status = status /\ ended.attempt = row.attempt
           /\ ended.due = FALSE /\ ended.holder = Null
BY DEF EndedRow, Row, Waiting, Terminal

LEMMA RecoverInv ==
    ASSUME IInv, NEW e \in Executions, Recover(e)
    PROVE  IInv'
<1> DEFINE row    == RecoveredRow(rows[e])
           events == [outbox[e] EXCEPT !.ready = @ + 1]
<1>0. /\ TypeOK /\ Sound(rows[e], outbox[e], deployment.skew)
      /\ rows[e] \in Row /\ outbox[e] \in CountedEvents
      /\ outbox[e].ready \in Nat /\ outbox[e].later \in Nat /\ outbox[e].sent \in Nat
      /\ rows[e].attempt \in Nat /\ MaxAttempts \in Nat /\ MaxEvents \in Nat
      /\ rows' = [rows EXCEPT ![e] = row]
      /\ UNCHANGED <<stream, jobs, deployment>>
  BY RowFacts, ChronoFlowConstants DEF IInv, RowsAreSound, Recover
<1>1. rows[e].status \in Waiting \cup {"RUNNING"}
  BY DEF Recover, Recoverable
<1>2. /\ events \in CountedEvents
      /\ events.ready = outbox[e].ready + 1 /\ events.later = outbox[e].later
      /\ events.sent = outbox[e].sent
  BY <1>0 DEF CountedEvents
<1>3. CASE rows[e].status = "RUNNING" /\ rows[e].attempt >= MaxAttempts
  <2>1. /\ row \in Row /\ row.status = "FAILED" /\ row.attempt = rows[e].attempt
        /\ row.holder = Null
    BY <1>0, <1>3, EndedRowFacts DEF RecoveredRow, Terminal
  <2>2. outbox' = [outbox EXCEPT ![e] = outbox[e]]
    BY <1>0, <2>1 DEF Recover, TypeOK
  <2> HIDE DEF row, events
  <2>3. Sound(row, outbox[e], deployment.skew)
    BY <1>0, <1>3, <2>1 DEF Sound, Announced, Waiting
  <2> QED BY <1>0, <2>1, <2>2, <2>3, RowStep DEF Live, Waiting
<1>4. CASE ~(rows[e].status = "RUNNING" /\ rows[e].attempt >= MaxAttempts)
  <2>1. /\ row \in Row /\ row.status \in Waiting /\ row.attempt = rows[e].attempt
        /\ row.attempt < MaxAttempts
        /\ row.holder # Null => row.holder = rows[e].holder /\ row.status = rows[e].status
    <3>1. CASE rows[e].status = "RUNNING"
      <4> DEFINE ended == EndedRow(rows[e], "RETRY_WAIT")
      <4>1. /\ ended \in Row /\ ended.status = "RETRY_WAIT"
            /\ ended.attempt = rows[e].attempt /\ ended.holder = Null
        BY <1>0, EndedRowFacts
      <4>2. row = [ended EXCEPT !.due = TRUE]
        BY <1>4, <3>1 DEF RecoveredRow
      <4> HIDE DEF row, ended
      <4>3. row \in Row
        BY <4>1, <4>2 DEF Row
      <4>4. /\ row.status = ended.status /\ row.attempt = ended.attempt
            /\ row.holder = ended.holder
        BY <4>1, <4>2 DEF Row
      <4> QED BY <1>0, <1>4, <3>1, <4>1, <4>3, <4>4 DEF Waiting
    <3>2. CASE rows[e].status \in Waiting
      <4>1. row = [rows[e] EXCEPT !.stale = FALSE]
        BY <3>2 DEF RecoveredRow, Waiting
      <4> HIDE DEF row
      <4>2. row \in Row
        BY <1>0, <4>1 DEF Row
      <4>3. /\ row.status = rows[e].status /\ row.attempt = rows[e].attempt
            /\ row.holder = rows[e].holder
        BY <1>0, <4>1 DEF Row
      <4> QED BY <1>0, <3>2, <4>2, <4>3 DEF Sound
    <3> QED BY <1>1, <3>1, <3>2
  <2>2. /\ outbox' = [outbox EXCEPT ![e] = events]
        /\ outbox[e].ready + outbox[e].later + outbox[e].sent < MaxEvents
    BY <2>1 DEF Recover, Unpublished, Waiting
  <2> HIDE DEF row, events
  <2>3. /\ Announced(rows[e]) <= Announced(row) /\ Announced(row) \in Nat
        /\ Announced(rows[e]) \in Nat
    BY <1>0, <2>1 DEF Announced
  <2>4. rows[e].holder # Null => rows[e].status = "RUNNING"
    BY <1>0 DEF Sound
  <2>5. row.holder = Null /\ row.status # "NONE"
    BY <2>1, <2>4 DEF Waiting
  <2>6. Sound(row, events, deployment.skew)
    <3>1. events.later <= Announced(row)
      BY <1>0, <1>2, <2>3 DEF Sound
    <3>2. events.ready + events.later + events.sent <= MaxEvents + Announced(row)
      BY <1>0, <1>2, <2>2, <2>3
    <3>3. ~deployment.skew /\ row.status \in Waiting /\ ~row.due => events.later > 0
      <4>1. ASSUME rows[e].status = "RUNNING" PROVE row.due = TRUE
        BY <1>0, <1>4, <4>1, EndedRowFacts DEF row, RecoveredRow, Row
      <4>2. ASSUME rows[e].status \in Waiting PROVE row.due = rows[e].due
        BY <1>0, <4>2 DEF row, RecoveredRow, Waiting, Row
      <4> QED BY <1>0, <1>1, <1>2, <4>1, <4>2 DEF Sound
    <3> QED BY <2>1, <2>5, <3>1, <3>2, <3>3 DEF Sound
  <2>7. events.ready > 0
    BY <1>0, <1>2
  <2> QED BY <1>0, <1>2, <2>1, <2>2, <2>5, <2>6, <2>7, RowStep
<1> QED BY <1>3, <1>4

LEMMA PurgeInv ==
    ASSUME IInv, NEW e \in Executions, Purge(e)
    PROVE  IInv'
<1> DEFINE row == [EmptyRow EXCEPT !.status = "PURGED"]
<1>1. row \in Row
  BY EmptyFacts DEF Row
<1>2. row.status = "PURGED" /\ row.attempt = 0 /\ row.holder = Null
  BY DEF EmptyRow
<1>3. /\ rows' = [rows EXCEPT ![e] = row] /\ outbox' = [outbox EXCEPT ![e] = NoEvents]
      /\ UNCHANGED <<stream, jobs, deployment>>
  BY DEF Purge, IInv, TypeOK
<1>4. Sound(row, NoEvents, deployment.skew) /\ NoEvents \in CountedEvents
  BY <1>2, ChronoFlowConstants DEF Sound, Announced, Waiting, NoEvents, CountedEvents
<1> HIDE DEF row
<1> QED BY <1>1, <1>2, <1>3, <1>4, RowStep DEF Live, Waiting

LEMMA MessageFacts ==
    ASSUME TypeOK, NEW m \in Messages
    PROVE  /\ stream[m] \in Message
           /\ stream[m].execution \in Executions \cup {Null}
           /\ stream[m].state \in {"free", "new", "pending", "idle"}
BY DEF TypeOK, Message

\* The group hands a message on, or time passes over it: it stays what it is.
LEMMA StateStep ==
    ASSUME IInv, UNCHANGED <<rows, outbox, deployment>>,
           NEW m \in Messages, NEW state \in {"pending", "idle"},
           stream[m].state # "free",
           stream' = [stream EXCEPT ![m].state = state]
    PROVE  /\ RowsAreSound' /\ MessagesAreSound'
           /\ stream' \in [Messages -> Message]
           /\ \A x \in Messages : stream'[x].execution = stream[x].execution
<1>0. TypeOK
  BY DEF IInv
<1>1. stream'[m].execution = stream[m].execution /\ stream'[m].state = state
  BY <1>0, MessageFacts DEF TypeOK, Message
<1>2. \A x \in Messages \ {m} : stream'[x] = stream[x]
  BY <1>0 DEF TypeOK
<1>3. stream' \in [Messages -> Message]
  <2>1. [stream[m] EXCEPT !.state = state] \in Message
    BY <1>0, MessageFacts DEF Message
  <2> QED BY <1>0, <2>1 DEF TypeOK
<1>4. MessagesAreSound'
  BY <1>1, <1>2 DEF IInv, MessagesAreSound
<1>5. RowsAreSound'
  BY DEF IInv, RowsAreSound
<1> QED BY <1>1, <1>2, <1>3, <1>4, <1>5

\* If the messages stay, rows and handlers may do what they like as long as no
\* execution comes to depend on its messages, and no handler begins to drop one
\* of an execution that does.
LEMMA StillCarried ==
    ASSUME IInv, UNCHANGED deployment,
           \A m \in Messages : stream'[m].execution = stream[m].execution,
           ~deployment.skew => \A e \in Executions :
              /\ rows'[e].status \in Live
              /\ ~(outbox'[e].ready > 0) /\ ~(outbox'[e].later > 0)
              => /\ rows[e].status \in Live
                 /\ ~(outbox[e].ready > 0) /\ ~(outbox[e].later > 0)
                 /\ \A h \in Handlers :
                      /\ jobs'[h].message \in Messages /\ Spent(h, rows[e])'
                      /\ stream[jobs'[h].message].execution = e
                      => jobs[h].message = jobs'[h].message /\ Spent(h, rows[e])
    PROVE  CarriedOn'
<1> SUFFICES ASSUME ~deployment.skew, ~deployment.trims,
                    NEW e \in Executions, rows'[e].status \in Live,
                    ~(outbox'[e].ready > 0), ~(outbox'[e].later > 0)
             PROVE  \E m \in Messages : Carries(m, e)'
  BY DEF CarriedOn, Live
<1>1. PICK m \in Messages : Carries(m, e)
  BY DEF IInv, CarriedOn, Live
<1>2. stream[m].execution = e /\ stream'[m].execution = e
  BY <1>1 DEF Carries
<1>3. ASSUME NEW h \in Handlers, jobs'[h].message = m, Spent(h, rows[e])'
      PROVE  FALSE
  <2>1. jobs[h].message = m /\ Spent(h, rows[e])
    BY <1>2, <1>3
  <2> QED BY <1>1, <2>1 DEF Carries
<1> QED BY <1>2, <1>3 DEF Carries

LEMMA MessageInv ==
    ASSUME IInv, NEW m \in Messages, MessageStep(m)
    PROVE  IInv'
<1>0. TypeOK
  BY DEF IInv
<1>1. ASSUME NEW state \in {"pending", "idle"}, stream[m].state # "free",
             stream' = [stream EXCEPT ![m].state = state],
             UNCHANGED <<rows, outbox, jobs, deployment>>
      PROVE  IInv'
  <2>1. /\ RowsAreSound' /\ MessagesAreSound'
        /\ stream' \in [Messages -> Message]
        /\ \A x \in Messages : stream'[x].execution = stream[x].execution
    BY <1>1, StateStep
  <2>2. TypeOK'
    BY <1>0, <1>1, <2>1 DEF TypeOK
  <2>3. JobsAreSound'
    BY <1>1, <2>1 DEF IInv, JobsAreSound
  <2>4. CarriedOn'
    BY <1>1, <2>1, StillCarried DEF Spent
  <2> QED BY <2>1, <2>2, <2>3, <2>4 DEF IInv
<1>2. CASE GrowsIdle(m)
  BY <1>1, <1>2 DEF GrowsIdle
<1>3. CASE DeliverLost(m)
  BY <1>1, <1>3 DEF DeliverLost
<1>4. CASE Trim(m)
  <2>1. /\ stream' = [stream EXCEPT ![m] = FreeMessage] /\ deployment.trims
        /\ UNCHANGED <<rows, outbox, jobs, deployment>>
    BY <1>4 DEF Trim
  <2>2. TypeOK'
    BY <1>0, <2>1 DEF TypeOK, FreeMessage, Message
  <2>3. RowsAreSound'
    BY <2>1 DEF IInv, RowsAreSound
  <2>4. MessagesAreSound' /\ JobsAreSound'
    BY <1>0, <2>1 DEF TypeOK, IInv, MessagesAreSound, JobsAreSound, FreeMessage
  <2>5. CarriedOn'
    BY <2>1 DEF CarriedOn
  <2> QED BY <2>2, <2>3, <2>4, <2>5 DEF IInv
<1> QED BY <1>2, <1>3, <1>4 DEF MessageStep

LEMMA SendInv ==
    ASSUME IInv, NEW e \in Executions, Send(e)
    PROVE  IInv'
<1>0. /\ TypeOK /\ Sound(rows[e], outbox[e], deployment.skew)
      /\ rows[e] \in Row /\ outbox[e] \in CountedEvents
      /\ outbox[e].ready \in Nat /\ outbox[e].later \in Nat /\ outbox[e].sent \in Nat
      /\ UNCHANGED <<rows, jobs, deployment>>
      /\ rows' = [rows EXCEPT ![e] = rows[e]]
      /\ Announced(rows[e]) \in Nat /\ MaxEvents \in Nat
  <2>1. TypeOK /\ Sound(rows[e], outbox[e], deployment.skew)
    BY DEF IInv, RowsAreSound
  <2> QED BY <2>1, RowFacts, ChronoFlowConstants DEF Send, TypeOK, Announced
<1>1. PICK m \in Messages :
         /\ Free(m)
         /\ stream' = [stream EXCEPT ![m] = [execution |-> e, state |-> "new"]]
  BY DEF Send
<1>2. PICK events \in CountedEvents :
         /\ outbox' = [outbox EXCEPT ![e] = events]
         /\ events.ready + events.later + events.sent
              = outbox[e].ready + outbox[e].later + outbox[e].sent
         /\ events.later <= outbox[e].later
         /\ ~deployment.skew => events.later = outbox[e].later
         /\ outbox[e] # NoEvents
  <2>1. CASE /\ outbox[e].ready > 0
             /\ outbox' = [outbox EXCEPT ![e].ready = @ - 1, ![e].sent = @ + 1]
    <3> DEFINE events == [outbox[e] EXCEPT !.ready = @ - 1, !.sent = @ + 1]
    <3>1. outbox[e].ready - 1 \in Nat /\ outbox[e].sent + 1 \in Nat
      BY <1>0, <2>1
    <3>2. events \in CountedEvents
      BY <1>0, <3>1 DEF CountedEvents
    <3>3. events.ready = outbox[e].ready - 1
      BY <1>0 DEF CountedEvents
    <3>4. events.sent = outbox[e].sent + 1 /\ events.later = outbox[e].later
      BY <1>0 DEF CountedEvents
    <3>5. outbox' = [outbox EXCEPT ![e] = events]
      BY <2>1
    <3>6. outbox[e] # NoEvents
      BY <2>1 DEF NoEvents
    <3> HIDE DEF events
    <3>7. /\ events.ready + events.later + events.sent
               = outbox[e].ready + outbox[e].later + outbox[e].sent
          /\ events.later <= outbox[e].later
      BY <1>0, <3>3, <3>4
    <3> QED BY <3>2, <3>4, <3>5, <3>6, <3>7
  <2>2. CASE /\ outbox[e].later > 0 /\ deployment.skew
             /\ outbox' = [outbox EXCEPT ![e].later = @ - 1, ![e].sent = @ + 1]
    <3> DEFINE events == [outbox[e] EXCEPT !.later = @ - 1, !.sent = @ + 1]
    <3>1. outbox[e].later - 1 \in Nat /\ outbox[e].sent + 1 \in Nat
      BY <1>0, <2>2
    <3>2. events \in CountedEvents
      BY <1>0, <3>1 DEF CountedEvents
    <3>3. events.later = outbox[e].later - 1
      BY <1>0 DEF CountedEvents
    <3>4. events.sent = outbox[e].sent + 1 /\ events.ready = outbox[e].ready
      BY <1>0 DEF CountedEvents
    <3>5. outbox' = [outbox EXCEPT ![e] = events]
      BY <2>2
    <3>6. outbox[e] # NoEvents
      BY <2>2 DEF NoEvents
    <3> HIDE DEF events
    <3>7. /\ events.ready + events.later + events.sent
               = outbox[e].ready + outbox[e].later + outbox[e].sent
          /\ events.later <= outbox[e].later
      BY <1>0, <3>3, <3>4
    <3> QED BY <2>2, <3>2, <3>5, <3>6, <3>7
  <2> QED BY <2>1, <2>2 DEF Send
<1>3. events.ready \in Nat /\ events.later \in Nat /\ events.sent \in Nat
  BY DEF CountedEvents
<1>4. Sound(rows[e], events, deployment.skew) /\ rows[e].status # "NONE"
  BY <1>0, <1>2, <1>3 DEF Sound
<1>5. /\ rows' \in [Executions -> Row] /\ outbox' \in [Executions -> Events]
      /\ RowsAreSound'
      /\ \A x \in Executions \ {e} : outbox'[x] = outbox[x]
  BY <1>0, <1>2, <1>4, RowEffect
<1>6. stream[m].state = "free" /\ stream[m].execution = Null
  BY <1>1 DEF Free, IInv, MessagesAreSound
<1>7. /\ stream'[m] = [execution |-> e, state |-> "new"]
      /\ \A x \in Messages \ {m} : stream'[x] = stream[x]
  BY <1>0, <1>1 DEF TypeOK
<1>8. TypeOK'
  <2>1. [execution |-> e, state |-> "new"] \in Message
    BY DEF Message
  <2> QED BY <1>0, <1>1, <1>5, <2>1 DEF TypeOK
<1>9. MessagesAreSound'
  BY <1>0, <1>4, <1>7, ChronoFlowConstants DEF IInv, MessagesAreSound
<1>10. JobsAreSound'
  BY <1>0, <1>1, <1>7 DEF IInv, JobsAreSound, Free
<1>11. CarriedOn'
  <2> SUFFICES ASSUME ~deployment.skew, ~deployment.trims,
                      NEW x \in Executions, rows[x].status \in Live,
                      ~(outbox'[x].ready > 0), ~(outbox'[x].later > 0)
               PROVE  \E k \in Messages : Carries(k, x)'
    BY <1>0 DEF CarriedOn, Live
  <2>1. CASE x = e
    BY <1>0, <1>1, <1>7, <2>1 DEF Carries, Free
  <2>2. CASE x # e
    <3>1. PICK k \in Messages : Carries(k, x)
      BY <1>5, <2>2 DEF IInv, CarriedOn, Live
    <3>2. k # m
      BY <1>6, <3>1, ChronoFlowConstants DEF Carries
    <3> QED BY <1>0, <1>7, <3>1, <3>2 DEF Carries, Spent
  <2> QED BY <2>1, <2>2
<1> QED BY <1>5, <1>8, <1>9, <1>10, <1>11 DEF IInv
-----------------------------------------------------------------------------
(* The steps of a handler *)

LEMMA JobFacts ==
    ASSUME IInv, NEW h \in Handlers
    PROVE  /\ jobs[h] \in Job
           /\ jobs[h].claimed \in BOOLEAN
           /\ jobs[h].pc # "idle" =>
                /\ jobs[h].message \in Messages /\ jobs[h].execution \in Executions
                /\ rows[jobs[h].execution] \in Row
                /\ stream[jobs[h].message].execution \in {Null, jobs[h].execution}
BY DEF IInv, TypeOK, JobsAreSound, Job

LEMMA IdleFacts ==
    IdleJob \in Job /\ IdleJob.pc = "idle" /\ IdleJob.message \notin Messages
BY ChronoFlowConstants DEF IdleJob, Job

\* A handler goes on with its message, or is done with it.
LEMMA JobStep ==
    ASSUME IInv, NEW h \in Handlers, NEW job \in Job,
           jobs' = [jobs EXCEPT ![h] = job],
           \/ job = IdleJob
           \/ /\ jobs[h].pc # "idle" /\ job.pc # "idle"
              /\ job.message = jobs[h].message /\ job.execution = jobs[h].execution,
           \A m \in Messages : stream'[m].execution \in {Null, stream[m].execution},
           \A e \in Executions : rows'[e].status = "NONE" => rows[e].status = "NONE"
    PROVE  /\ jobs' \in [Handlers -> Job] /\ JobsAreSound'
           /\ jobs'[h] = job /\ \A k \in Handlers \ {h} : jobs'[k] = jobs[k]
<1>1. jobs' \in [Handlers -> Job]
  BY DEF IInv, TypeOK
<1>2. jobs'[h] = job /\ \A k \in Handlers \ {h} : jobs'[k] = jobs[k]
  BY DEF IInv, TypeOK
<1>3. JobsAreSound'
  <2> SUFFICES ASSUME NEW k \in Handlers, jobs'[k].pc # "idle" \/ jobs'[k] # IdleJob
               PROVE  /\ jobs'[k].pc # "idle"
                      /\ jobs'[k].message \in Messages
                      /\ jobs'[k].execution \in Executions
                      /\ rows'[jobs'[k].execution].status # "NONE"
                      /\ stream'[jobs'[k].message].execution \in {Null, jobs'[k].execution}
    BY DEF JobsAreSound
  <2>1. /\ jobs[k].pc # "idle" /\ jobs'[k].pc # "idle"
        /\ jobs'[k].message = jobs[k].message /\ jobs'[k].execution = jobs[k].execution
    BY <1>2, IdleFacts DEF IInv, JobsAreSound
  <2> QED BY <2>1 DEF IInv, JobsAreSound
<1> QED BY <1>1, <1>2, <1>3

LEMMA DeliverInv ==
    ASSUME IInv, NEW h \in Handlers, NEW m \in Messages, Deliver(h, m)
    PROVE  IInv'
<1> DEFINE job == [IdleJob EXCEPT !.pc = "claim", !.message = m,
                                  !.execution = stream[m].execution]
<1>0. TypeOK /\ UNCHANGED <<rows, outbox, deployment>>
  BY DEF IInv, Deliver
<1>1. /\ RowsAreSound' /\ MessagesAreSound' /\ stream' \in [Messages -> Message]
      /\ \A x \in Messages : stream'[x].execution = stream[x].execution
  BY <1>0, StateStep DEF Deliver
<1>2. /\ stream[m].execution \in Executions
      /\ rows[stream[m].execution].status # "NONE"
  BY <1>0, MessageFacts DEF Deliver, IInv, MessagesAreSound
<1>3. /\ job \in Job /\ job.pc = "claim" /\ job.message = m
      /\ job.execution = stream[m].execution
  BY <1>2, IdleFacts DEF IdleJob, Job
<1>4. jobs' = [jobs EXCEPT ![h] = job]
  BY DEF Deliver
<1> HIDE DEF job
<1>5. jobs'[h] = job /\ \A k \in Handlers \ {h} : jobs'[k] = jobs[k]
  BY <1>0, <1>4 DEF TypeOK
<1>6. TypeOK'
  BY <1>0, <1>1, <1>3, <1>4 DEF TypeOK
<1>7. JobsAreSound'
  <2>1. ASSUME NEW k \in Handlers \ {h}, jobs[k].pc # "idle"
        PROVE  stream'[jobs[k].message].execution \in {Null, jobs[k].execution}
    BY <1>1, <2>1 DEF IInv, JobsAreSound
  <2> QED BY <1>0, <1>1, <1>2, <1>3, <1>5, <2>1 DEF IInv, JobsAreSound
<1>8. CarriedOn'
  <2>1. ASSUME NEW k \in Handlers, NEW e \in Executions, Spent(k, rows[e])'
        PROVE  jobs'[k] = jobs[k] /\ Spent(k, rows[e])
    BY <1>0, <1>3, <1>5, <2>1 DEF Spent
  <2> QED BY <1>0, <1>1, <2>1, StillCarried
<1> QED BY <1>1, <1>6, <1>7, <1>8 DEF IInv

LEMMA ClaimedRowFacts ==
    ASSUME NEW row \in Row, NEW h \in Handlers
    PROVE  LET claimed == ClaimedRow(row, h) IN
           /\ claimed \in Row /\ claimed.status = "RUNNING"
           /\ claimed.attempt \in Nat /\ row.attempt <= claimed.attempt
           /\ row.attempt < MaxAttempts => claimed.attempt = row.attempt + 1
<1>1. row.attempt \in Nat /\ row.attempt <= MaxAttempts /\ MaxAttempts \in Nat
  BY ChronoFlowConstants DEF Row
<1> DEFINE attempt == IF row.attempt < MaxAttempts THEN row.attempt + 1 ELSE row.attempt
<1>2. attempt \in 0..MaxAttempts
  BY <1>1
<1> HIDE DEF attempt
<1>3. ClaimedRow(row, h) = [row EXCEPT !.status = "RUNNING", !.attempt = attempt,
         !.due = FALSE, !.stale = FALSE, !.expired = FALSE, !.holder = h]
  BY DEF ClaimedRow, attempt
<1>4. /\ ClaimedRow(row, h) \in Row /\ ClaimedRow(row, h).status = "RUNNING"
      /\ ClaimedRow(row, h).attempt = attempt
  BY <1>2, <1>3 DEF Row
<1> QED BY <1>1, <1>4 DEF attempt

LEMMA ClaimInv ==
    ASSUME IInv, NEW h \in Handlers, Claim(h)
    PROVE  IInv'
<1>0. /\ TypeOK /\ jobs[h].pc = "claim"
      /\ jobs[h] \in Job /\ jobs[h].message \in Messages
      /\ UNCHANGED <<outbox, stream, deployment>>
  BY JobFacts DEF IInv, Claim
<1>1. PICK e \in Executions : e = jobs[h].execution
  BY <1>0, JobFacts
<1>2. PICK due \in SeemsDue(rows[e]) :
         LET hit == Claimable(rows[e], due) IN
         /\ rows' = IF hit THEN [rows EXCEPT ![e] = ClaimedRow(@, h)] ELSE rows
         /\ jobs' = [jobs EXCEPT ![h].pc = "read", ![h].claimed = hit]
  BY <1>1 DEF Claim
<1>3. PICK hit \in BOOLEAN : hit = Claimable(rows[e], due)
  <2>1. Claimable(rows[e], due) \in BOOLEAN
    BY DEF Claimable
  <2> QED BY <2>1, Zenon
<1> DEFINE job == [jobs[h] EXCEPT !.pc = "read", !.claimed = hit]
           row == IF hit THEN ClaimedRow(rows[e], h) ELSE rows[e]
<1>4. /\ job \in Job /\ job.pc = "read" /\ job.claimed = hit
      /\ job.message = jobs[h].message /\ job.execution = e
  BY <1>0, <1>1 DEF Job
<1>5. jobs' = [jobs EXCEPT ![h] = job] /\ rows' = [rows EXCEPT ![e] = row]
  BY <1>0, <1>2, <1>3 DEF TypeOK
<1>6. /\ rows[e] \in Row /\ outbox[e] \in CountedEvents /\ rows[e].attempt \in Nat
      /\ outbox[e].later \in Nat /\ outbox[e].ready \in Nat /\ outbox[e].sent \in Nat
      /\ Sound(rows[e], outbox[e], deployment.skew)
      /\ outbox' = [outbox EXCEPT ![e] = outbox[e]]
      /\ MaxAttempts \in Nat /\ MaxEvents \in Nat
  BY <1>0, RowFacts, ChronoFlowConstants DEF IInv, RowsAreSound, TypeOK
<1>7. /\ row \in Row /\ row.status # "NONE" /\ Sound(row, outbox[e], deployment.skew)
      /\ hit => row.status = "RUNNING"
  <2>1. CASE hit
    <3>1. rows[e].status \in Waiting \/ rows[e].status = "RUNNING"
      BY <1>3, <2>1 DEF Claimable
    <3>2. row = ClaimedRow(rows[e], h)
      BY <2>1
    <3>3. /\ row \in Row /\ row.status = "RUNNING" /\ row.attempt \in Nat
          /\ rows[e].attempt <= row.attempt
          /\ rows[e].attempt < MaxAttempts => row.attempt = rows[e].attempt + 1
      BY <1>6, <3>2, ClaimedRowFacts
    <3> HIDE DEF row
    <3>4. Announced(row) = row.attempt /\ Announced(rows[e]) <= row.attempt
      BY <1>6, <3>1, <3>3 DEF Announced, Waiting, Sound
    <3>5. Announced(rows[e]) \in Nat
      BY <1>6 DEF Announced
    <3> QED BY <1>6, <3>3, <3>4, <3>5 DEF Sound, Waiting
  <2>2. CASE ~hit
    BY <1>0, <1>1, <1>6, <2>2 DEF IInv, JobsAreSound
  <2> QED BY <2>1, <2>2
<1> HIDE DEF job, row
<1>8. /\ rows' \in [Executions -> Row] /\ outbox' \in [Executions -> Events]
      /\ RowsAreSound' /\ rows'[e] = row
      /\ \A x \in Executions \ {e} : rows'[x] = rows[x] /\ outbox'[x] = outbox[x]
      /\ \A x \in Executions : rows'[x].status = "NONE" => rows[x].status = "NONE"
  BY <1>0, <1>5, <1>6, <1>7, RowEffect
<1>9. /\ jobs' \in [Handlers -> Job] /\ JobsAreSound'
      /\ jobs'[h] = job /\ \A k \in Handlers \ {h} : jobs'[k] = jobs[k]
  BY <1>0, <1>1, <1>4, <1>5, <1>8, JobStep
<1>10. TypeOK'
  BY <1>0, <1>8, <1>9 DEF TypeOK
<1>11. CarriedOn'
  <2> SUFFICES ASSUME ~deployment.skew, NEW x \in Executions,
                      rows'[x].status \in Live,
                      ~(outbox[x].ready > 0), ~(outbox[x].later > 0)
               PROVE  /\ rows[x].status \in Live
                      /\ \A k \in Handlers :
                           /\ jobs'[k].message \in Messages /\ Spent(k, rows[x])'
                           /\ stream[jobs'[k].message].execution = x
                           => jobs[k].message = jobs'[k].message /\ Spent(k, rows[x])
    BY <1>0, StillCarried
  <2>1. rows[x].status \in Live
    <3>1. CASE x # e
      BY <1>8, <3>1
    <3>2. CASE x = e /\ hit
      BY <1>3, <3>2 DEF Claimable, Live
    <3>3. CASE x = e /\ ~hit
      BY <1>8, <3>3 DEF row
    <3> QED BY <3>1, <3>2, <3>3
  <2>2. ASSUME NEW k \in Handlers,
               jobs'[k].message \in Messages, Spent(k, rows[x])',
               stream[jobs'[k].message].execution = x
        PROVE  jobs[k].message = jobs'[k].message /\ Spent(k, rows[x])
    <3>1. CASE k # h
      <4>1. jobs'[k] = jobs[k]
        BY <1>9, <3>1
      <4>2. rows'[x].status # rows[x].status => rows'[x].status = "RUNNING"
        BY <1>7, <1>8 DEF row
      <4> QED BY <2>2, <4>1, <4>2 DEF Spent
    <3>2. CASE k = h
      <4>1. x = e
        BY <1>0, <1>1, <1>4, <1>9, <2>2, <3>2, JobFacts, ChronoFlowConstants
      <4>2. ~hit /\ rows'[x].status # "RUNNING"
        BY <1>4, <1>7, <1>8, <1>9, <2>2, <3>2, <4>1 DEF Spent
      <4>3. row = rows[e]
        BY <4>2 DEF row
      <4>4. rows[e].status \in Waiting
        BY <1>8, <4>1, <4>2, <4>3 DEF Live
      <4>5. due = rows[e].due
        BY DEF SeemsDue
      <4>6. ~rows[e].due
        BY <1>3, <4>2, <4>4, <4>5 DEF Claimable
      <4>7. outbox[e].later > 0
        BY <1>6, <4>4, <4>6 DEF Sound
      <4> QED BY <4>1, <4>7
    <3> QED BY <3>1, <3>2
  <2> QED BY <2>1, <2>2
<1>12. MessagesAreSound'
  BY <1>0, <1>8, SameStream
<1> QED BY <1>8, <1>9, <1>10, <1>11, <1>12 DEF IInv

\* Reading the row, and the answer to the callback: the row stays as it is.
LEMMA HandlerOnly ==
    ASSUME IInv, NEW h \in Handlers,
           ReadRow(h) \/ \E outcome \in {"ok", "retryable", "fatal"} :
                            CallbackReturn(h, outcome)
    PROVE  IInv'
<1>0. /\ TypeOK /\ UNCHANGED <<rows, outbox, stream, deployment>>
      /\ jobs[h] \in Job /\ jobs[h].pc \in {"read", "callback"}
      /\ jobs[h].message \in Messages /\ jobs[h].execution \in Executions
      /\ stream[jobs[h].message].execution \in {Null, jobs[h].execution}
  BY JobFacts DEF IInv, ReadRow, CallbackReturn
<1>1. ASSUME NEW job \in Job, jobs' = [jobs EXCEPT ![h] = job],
             \/ job = IdleJob
             \/ /\ job.pc # "idle" /\ job.message = jobs[h].message
                /\ job.execution = jobs[h].execution,
             \/ job.pc \notin {"ack", "read"}
             \/ /\ job.pc = "ack" /\ jobs[h].pc = "read"
                /\ \/ rows[jobs[h].execution].status = "PURGED"
                   \/ /\ ~jobs[h].claimed
                      /\ rows[jobs[h].execution].status \in Terminal \cup {"RETRY_WAIT"}
      PROVE  IInv'
  <2>1. /\ jobs' \in [Handlers -> Job] /\ JobsAreSound'
        /\ jobs'[h] = job /\ \A k \in Handlers \ {h} : jobs'[k] = jobs[k]
    BY <1>0, <1>1, JobStep
  <2>2. TypeOK'
    BY <1>0, <2>1 DEF TypeOK
  <2>3. RowsAreSound' /\ MessagesAreSound'
    BY <1>0 DEF IInv, RowsAreSound, MessagesAreSound
  <2>4. ASSUME NEW e \in Executions, rows[e].status \in Live,
               NEW k \in Handlers, jobs'[k].message \in Messages, Spent(k, rows[e])',
               stream[jobs'[k].message].execution = e
        PROVE  jobs[k].message = jobs'[k].message /\ Spent(k, rows[e])
    <3>1. CASE k # h
      BY <1>0, <2>1, <2>4, <3>1 DEF Spent
    <3>2. CASE k = h
      <4>1. /\ job.pc = "ack" /\ jobs[h].pc = "read" /\ job.message = jobs[h].message
            /\ \/ rows[jobs[h].execution].status = "PURGED"
               \/ /\ ~jobs[h].claimed
                  /\ rows[jobs[h].execution].status \in Terminal \cup {"RETRY_WAIT"}
        BY <1>1, <2>1, <2>4, <3>2, IdleFacts DEF Spent
      <4>2. e = jobs[h].execution
        BY <1>0, <2>1, <2>4, <3>2, <4>1, ChronoFlowConstants
      <4> QED BY <2>1, <2>4, <3>2, <4>1, <4>2 DEF Spent, Live, Waiting, Terminal
    <3> QED BY <3>1, <3>2
  <2>5. CarriedOn'
    BY <1>0, <2>4, StillCarried
  <2> QED BY <2>1, <2>2, <2>3, <2>5 DEF IInv
<1>2. ASSUME NEW outcome \in {"ok", "retryable", "fatal"}, CallbackReturn(h, outcome)
      PROVE  IInv'
  <2> DEFINE job == [jobs[h] EXCEPT !.pc = "finish", !.outcome = outcome]
  <2>1. /\ job \in Job /\ job.pc = "finish" /\ job.message = jobs[h].message
        /\ job.execution = jobs[h].execution
    BY <1>0 DEF Job
  <2>2. jobs' = [jobs EXCEPT ![h] = job]
    BY <1>2 DEF CallbackReturn
  <2> HIDE DEF job
  <2> QED BY <1>1, <2>1, <2>2
<1>3. CASE ReadRow(h)
  <2>1. ASSUME NEW pc \in {"ack", "callback"}
        PROVE  LET job == [jobs[h] EXCEPT !.pc = pc] IN
               /\ job \in Job /\ job.pc = pc /\ job.message = jobs[h].message
               /\ job.execution = jobs[h].execution
    BY <1>0 DEF Job
  <2>2. CASE /\ jobs' = [jobs EXCEPT ![h].pc = "ack"]
             /\ \/ rows[jobs[h].execution].status = "PURGED"
                \/ /\ ~jobs[h].claimed
                   /\ rows[jobs[h].execution].status \in Terminal \cup {"RETRY_WAIT"}
    <3> DEFINE job == [jobs[h] EXCEPT !.pc = "ack"]
    <3>1. jobs' = [jobs EXCEPT ![h] = job] /\ jobs[h].pc = "read"
      BY <1>3, <2>2 DEF ReadRow
    <3>2. /\ job \in Job /\ job.pc = "ack" /\ job.message = jobs[h].message
          /\ job.execution = jobs[h].execution
      BY <2>1
    <3> HIDE DEF job
    <3> QED BY <1>1, <2>2, <3>1, <3>2
  <2>3. CASE jobs' = [jobs EXCEPT ![h].pc = "callback"]
    <3> DEFINE job == [jobs[h] EXCEPT !.pc = "callback"]
    <3>1. jobs' = [jobs EXCEPT ![h] = job]
      BY <2>3
    <3>2. /\ job \in Job /\ job.pc = "callback" /\ job.message = jobs[h].message
          /\ job.execution = jobs[h].execution
      BY <2>1
    <3> HIDE DEF job
    <3> QED BY <1>1, <3>1, <3>2
  <2>4. CASE jobs' = [jobs EXCEPT ![h] = IdleJob]
    BY <1>1, <2>4, IdleFacts
  <2> QED BY <1>3, <2>2, <2>3, <2>4 DEF ReadRow, Settled
<1> QED BY <1>2, <1>3

\* A handler leaves its message where it is, whatever it does to its row.
LEMMA JobGivenUp ==
    ASSUME IInv, NEW h \in Handlers, UNCHANGED <<outbox, stream, deployment>>,
           jobs' = [jobs EXCEPT ![h] = IdleJob],
           rows' \in [Executions -> Row], RowsAreSound',
           \A x \in Executions : rows'[x].status = rows[x].status
    PROVE  IInv'
<1>1. /\ jobs' \in [Handlers -> Job] /\ JobsAreSound'
      /\ jobs'[h] = IdleJob /\ \A k \in Handlers \ {h} : jobs'[k] = jobs[k]
  BY JobStep, IdleFacts
<1>2. TypeOK'
  BY <1>1 DEF IInv, TypeOK
<1>3. MessagesAreSound'
  BY SameStream
<1>4. ASSUME NEW e \in Executions, NEW k \in Handlers, Spent(k, rows[e])'
      PROVE  jobs'[k] = jobs[k] /\ Spent(k, rows[e])
  BY <1>1, <1>4, IdleFacts DEF Spent, IdleJob
<1>5. CarriedOn'
  BY <1>4, StillCarried
<1> QED BY <1>1, <1>2, <1>3, <1>5 DEF IInv

LEMMA GiveUpInv ==
    ASSUME IInv, NEW h \in Handlers, GiveUp(h)
    PROVE  IInv'
<1>0. /\ TypeOK /\ UNCHANGED <<outbox, stream, deployment>>
      /\ jobs' = [jobs EXCEPT ![h] = IdleJob]
  BY DEF IInv, GiveUp
<1>1. PICK e \in Executions : e = jobs[h].execution
  BY JobFacts DEF GiveUp
<1>2. CASE rows[e].holder = h
  <2> DEFINE row == [rows[e] EXCEPT !.holder = Gone]
  <2>1. rows[e] \in Row /\ outbox[e] \in CountedEvents /\ Sound(rows[e], outbox[e], deployment.skew)
    BY <1>0, RowFacts DEF IInv, RowsAreSound
  <2>2. /\ row \in Row /\ row.status = rows[e].status /\ row.attempt = rows[e].attempt
        /\ row.due = rows[e].due
    BY <2>1 DEF Row
  <2>3. rows' = [rows EXCEPT ![e] = row]
    BY <1>1, <1>2 DEF GiveUp
  <2>4. outbox' = [outbox EXCEPT ![e] = outbox[e]]
    BY <1>0 DEF TypeOK
  <2> HIDE DEF row
  <2>5. rows[e].status = "RUNNING"
    BY <1>2, <2>1, ChronoFlowConstants DEF Sound
  <2>6. Sound(row, outbox[e], deployment.skew)
    BY <2>1, <2>2, <2>5 DEF Sound, Announced
  <2>7. /\ rows' \in [Executions -> Row] /\ RowsAreSound' /\ rows'[e] = row
        /\ \A x \in Executions \ {e} : rows'[x] = rows[x]
    BY <1>0, <2>1, <2>2, <2>3, <2>4, <2>6, RowEffect
  <2> QED BY <1>0, <2>2, <2>7, JobGivenUp
<1>3. CASE rows[e].holder # h
  <2>1. rows' = rows
    BY <1>1, <1>3 DEF GiveUp
  <2>2. rows' \in [Executions -> Row] /\ RowsAreSound'
    BY <1>0, <2>1 DEF IInv, TypeOK, RowsAreSound
  <2> QED BY <1>0, <2>1, <2>2, JobGivenUp
<1> QED BY <1>2, <1>3

LEMMA AckInv ==
    ASSUME IInv, NEW h \in Handlers, Ack(h)
    PROVE  IInv'
<1>0. /\ TypeOK /\ UNCHANGED <<rows, outbox, deployment>>
      /\ jobs[h].pc = "ack" /\ jobs' = [jobs EXCEPT ![h] = IdleJob]
  BY DEF IInv, Ack
<1>1. PICK m \in Messages : m = jobs[h].message
  BY <1>0, JobFacts
<1>2. /\ stream' = [stream EXCEPT ![m] = FreeMessage]
      /\ stream'[m] = FreeMessage /\ FreeMessage \in Message
      /\ \A x \in Messages \ {m} : stream'[x] = stream[x]
  BY <1>0, <1>1 DEF Ack, TypeOK, FreeMessage, Message
<1>3. \A x \in Messages : stream'[x].execution \in {Null, stream[x].execution}
  BY <1>2 DEF FreeMessage
<1>4. /\ jobs' \in [Handlers -> Job] /\ JobsAreSound'
      /\ jobs'[h] = IdleJob /\ \A k \in Handlers \ {h} : jobs'[k] = jobs[k]
  BY <1>0, <1>3, JobStep, IdleFacts
<1>5. TypeOK'
  BY <1>0, <1>2, <1>4 DEF TypeOK
<1>6. RowsAreSound'
  BY <1>0 DEF IInv, RowsAreSound
<1>7. MessagesAreSound'
  BY <1>0, <1>2 DEF IInv, MessagesAreSound, FreeMessage
<1>8. CarriedOn'
  <2> SUFFICES ASSUME ~deployment.skew, ~deployment.trims,
                      NEW x \in Executions, rows[x].status \in Live,
                      ~(outbox[x].ready > 0), ~(outbox[x].later > 0)
               PROVE  \E k \in Messages : Carries(k, x)'
    BY <1>0 DEF CarriedOn, Live
  <2>1. PICK k \in Messages : Carries(k, x)
    BY DEF IInv, CarriedOn, Live
  <2>2. k # m
    BY <1>0, <1>1, <2>1 DEF Carries, Spent
  <2> QED BY <1>0, <1>2, <1>4, <2>1, <2>2, IdleFacts DEF Carries, Spent
<1> QED BY <1>4, <1>5, <1>6, <1>7, <1>8 DEF IInv

\* A run ends for its handler: in a terminal row, or waiting and announced.
LEMMA CompletedRow ==
    ASSUME IInv, NEW h \in Handlers, NEW e \in Executions,
           e = jobs[h].execution, rows[e].holder = h,
           CompleteEffect(h), UNCHANGED <<stream, deployment>>
    PROVE  /\ rows' \in [Executions -> Row] /\ outbox' \in [Executions -> Events]
           /\ RowsAreSound'
           /\ \A x \in Executions \ {e} : rows'[x] = rows[x] /\ outbox'[x] = outbox[x]
           /\ \A x \in Executions : rows'[x].status = "NONE" => rows[x].status = "NONE"
           /\ rows'[e].status \in Terminal \/ outbox'[e].later > 0
<1> DEFINE status == IF jobs[h].outcome = "ok" THEN "SUCCESS"
                     ELSE IF Retries(h) THEN "RETRY_WAIT" ELSE "FAILED"
           row == EndedRow(rows[e], status)
           events == IF Retries(h) THEN [outbox[e] EXCEPT !.later = @ + 1] ELSE outbox[e]
<1>0. /\ TypeOK /\ Sound(rows[e], outbox[e], deployment.skew)
      /\ rows[e] \in Row /\ outbox[e] \in CountedEvents
      /\ outbox[e].ready \in Nat /\ outbox[e].later \in Nat /\ outbox[e].sent \in Nat
      /\ rows[e].attempt \in Nat /\ MaxAttempts \in Nat /\ MaxEvents \in Nat
  BY RowFacts, ChronoFlowConstants DEF IInv, RowsAreSound
<1>1. rows[e].status = "RUNNING"
  BY <1>0, ChronoFlowConstants DEF Sound
<1>2. /\ status \in Terminal \cup {"RETRY_WAIT"}
      /\ Retries(h) => status = "RETRY_WAIT" /\ rows[e].attempt < MaxAttempts
      /\ ~Retries(h) => status \in Terminal
  BY DEF Retries, Terminal
<1>3. /\ row \in Row /\ row.status = status /\ row.attempt = rows[e].attempt
      /\ row.holder = Null
  BY <1>0, <1>2, EndedRowFacts
<1>4. /\ events \in CountedEvents /\ events.ready = outbox[e].ready
      /\ events.sent = outbox[e].sent
      /\ events.later = IF Retries(h) THEN outbox[e].later + 1 ELSE outbox[e].later
  <2>1. outbox[e].later + 1 \in Nat
    BY <1>0
  <2>2. CASE Retries(h)
    BY <1>0, <2>1, <2>2 DEF CountedEvents
  <2>3. CASE ~Retries(h)
    BY <1>0, <2>3
  <2> QED BY <2>2, <2>3
<1>5. /\ rows' = [rows EXCEPT ![e] = row] /\ outbox' = [outbox EXCEPT ![e] = events]
  <2>1. rows' = [rows EXCEPT ![e] = row]
    BY DEF CompleteEffect
  <2>2. CASE Retries(h)
    BY <2>2 DEF CompleteEffect
  <2>3. CASE ~Retries(h)
    BY <1>0, <2>3 DEF CompleteEffect, TypeOK
  <2> QED BY <2>1, <2>2, <2>3
<1> HIDE DEF status, row, events
<1>6. Sound(row, events, deployment.skew)
  <2>1. Announced(rows[e]) = rows[e].attempt
    BY <1>1 DEF Announced, Waiting
  <2>2. CASE Retries(h)
    <3>1. Announced(row) = rows[e].attempt + 1
      BY <1>2, <1>3, <2>2 DEF Announced, Waiting
    <3> QED BY <1>0, <1>2, <1>3, <1>4, <2>1, <2>2, <3>1 DEF Sound
  <2>3. CASE ~Retries(h)
    <3>1. Announced(row) = rows[e].attempt /\ row.status \notin Waiting \cup {"NONE"}
      BY <1>2, <1>3, <2>3 DEF Announced, Waiting, Terminal
    <3> QED BY <1>0, <1>3, <1>4, <2>1, <2>3, <3>1 DEF Sound
  <2> QED BY <2>2, <2>3
<1>7. row.status # "NONE"
  BY <1>2, <1>3 DEF Terminal
<1>8. row.status \in Terminal \/ events.later > 0
  BY <1>0, <1>2, <1>3, <1>4
<1> QED BY <1>3, <1>4, <1>5, <1>6, <1>7, <1>8, RowEffect

LEMMA CompleteInv ==
    ASSUME IInv, NEW h \in Handlers, Complete(h)
    PROVE  IInv'
<1>0. /\ TypeOK /\ UNCHANGED <<stream, deployment>>
      /\ jobs[h] \in Job /\ jobs[h].pc = "finish" /\ jobs[h].message \in Messages
      /\ stream[jobs[h].message].execution \in {Null, jobs[h].execution}
  BY JobFacts DEF IInv, Complete
<1>1. PICK e \in Executions : e = jobs[h].execution
  BY <1>0, JobFacts
<1>2. CASE rows[e].holder # h
  <2>1. UNCHANGED <<rows, outbox>> /\ jobs' = [jobs EXCEPT ![h] = IdleJob]
    BY <1>1, <1>2 DEF Complete
  <2>2. rows' \in [Executions -> Row] /\ RowsAreSound'
    BY <1>0, <2>1 DEF IInv, TypeOK, RowsAreSound
  <2> QED BY <1>0, <2>1, <2>2, JobGivenUp
<1>3. CASE rows[e].holder = h
  <2> DEFINE job == [jobs[h] EXCEPT !.pc = "ack"]
  <2>1. CompleteEffect(h) /\ jobs' = [jobs EXCEPT ![h] = job]
    BY <1>1, <1>3 DEF Complete
  <2>2. /\ job \in Job /\ job.pc = "ack" /\ job.message = jobs[h].message
        /\ job.execution = e
    BY <1>0, <1>1 DEF Job
  <2>3. /\ rows' \in [Executions -> Row] /\ outbox' \in [Executions -> Events]
        /\ RowsAreSound'
        /\ \A x \in Executions \ {e} : rows'[x] = rows[x] /\ outbox'[x] = outbox[x]
        /\ \A x \in Executions : rows'[x].status = "NONE" => rows[x].status = "NONE"
        /\ rows'[e].status \in Terminal \/ outbox'[e].later > 0
    BY <1>0, <1>1, <1>3, <2>1, CompletedRow
  <2> HIDE DEF job
  <2>4. /\ jobs' \in [Handlers -> Job] /\ JobsAreSound'
        /\ jobs'[h] = job /\ \A k \in Handlers \ {h} : jobs'[k] = jobs[k]
    BY <1>0, <1>1, <2>1, <2>2, <2>3, JobStep
  <2>5. TypeOK'
    BY <1>0, <2>3, <2>4 DEF TypeOK
  <2>6. MessagesAreSound'
    BY <1>0, <2>3, SameStream
  <2>7. ASSUME NEW x \in Executions, rows'[x].status \in Live,
               ~(outbox'[x].ready > 0), ~(outbox'[x].later > 0)
        PROVE  /\ rows[x].status \in Live
               /\ ~(outbox[x].ready > 0) /\ ~(outbox[x].later > 0)
               /\ \A k \in Handlers :
                    /\ jobs'[k].message \in Messages /\ Spent(k, rows[x])'
                    /\ stream[jobs'[k].message].execution = x
                    => jobs[k].message = jobs'[k].message /\ Spent(k, rows[x])
    <3>1. x # e
      BY <2>3, <2>7 DEF Live, Waiting, Terminal
    <3>2. ASSUME NEW k \in Handlers, Spent(k, rows[x])',
                 stream[jobs'[k].message].execution = x
          PROVE  jobs[k].message = jobs'[k].message /\ Spent(k, rows[x])
      <4>1. k # h
        BY <1>0, <1>1, <2>2, <2>4, <3>1, <3>2, ChronoFlowConstants
      <4> QED BY <2>3, <2>4, <3>1, <3>2, <4>1 DEF Spent
    <3> QED BY <2>3, <2>7, <3>1, <3>2
  <2>8. CarriedOn'
    BY <1>0, <2>7, StillCarried
  <2> QED BY <2>3, <2>4, <2>5, <2>6, <2>8 DEF IInv
<1> QED BY <1>2, <1>3
-----------------------------------------------------------------------------
LEMMA NextInv == IInv /\ [Next]_vars => IInv'
<1>1. IInv /\ UNCHANGED vars => IInv'
  BY DEF vars, IInv, TypeOK, RowsAreSound, MessagesAreSound, JobsAreSound, CarriedOn,
         Carries, Spent
<1>2. ASSUME IInv, NEW e \in Executions, ExecutionStep(e) PROVE IInv'
  BY <1>2, ScheduleInv, ComesDueInv, FlagInv, SendInv, PublishInv, RecoverInv, PurgeInv
     DEF ExecutionStep
<1>3. ASSUME IInv, NEW h \in Handlers, HandlerStep(h) PROVE IInv'
  BY <1>3, ClaimInv, HandlerOnly, CompleteInv, AckInv, GiveUpInv DEF HandlerStep
<1>4. ASSUME IInv, NEW h \in Handlers, Heartbeat(h) PROVE IInv'
  BY <1>4, HeartbeatInv
<1> QED BY <1>1, <1>2, <1>3, <1>4, DeliverInv, MessageInv DEF Next

LEMMA Invariance == Spec => []IInv
BY InitInv, NextInv, PTL DEF Spec
-----------------------------------------------------------------------------
(* Theorems *)

\* Every part of the pipeline stays within its bounds; for one execution there
\* are never more events than its attempts and the reconciler account for.
THEOREM TypeCorrect == Spec => []TypeOK
BY Invariance, PTL DEF IInv

\* With clocks that agree and a Stream that keeps its messages, an execution
\* that has not ended has an event to be published or a message that will be
\* delivered, however handlers, duplicates and the reconciler interleave.
THEOREM NothingIsForgotten == Spec => []Carried
<1>1. IInv => Carried
  <2> SUFFICES ASSUME IInv, ~deployment.skew, ~deployment.trims,
                      NEW e \in Executions, rows[e].status \in Live
               PROVE  \/ Unpublished(e) > 0
                      \/ \E m \in Messages : stream[m].execution = e
    BY DEF Carried, Live
  <2>1. \/ outbox[e].ready > 0 \/ outbox[e].later > 0
        \/ \E m \in Messages : stream[m].execution = e
    BY DEF IInv, CarriedOn, Live, Carries
  <2> QED BY <2>1, RowFacts DEF Unpublished, IInv
<1> QED BY <1>1, Invariance, PTL
=============================================================================
