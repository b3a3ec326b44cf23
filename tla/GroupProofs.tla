---------------------------- MODULE GroupProofs -----------------------------
(***************************************************************************)
(* Proofs about ConsumerGroup, for any workers, goroutines and messages,   *)
(* any batch sizes and times, and with or without a limit on the Stream.   *)
(***************************************************************************)
EXTENDS ConsumerGroup, FiniteSetTheorems, TLAPS

\* Redis gives out ids in order.
AddedInOrder == \A m \in Added : \A n \in 1..m : n \in Added

\* The group delivers only what the Stream has had.
DeliveredWasAdded == \A m \in Messages : m <= delivered => m \in Added

\* Messages in the hands of a worker are messages of the Stream.
WorkWasAdded ==
    /\ \A w \in Workers : loops[w].queue \subseteq Added
    /\ \A h \in Handlers : pool[h] # Null => pool[h] \in Added

\* The group's position only moves on.
TrimIsBehind == trim # Null => trim.seen <= delivered

IInv ==
    /\ TypeOK
    /\ AddedInOrder
    /\ DeliveredWasAdded
    /\ WorkWasAdded
    /\ TrimIsBehind
    /\ PendingUntilAcked
    /\ TrimSparesDelivered
-----------------------------------------------------------------------------
(* Sets of messages *)

LEMMA LeastNatural ==
    ASSUME NEW S \in SUBSET Nat, S # {}
    PROVE  \E x \in S : \A y \in S : x <= y
<1> DEFINE R == OpToRel(<, Nat)
<1>1. IsWellFoundedOn(R, Nat)
  BY NatLessThanWellFounded
<1>2. \A x, y \in Nat : y < x => <<y, x>> \in R
  BY DEF OpToRel
<1> HIDE DEF R
<1>3. PICK x \in S : \A y \in S : <<y, x>> \notin R
  BY <1>1, WFMin
<1>4. \A y \in S : x \in Nat /\ y \in Nat /\ ~(y < x)
  BY <1>2, <1>3
<1>5. \A y \in S : x <= y
  BY <1>4
<1> QED BY <1>5

LEMMA MessagesAreFinite ==
    ASSUME NEW S \in SUBSET Messages
    PROVE  /\ IsFiniteSet(S)
           /\ Cardinality(S) \in Nat
           /\ Cardinality(S) <= MaxMessages
<1>1. IsFiniteSet(Messages) /\ Cardinality(Messages) = MaxMessages
  BY FS_Interval, GroupConstants DEF Messages
<1> QED BY <1>1, FS_Subset, FS_CardinalityType

\* Min: the first message, as the code takes it from a list of messages.
LEMMA MinFacts ==
    ASSUME NEW S \in SUBSET Messages, S # {}
    PROVE  Min(S) \in S /\ \A m \in S : Min(S) <= m
<1>1. S \in SUBSET Nat
  BY GroupConstants DEF Messages
<1>2. \E x \in S : \A m \in S : x <= m
  BY <1>1, LeastNatural
<1> QED BY <1>2 DEF Min

\* Max: the last message.
LEMMA MaxFacts ==
    ASSUME NEW S \in SUBSET Messages, S # {}
    PROVE  Max(S) \in S /\ \A m \in S : m <= Max(S)
<1> DEFINE T == {MaxMessages - m : m \in S}
<1>1. MaxMessages \in Nat /\ \A m \in S : m \in Nat /\ m <= MaxMessages
  BY GroupConstants DEF Messages
<1>2. T \in SUBSET Nat /\ T # {}
  BY <1>1
<1>3. PICK t \in T : \A u \in T : t <= u
  <2> HIDE DEF T
  <2> QED BY <1>2, LeastNatural
<1>4. PICK x \in S : t = MaxMessages - x
  OBVIOUS
<1>5. \A m \in S : x >= m
  BY <1>1, <1>3, <1>4
<1>6. Max(S) \in S /\ \A m \in S : Max(S) >= m
  BY <1>4, <1>5 DEF Max
<1> QED BY <1>1, <1>6

\* The first n of a set leave no gap: what comes before one of them is one.
LEMMA FirstFacts ==
    ASSUME NEW n \in Nat, NEW S \in SUBSET Messages
    PROVE  /\ First(n, S) \subseteq S
           /\ \A x \in First(n, S), m \in S : m <= x => m \in First(n, S)
<1> SUFFICES ASSUME NEW x \in First(n, S), NEW m \in S, m <= x
             PROVE  m \in First(n, S)
  BY DEF First
<1> DEFINE below == {k \in S : k < m}
           all   == {k \in S : k < x}
<1>1. \A k \in S : k \in Int
  BY GroupConstants DEF Messages
<1>2. x \in S /\ Cardinality(all) < n
  BY DEF First
<1>3. below \in SUBSET all
  BY <1>1, <1>2
<1>4. IsFiniteSet(all) /\ Cardinality(all) \in Nat
  BY MessagesAreFinite
<1>5. Cardinality(below) <= Cardinality(all) /\ Cardinality(below) \in Nat
  BY <1>3, <1>4, FS_Subset, MessagesAreFinite
<1>6. Cardinality(below) < n
  <2> HIDE DEF below, all
  <2> QED BY <1>2, <1>4, <1>5
<1> QED BY <1>6 DEF First
-----------------------------------------------------------------------------
(* What the commands of Redis return *)

\* XREADGROUP returns new messages the Stream still has, without a gap, and
\* moves the group's position to the last of them.
LEMMA NewFacts ==
    ASSUME TypeOK
    PROVE  /\ New \subseteq kept /\ New \in SUBSET Messages
           /\ New # {} =>
                /\ Max(New) \in New /\ Max(New) > delivered
                /\ \A m \in kept : m > delivered /\ m <= Max(New) => m \in New
<1> DEFINE S == {m \in kept : m > delivered}
<1>1. S \in SUBSET Messages /\ ReadCount \in Nat /\ New = First(ReadCount, S)
  BY GroupConstants DEF TypeOK, Added, New
<1>2. New \subseteq S /\ \A x \in New, m \in S : m <= x => m \in New
  BY <1>1, FirstFacts
<1>3. New # {} => Max(New) \in New
  BY <1>1, <1>2, MaxFacts
<1> QED BY <1>1, <1>2, <1>3

\* XAUTOCLAIM takes entries of the list.
LEMMA TakenFacts ==
    ASSUME NEW w \in Workers
    PROVE  Taken(w) \subseteq InGroup /\ Taken(w) \in SUBSET Messages
<1>1. Idle(w) \in SUBSET Messages /\ Idle(w) \subseteq InGroup
  BY DEF Idle, InGroup
<1>2. Taken(w) \subseteq Idle(w)
  BY <1>1, FirstFacts, GroupConstants DEF Taken
<1> QED BY <1>1, <1>2

LEMMA NextCursorFacts ==
    ASSUME NEW w \in Workers PROVE NextCursor(w) \in 0..MaxMessages
<1> DEFINE rest == {m \in InGroup : \A n \in Taken(w) : m > n}
<1>1. rest \in SUBSET Messages
  BY DEF InGroup
<1>2. CASE rest = {}
  BY <1>2, GroupConstants DEF NextCursor
<1>3. CASE rest # {}
  <2>1. Min(rest) \in rest
    BY <1>1, <1>3, MinFacts
  <2>2. Min(rest) \in 0..MaxMessages /\ 0 \in 0..MaxMessages
    BY <1>1, <2>1, GroupConstants DEF Messages
  <2> QED BY <2>2 DEF NextCursor
<1> QED BY <1>2, <1>3

\* XPENDING's answer bounds the trim by the first pending message.
LEMMA BoundFacts ==
    /\ Bound \in 1..(MaxMessages + 1)
    /\ \A m \in InGroup : Bound <= m
<1> DEFINE old    == {m \in Messages : Expired(m)}
           cutoff == 1 + Cardinality(old)
<1>1. Cardinality(old) \in Nat /\ Cardinality(old) <= MaxMessages /\ MaxMessages \in Nat
  BY MessagesAreFinite, GroupConstants
<1> HIDE DEF old
<1>2. InGroup \in SUBSET Messages /\ \A m \in InGroup : m \in 1..MaxMessages
  BY DEF InGroup, Messages
<1>3. InGroup # {} => Min(InGroup) \in InGroup /\ \A m \in InGroup : Min(InGroup) <= m
  BY <1>2, MinFacts
<1>4. Bound = IF InGroup # {} /\ Min(InGroup) < cutoff THEN Min(InGroup) ELSE cutoff
  BY DEF Bound, old
<1> HIDE DEF cutoff
<1>5. cutoff \in 1..(MaxMessages + 1)
  BY <1>1 DEF cutoff
<1>6. CASE InGroup = {}
  BY <1>4, <1>5, <1>6
<1>7. CASE InGroup # {}
  BY <1>1, <1>2, <1>3, <1>4, <1>5, <1>7
<1> QED BY <1>6, <1>7
-----------------------------------------------------------------------------
(* Types *)

LEMMA InitInv == Init => IInv
<1> SUFFICES ASSUME Init PROVE IInv
  OBVIOUS
<1>1. \A w \in Workers : loops[w] \in Loop /\ loops[w].queue = {}
  BY GroupConstants DEF Init, StartedLoop, Loop
<1>2. TypeOK /\ Added = {}
  BY <1>1, GroupConstants DEF Init, TypeOK, Added
<1>3. DeliveredWasAdded
  BY GroupConstants DEF Init, DeliveredWasAdded, Messages
<1> QED
  BY <1>1, <1>2, <1>3 DEF Init, IInv, AddedInOrder, WorkWasAdded, TrimIsBehind,
     PendingUntilAcked, TrimSparesDelivered

\* The passing of time keeps a time a time.
LEMMA OlderFacts ==
    ASSUME NEW t \in Int \cup {Null}, NEW limit \in Int
    PROVE  /\ Older(t, limit) \in Int \cup {Null}
           /\ Older(t, limit) = Null <=> t = Null
BY GroupConstants DEF Older

\* A loop's new state, and the others'.
LEMMA OneLoopMoves ==
    ASSUME TypeOK, NEW w \in Workers, NEW state \in Loop, SetLoop(w, state)
    PROVE  /\ loops' \in [Workers -> Loop]
           /\ loops'[w] = state
           /\ \A v \in Workers \ {w} : loops'[v] = loops[v]
BY DEF TypeOK, SetLoop

\* A delivery writes entries of the list.
LEMMA DeliveredType ==
    ASSUME TypeOK, NEW w \in Workers, NEW messages
    PROVE  /\ Delivered(w, messages) \in [Messages -> Entry \cup {Null}]
           /\ \A m \in Messages :
                /\ m \in messages => Delivered(w, messages)[m] # Null
                /\ m \notin messages => Delivered(w, messages)[m] = pending[m]
BY GroupConstants DEF TypeOK, Delivered, Entry, Time
-----------------------------------------------------------------------------
(* Steps *)

\* What a command or a step does to the list of pending entries: a message
\* leaves it acknowledged or trimmed, and is delivered into it.
ListMoves ==
    /\ pending' \in [Messages -> Entry \cup {Null}]
    /\ delivered' \in 0..MaxMessages /\ delivered <= delivered'
    /\ \A m \in Messages : m <= delivered' => m <= delivered \/ m \in Added'
    /\ \A m \in Messages : m \in kept' =>
         /\ pending[m] # Null => pending'[m] # Null \/ m \in acked'
         /\ delivered < m /\ m <= delivered' => pending'[m] # Null

\* The Stream: messages are added in order, and never come back.
StreamMoves ==
    /\ stamp' \in [Messages -> Time \cup {Null}]
    /\ Added \subseteq Added'
    /\ kept' \subseteq Added'
    /\ \A m \in kept' : m \in kept \/ m \notin Added
    /\ AddedInOrder'

\* The workers' hands.
WorkMoves ==
    /\ acked' \subseteq Added' /\ acked \subseteq acked'
    /\ loops' \in [Workers -> Loop]
    /\ pool' \in [Handlers -> Messages \cup {Null}]
    /\ WorkWasAdded'

\* A cleaner that has read bound spares what is not acknowledged.
CleanerMoves ==
    /\ trim' \in Trim \cup {Null}
    /\ \/ trim' \in {trim, Null}
       \/ /\ trim'.seen = delivered
          /\ \A m \in Messages : m < trim'.bound => pending[m] = Null
          /\ UNCHANGED <<stamp, kept, delivered, pending, acked>>

Moves == ListMoves /\ StreamMoves /\ WorkMoves /\ CleanerMoves

LEMMA SameList ==
    ASSUME TypeOK, UNCHANGED <<delivered, pending>> PROVE ListMoves
BY GroupConstants DEF TypeOK, Added, ListMoves, Messages

LEMMA SameStream ==
    ASSUME TypeOK, AddedInOrder, UNCHANGED <<stamp, kept>>
    PROVE  StreamMoves /\ Added' = Added
BY DEF TypeOK, AddedInOrder, Added, StreamMoves

LEMMA SameWork ==
    ASSUME TypeOK, WorkWasAdded, UNCHANGED <<acked, loops, pool>>,
           Added \subseteq Added'
    PROVE  WorkMoves
BY DEF TypeOK, WorkWasAdded, WorkMoves

LEMMA SameCleaner ==
    ASSUME TypeOK, UNCHANGED trim PROVE CleanerMoves
BY DEF TypeOK, CleanerMoves

\* XAUTOCLAIM: a claimed message gets a new entry, a trimmed one none.
LEMMA ReclaimMoves ==
    ASSUME TypeOK, NEW w \in Workers, Reclaim(w) PROVE ListMoves
<1> DEFINE new == Delivered(w, Taken(w))
<1>1. /\ pending' = [m \in Messages |-> IF m \in Taken(w) \ kept THEN Null ELSE new[m]]
      /\ kept' = kept /\ delivered' = delivered
  BY DEF Reclaim
<1>2. /\ new \in [Messages -> Entry \cup {Null}]
      /\ \A m \in Messages : /\ m \in Taken(w) => new[m] # Null
                             /\ m \notin Taken(w) => new[m] = pending[m]
  BY DeliveredType
<1> HIDE DEF new
<1>3. pending' \in [Messages -> Entry \cup {Null}]
  BY <1>1, <1>2
<1>4. delivered \in 0..MaxMessages /\ \A m \in Messages : m \in Int
  BY GroupConstants DEF TypeOK, Messages
<1>5. ASSUME NEW m \in Messages, m \in kept, pending[m] # Null
      PROVE  pending'[m] # Null
  BY <1>1, <1>2, <1>5
<1> QED BY <1>1, <1>3, <1>4, <1>5, GroupConstants DEF ListMoves

\* XREADGROUP: every message up to the new position is in the list.
LEMMA ReadMoves ==
    ASSUME TypeOK, AddedInOrder, NEW w \in Workers, Read(w) PROVE ListMoves
<1>1. /\ pending' = Delivered(w, New) /\ kept' = kept /\ stamp' = stamp
      /\ delivered' = IF New = {} THEN delivered ELSE Max(New)
  BY DEF Read
<1>2. /\ pending' \in [Messages -> Entry \cup {Null}]
      /\ \A m \in Messages : /\ m \in New => pending'[m] # Null
                             /\ m \notin New => pending'[m] = pending[m]
  BY <1>1, DeliveredType
<1>3. /\ delivered \in 0..MaxMessages /\ MaxMessages \in Nat
      /\ \A m \in Messages : m \in 1..MaxMessages
  BY GroupConstants DEF TypeOK, Messages
<1>4. ASSUME NEW m \in Messages, m \in kept, pending[m] # Null
      PROVE  pending'[m] # Null
  BY <1>2, <1>4
<1>5. CASE New = {}
  BY <1>1, <1>2, <1>3, <1>4, <1>5 DEF ListMoves
<1>6. CASE New # {}
  <2>1. /\ delivered' \in New /\ delivered' > delivered
        /\ New \in SUBSET Messages
        /\ \A m \in kept : m > delivered /\ m <= delivered' => m \in New
    BY <1>1, <1>6, NewFacts
  <2>2. delivered' \in 0..MaxMessages /\ delivered <= delivered'
    BY <1>3, <2>1
  <2>3. \A m \in Messages : m \in kept /\ delivered < m /\ m <= delivered' =>
                              pending'[m] # Null
    BY <1>2, <1>3, <2>1
  <2>4. \A m \in Messages : m <= delivered' => m \in Added'
    <3>1. delivered' \in Added /\ Added' = Added
      BY <1>1, <2>1, NewFacts DEF TypeOK, Added
    <3>2. \A m \in Messages : m <= delivered' => m \in 1..delivered'
      BY <1>3, <2>2
    <3> QED BY <3>1, <3>2 DEF AddedInOrder
  <2> QED BY <1>1, <1>2, <1>3, <1>4, <2>2, <2>3, <2>4 DEF ListMoves
<1> QED BY <1>5, <1>6

\* A loop takes messages of the Stream into its queue.
LEMMA LoopMoves ==
    ASSUME TypeOK, AddedInOrder, WorkWasAdded, NEW w \in Workers, NEW state \in Loop,
           SetLoop(w, state), state.queue \subseteq Added,
           UNCHANGED <<stamp, kept, acked, pool, trim>>
    PROVE  StreamMoves /\ WorkMoves /\ CleanerMoves
<1>1. /\ loops' \in [Workers -> Loop] /\ loops'[w] = state
      /\ \A v \in Workers \ {w} : loops'[v] = loops[v]
  BY OneLoopMoves
<1>2. StreamMoves /\ Added' = Added /\ CleanerMoves
  BY SameStream, SameCleaner
<1> QED BY <1>1, <1>2 DEF TypeOK, WorkWasAdded, WorkMoves

\* Every step of a read loop.
LEMMA LoopStepMoves ==
    ASSUME IInv, NEW w \in Workers, LoopStep(w) PROVE Moves
<1> DEFINE old == loops[w]
<1>0. /\ TypeOK /\ AddedInOrder /\ WorkWasAdded /\ old \in Loop
      /\ kept \subseteq Added /\ Added \subseteq Messages
      /\ old.queue \subseteq Added
  BY DEF IInv, TypeOK, Added, WorkWasAdded
<1>1. CASE AutoClaim(w)
  <2> DEFINE new == [pc |-> "read", queue |-> Taken(w) \cap kept,
                     cursor |-> NextCursor(w)]
  <2>1. Reclaim(w) /\ SetLoop(w, new)
    BY <1>1 DEF AutoClaim
  <2>2. new \in Loop /\ new.queue \subseteq Added
    BY <1>0, TakenFacts, NextCursorFacts DEF Loop
  <2> HIDE DEF new
  <2> QED BY <1>0, <2>1, <2>2, ReclaimMoves, LoopMoves DEF Reclaim, Moves
<1>2. CASE NoReclaim(w)
  <2> DEFINE new == [old EXCEPT !.pc = "read"]
  <2>1. SetLoop(w, new)
    BY <1>2 DEF NoReclaim
  <2>2. new \in Loop /\ new.queue \subseteq Added
    BY <1>0 DEF Loop
  <2> HIDE DEF new
  <2>3. UNCHANGED <<stamp, kept, acked, pool, trim>> /\ ListMoves
    BY <1>0, <1>2, ReclaimMoves, SameList DEF NoReclaim, Reclaim
  <2> QED BY <1>0, <2>1, <2>2, <2>3, LoopMoves DEF Moves
<1>3. CASE ReadNew(w)
  <2> DEFINE new == [old EXCEPT !.pc = "reclaim", !.queue = New]
  <2>1. Read(w) /\ SetLoop(w, new)
    BY <1>3 DEF ReadNew
  <2>2. New \subseteq kept /\ New \in SUBSET Messages
    BY <1>0, NewFacts
  <2>3. new \in Loop /\ new.queue \subseteq Added
    BY <1>0, <2>2 DEF Loop
  <2> HIDE DEF new
  <2> QED BY <1>0, <2>1, <2>3, ReadMoves, LoopMoves DEF Read, Moves
<1>4. CASE ReadError(w)
  <2> DEFINE new == [old EXCEPT !.pc = "reclaim"]
  <2>1. SetLoop(w, new)
    BY <1>4 DEF ReadError
  <2>2. new \in Loop /\ new.queue \subseteq Added
    BY <1>0 DEF Loop
  <2> HIDE DEF new
  <2>3. UNCHANGED <<stamp, kept, acked, pool, trim>> /\ ListMoves
    BY <1>0, <1>4, ReadMoves, SameList DEF ReadError, Read
  <2> QED BY <1>0, <2>1, <2>2, <2>3, LoopMoves DEF Moves
<1>5. ASSUME NEW h \in Handlers, Submit(w, h) PROVE Moves
  <2> DEFINE m   == Min(old.queue)
             new == [old EXCEPT !.queue = old.queue \ {m}]
  <2>1. /\ SetLoop(w, new) /\ pool' = [pool EXCEPT ![h] = m] /\ old.queue # {}
        /\ UNCHANGED <<stamp, kept, delivered, pending, acked, trim>>
    BY <1>5 DEF Submit
  <2>2. m \in old.queue /\ m \in Added /\ m \in Messages
    BY <1>0, <2>1, MinFacts
  <2> HIDE DEF m
  <2>3. new \in Loop /\ new.queue \subseteq Added
    BY <1>0 DEF Loop
  <2> HIDE DEF new
  <2>4. /\ loops' \in [Workers -> Loop] /\ loops'[w] = new
        /\ \A v \in Workers \ {w} : loops'[v] = loops[v]
    BY <1>0, <2>1, <2>3, OneLoopMoves
  <2>5. ListMoves /\ StreamMoves /\ Added' = Added /\ CleanerMoves
    BY <1>0, <2>1, SameList, SameStream, SameCleaner
  <2>6. WorkMoves
    BY <1>0, <2>1, <2>2, <2>3, <2>4, <2>5 DEF TypeOK, WorkWasAdded, WorkMoves
  <2> QED BY <2>5, <2>6 DEF Moves
<1> QED BY <1>1, <1>2, <1>3, <1>4, <1>5 DEF LoopStep

\* XACK, or leaving the message pending; a process that dies.
LEMMA HandlerMoves ==
    ASSUME IInv,
           \/ \E h \in Handlers : HandlerStep(h)
           \/ \E w \in Workers : Crash(w)
    PROVE  Moves
<1>0. /\ TypeOK /\ AddedInOrder /\ WorkWasAdded
      /\ kept \subseteq Added /\ Added \subseteq Messages
  BY DEF IInv, TypeOK, Added
<1>1. /\ StreamMoves /\ Added' = Added /\ CleanerMoves
      /\ UNCHANGED <<kept, delivered>>
  BY <1>0, SameStream, SameCleaner DEF HandlerStep, Ack, NoAck, Crash
<1>2. ASSUME NEW h \in Handlers, Ack(h) PROVE ListMoves /\ WorkMoves
  <2>1. /\ pool[h] \in Added /\ pool[h] \in Messages
        /\ pending' = [pending EXCEPT ![pool[h]] = Null]
        /\ acked' = acked \cup {pool[h]}
        /\ pool' = [pool EXCEPT ![h] = Null] /\ loops' = loops
    BY <1>0, <1>2 DEF Ack, WorkWasAdded
  <2>2. \A m \in Messages : m \in Int
    BY GroupConstants DEF Messages
  <2>3. ListMoves
    BY <1>0, <1>1, <2>1, <2>2, GroupConstants DEF TypeOK, ListMoves
  <2>4. WorkMoves
    BY <1>0, <1>1, <2>1 DEF TypeOK, WorkWasAdded, WorkMoves
  <2> QED BY <2>3, <2>4
<1>3. ASSUME NEW h \in Handlers, NoAck(h) PROVE ListMoves /\ WorkMoves
  <2>1. UNCHANGED <<pending, acked, loops>> /\ pool' = [pool EXCEPT ![h] = Null]
    BY <1>3 DEF NoAck
  <2> QED BY <1>0, <1>1, <2>1, SameList DEF TypeOK, WorkWasAdded, WorkMoves
<1>4. ASSUME NEW w \in Workers, Crash(w) PROVE ListMoves /\ WorkMoves
  <2>1. /\ UNCHANGED <<pending, acked>> /\ SetLoop(w, StartedLoop)
        /\ pool' = [h \in Handlers |-> IF Owner[h] = w THEN Null ELSE pool[h]]
    BY <1>4 DEF Crash
  <2>2. StartedLoop \in Loop /\ StartedLoop.queue = {}
    BY GroupConstants DEF StartedLoop, Loop
  <2>3. /\ loops' \in [Workers -> Loop] /\ loops'[w] = StartedLoop
        /\ \A v \in Workers \ {w} : loops'[v] = loops[v]
    BY <1>0, <2>1, <2>2, OneLoopMoves
  <2> QED BY <1>0, <1>1, <2>1, <2>2, <2>3, SameList DEF TypeOK, WorkWasAdded, WorkMoves
<1> QED BY <1>1, <1>2, <1>3, <1>4 DEF HandlerStep, Moves

\* XADD gives the next id to a message, and may drop old ones.
LEMMA AddMoves ==
    ASSUME IInv, NEW m \in Messages, NEW first \in Messages, Add(m, first)
    PROVE  Moves
<1>0. /\ TypeOK /\ AddedInOrder /\ WorkWasAdded
      /\ kept \subseteq Added /\ Added \subseteq Messages
      /\ \A n \in Messages : n \in Int
  BY GroupConstants DEF IInv, TypeOK, Added, Messages
<1>1. /\ m \notin Added /\ \A n \in 1..(m - 1) : n \in Added
      /\ stamp' = [stamp EXCEPT ![m] = 0]
      /\ kept' = {n \in kept \cup {m} : n >= first}
      /\ UNCHANGED <<delivered, pending, acked, loops, pool, trim>>
  BY DEF Add
<1>2. stamp' \in [Messages -> Time \cup {Null}] /\ Added' = Added \cup {m}
  BY <1>0, <1>1, GroupConstants DEF TypeOK, Added, Time
<1>3. AddedInOrder'
  <2> SUFFICES ASSUME NEW k \in Added', NEW n \in 1..k PROVE n \in Added'
    BY DEF AddedInOrder
  <2>1. CASE k \in Added
    BY <1>0, <1>2, <2>1 DEF AddedInOrder
  <2>2. CASE k = m
    <3>1. n = m \/ n \in 1..(m - 1)
      BY <1>0, <2>2
    <3> QED BY <1>1, <1>2, <3>1
  <2> QED BY <1>2, <2>1, <2>2
<1>4. StreamMoves
  BY <1>0, <1>1, <1>2, <1>3 DEF StreamMoves
<1>5. ListMoves /\ WorkMoves /\ CleanerMoves
  BY <1>0, <1>1, <1>2, SameList, SameWork, SameCleaner
<1> QED BY <1>4, <1>5 DEF Moves

\* A tick makes times older and changes nothing else.
LEMMA TickMoves ==
    ASSUME IInv, Tick PROVE Moves
<1>0. /\ TypeOK /\ AddedInOrder /\ WorkWasAdded
      /\ kept \subseteq Added /\ Added \subseteq Messages
      /\ \A n \in Messages : n \in Int
  BY GroupConstants DEF IInv, TypeOK, Added, Messages
<1>1. /\ stamp' = [m \in Messages |-> Older(stamp[m], Retention + 1)]
      /\ pending' = [m \in Messages |->
                       IF pending[m] = Null THEN Null
                       ELSE [pending[m] EXCEPT !.since = Older(pending[m].since, ReclaimIdle)]]
      /\ UNCHANGED <<kept, delivered, acked, loops, pool, trim>>
  BY DEF Tick
<1>2. ASSUME NEW m \in Messages
      PROVE  /\ stamp'[m] \in Time \cup {Null}
             /\ stamp'[m] = Null <=> stamp[m] = Null
  <2>1. stamp[m] \in Int \cup {Null} /\ Retention + 1 \in Int
    BY <1>0, GroupConstants DEF TypeOK, Time
  <2> QED BY <1>1, <2>1, OlderFacts DEF Time
<1>3. stamp' \in [Messages -> Time \cup {Null}] /\ Added' = Added
  BY <1>1, <1>2 DEF Added
<1>4. StreamMoves
  BY <1>0, <1>1, <1>3 DEF AddedInOrder, StreamMoves
<1>5. ASSUME NEW m \in Messages
      PROVE  /\ pending'[m] \in Entry \cup {Null}
             /\ pending[m] # Null => pending'[m] # Null
  <2>1. CASE pending[m] = Null
    BY <1>1, <2>1
  <2>2. CASE pending[m] # Null
    <3> DEFINE t == Older(pending[m].since, ReclaimIdle)
    <3>1. /\ pending[m] \in Entry /\ pending[m].since \in Int
          /\ ReclaimIdle \in Int /\ pending[m].since # Null
      BY <1>0, <2>2, GroupConstants DEF TypeOK, Entry, Time
    <3>2. t \in Int
      BY <3>1, OlderFacts
    <3>3. pending'[m] = [pending[m] EXCEPT !.since = t]
      BY <1>1, <2>2
    <3> HIDE DEF t
    <3>4. pending'[m] \in Entry
      BY <3>1, <3>2, <3>3 DEF Entry, Time
    <3> QED BY <3>4, GroupConstants DEF Entry, Time
  <2> QED BY <2>1, <2>2
<1>6. ListMoves
  <2>1. pending' \in [Messages -> Entry \cup {Null}]
    BY <1>1, <1>5
  <2> QED BY <1>0, <1>1, <1>5, <2>1, GroupConstants DEF TypeOK, ListMoves
<1>7. WorkMoves /\ CleanerMoves
  BY <1>0, <1>1, <1>3, SameWork, SameCleaner
<1> QED BY <1>4, <1>6, <1>7 DEF Moves

\* The cleaner takes its bound from XPENDING, and drops what is before it.
LEMMA TrimMoves ==
    ASSUME IInv, TrimRead \/ TrimApply \/ TrimError PROVE Moves
<1>0. /\ TypeOK /\ AddedInOrder /\ WorkWasAdded
      /\ kept \subseteq Added /\ Added \subseteq Messages
      /\ \A n \in Messages : n \in Int
  BY GroupConstants DEF IInv, TypeOK, Added, Messages
<1>1. UNCHANGED <<stamp, delivered, pending, acked, loops, pool>> /\ Added' = Added
  BY DEF TrimRead, TrimApply, TrimError, Added
<1>2. ListMoves /\ WorkMoves
  BY <1>0, <1>1, SameList, SameWork
<1>3. StreamMoves
  BY <1>0, <1>1 DEF TypeOK, TrimRead, TrimApply, TrimError, AddedInOrder, StreamMoves
<1>4. CASE TrimRead
  <2> DEFINE new == [bound |-> Bound, seen |-> delivered]
  <2>1. trim' = new /\ kept' = kept
    BY <1>4 DEF TrimRead
  <2>2. ASSUME NEW m \in Messages, m < Bound PROVE pending[m] = Null
    BY <1>0, <2>2, BoundFacts, GroupConstants DEF InGroup
  <2>3. new \in Trim /\ new.bound = Bound /\ new.seen = delivered
    BY <1>0, BoundFacts DEF TypeOK, Trim
  <2> HIDE DEF new
  <2>4. CleanerMoves
    BY <1>1, <2>1, <2>2, <2>3 DEF CleanerMoves
  <2> QED BY <1>2, <1>3, <2>4 DEF Moves
<1>5. CASE TrimApply \/ TrimError
  BY <1>2, <1>3, <1>5 DEF TrimApply, TrimError, CleanerMoves, Moves
<1> QED BY <1>4, <1>5

LEMMA StutterMoves ==
    ASSUME IInv, UNCHANGED vars PROVE Moves
BY SameList, SameStream, SameWork, SameCleaner DEF IInv, vars, Moves

LEMMA NextMoves ==
    ASSUME IInv, [Next]_vars PROVE Moves
BY LoopStepMoves, HandlerMoves, AddMoves, TickMoves, TrimMoves, StutterMoves DEF Next
-----------------------------------------------------------------------------
(* The inductive invariant *)

LEMMA KeepsPending ==
    ASSUME IInv, Moves PROVE PendingUntilAcked'
<1> SUFFICES ASSUME NEW m \in kept', m <= delivered', m \notin acked'
             PROVE  pending'[m] # Null
  BY DEF PendingUntilAcked
<1>1. m \in Messages /\ m \in Int /\ delivered \in Int
  BY GroupConstants DEF IInv, TypeOK, Moves, StreamMoves, Added, Messages
<1>2. CASE m > delivered
  BY <1>1, <1>2 DEF Moves, ListMoves
<1>3. CASE m <= delivered
  <2>1. m \in kept
    BY <1>1, <1>3 DEF IInv, DeliveredWasAdded, Moves, StreamMoves
  <2>2. pending[m] # Null
    BY <1>3, <2>1 DEF IInv, PendingUntilAcked, Moves, WorkMoves
  <2> QED BY <1>1, <2>2 DEF Moves, ListMoves
<1> QED BY <1>1, <1>2, <1>3

LEMMA KeepsTrim ==
    ASSUME IInv, Moves PROVE TrimSparesDelivered'
<1> SUFFICES ASSUME trim' # Null, NEW m \in kept', m < trim'.bound, m <= trim'.seen
             PROVE  m \in acked'
  BY DEF TrimSparesDelivered
<1>1. /\ m \in Messages /\ m \in Int /\ delivered \in Int
      /\ acked \subseteq acked'
  BY GroupConstants DEF IInv, TypeOK, Moves, StreamMoves, WorkMoves, Added, Messages
<1>2. CASE trim' = trim
  <2>1. m <= delivered
    BY <1>1, <1>2 DEF IInv, TypeOK, TrimIsBehind, Trim
  <2>2. m \in kept
    BY <1>1, <2>1 DEF IInv, DeliveredWasAdded, Moves, StreamMoves
  <2> QED BY <1>1, <1>2, <2>2 DEF IInv, TrimSparesDelivered
<1>3. CASE trim' # trim
  <2>1. /\ m <= delivered /\ m \in kept
        /\ pending[m] = Null
    BY <1>1, <1>3 DEF Moves, CleanerMoves
  <2> QED BY <1>1, <2>1 DEF IInv, PendingUntilAcked
<1> QED BY <1>2, <1>3

LEMMA NextInv == IInv /\ [Next]_vars => IInv'
<1> SUFFICES ASSUME IInv, [Next]_vars PROVE IInv'
  OBVIOUS
<1>1. Moves
  BY NextMoves
<1>2. TypeOK'
  BY <1>1 DEF Moves, ListMoves, StreamMoves, WorkMoves, CleanerMoves, TypeOK
<1>3. AddedInOrder' /\ WorkWasAdded'
  BY <1>1 DEF Moves, StreamMoves, WorkMoves
<1>4. DeliveredWasAdded'
  BY <1>1 DEF IInv, Moves, ListMoves, StreamMoves, DeliveredWasAdded
<1>5. TrimIsBehind'
  <2>1. delivered \in Int /\ delivered' \in Int /\ delivered <= delivered'
    BY <1>1, <1>2 DEF IInv, TypeOK, Moves, ListMoves
  <2>2. trim # Null => trim.seen \in Int
    BY DEF IInv, TypeOK, Trim
  <2> QED BY <1>1, <2>1, <2>2 DEF IInv, TrimIsBehind, Moves, CleanerMoves
<1> QED BY <1>1, <1>2, <1>3, <1>4, <1>5, KeepsPending, KeepsTrim DEF IInv

LEMMA Invariance == Spec => []IInv
BY InitInv, NextInv, PTL DEF Spec
-----------------------------------------------------------------------------
(* Theorems *)

\* Stream, group, loops, pools and cleaner keep their types, however commands
\* fail and processes die.
THEOREM TypeCorrect == Spec => []TypeOK
BY Invariance, PTL DEF IInv

\* No delivered message falls out of the group before XACK or a trim, whatever
\* becomes of the worker it was delivered to.
THEOREM NothingFallsOut == Spec => []PendingUntilAcked
BY Invariance, PTL DEF IInv

\* The cleaner's XTRIM spares every message that had been delivered when it read
\* XPENDING and is not acknowledged, whatever is delivered, claimed or added in
\* between.
THEOREM CleanerSparesWork == Spec => []TrimSparesDelivered
BY Invariance, PTL DEF IInv
=============================================================================
