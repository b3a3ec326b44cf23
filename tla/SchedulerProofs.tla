-------------------------- MODULE SchedulerProofs ---------------------------
(***************************************************************************)
(* Proofs about Scheduler.tla, for any timers, replicas and API clients,   *)
(* and for any cron expressions that obey CronAssumption.                  *)
(*                                                                         *)
(* The last part is about timer_definitions as the callers of the API see  *)
(* it: TimerApi, with the same timers and clients, implements              *)
(* TimerRegistry.                                                          *)
(***************************************************************************)
EXTENDS Scheduler, WellFoundedInduction, TLAPS

-----------------------------------------------------------------------------
(* Recursion *)

\* A set of naturals has a least member.
LEMMA LeastNatural ==
    ASSUME NEW S \in SUBSET Nat, S # {}
    PROVE  \E x \in S : \A y \in S : x <= y
<1> DEFINE R == OpToRel(<, Nat)
<1>1. IsWellFoundedOn(R, Nat)
  BY NatLessThanWellFounded
<1>2. \A x, y \in Nat : y < x => <<y, x>> \in R
  BY DEF OpToRel
<1> HIDE DEF R
<1>3. PICK x \in S : \A y \in S : <<y, x>> \notin R
  BY <1>1, WFMin
<1>4. \A y \in S : x \in Nat /\ y \in Nat /\ ~(y < x)
  BY <1>2, <1>3
<1>5. \A y \in S : x <= y
  BY <1>4
<1> QED BY <1>5

\* f[k] is what k steps make of first.
Iterates(f, first, step, n) ==
    f[0] = first /\ \A k \in 1..n : f[k] = step[f[k - 1]]

\* A step can be taken again and again, n times.
LEMMA Iteration ==
    ASSUME NEW first \in Nat, NEW step \in [Nat -> Nat], NEW n \in Nat
    PROVE  \E f \in [0..n -> Nat] : Iterates(f, first, step, n)
<1> DEFINE Of(k) == \E f \in [0..k -> Nat] :
                       f[0] = first /\ \A j \in 1..k : f[j] = step[f[j - 1]]
<1> SUFFICES ASSUME ~Of(n) PROVE FALSE
  BY DEF Iterates
<1>1. PICK k \in Nat : ~Of(k) /\ \A j \in Nat : ~Of(j) => k <= j
  <2>1. {j \in Nat : ~Of(j)} # {} /\ {j \in Nat : ~Of(j)} \in SUBSET Nat
    OBVIOUS
  <2> HIDE DEF Of
  <2> QED BY <2>1, LeastNatural
<1>2. k # 0
  <2> SUFFICES ASSUME k = 0 PROVE Of(k)
    BY <1>1
  <2> DEFINE f == [j \in 0..k |-> first]
  <2>1. f \in [0..k -> Nat] /\ f[0] = first
    OBVIOUS
  <2>2. \A j \in 1..k : FALSE
    OBVIOUS
  <2> HIDE DEF f
  <2> QED BY <2>1, <2>2
<1>3. k - 1 \in Nat /\ Of(k - 1)
  <2> HIDE DEF Of
  <2> QED BY <1>1, <1>2
<1>4. PICK g \in [0..(k - 1) -> Nat] :
         g[0] = first /\ \A j \in 1..(k - 1) : g[j] = step[g[j - 1]]
  BY <1>3
<1> DEFINE f == [j \in 0..k |-> IF j < k THEN g[j] ELSE step[g[k - 1]]]
<1>5. f \in [0..k -> Nat] /\ f[0] = first
  BY <1>2, <1>4
<1>6. ASSUME NEW j \in 1..k
      PROVE  f[j] = step[f[j - 1]]
  <2>1. CASE j < k
    <3>1. j \in 1..(k - 1) /\ j \in 0..k /\ j - 1 \in 0..k /\ j - 1 < k
      BY <2>1
    <3>2. f[j] = g[j] /\ f[j - 1] = g[j - 1]
      BY <2>1, <3>1
    <3> QED BY <1>4, <3>1, <3>2
  <2>2. CASE j = k
    <3>1. j - 1 \in 0..k /\ j - 1 < k
      BY <1>2, <2>2
    <3>2. f[j] = step[g[k - 1]] /\ f[j - 1] = g[k - 1]
      BY <2>2, <3>1
    <3> QED BY <3>2
  <2> QED BY <2>1, <2>2
<1> HIDE DEF f
<1> QED BY <1>1, <1>5, <1>6

-----------------------------------------------------------------------------
(* The inductive invariant *)

\* A slot the cron expression gave after a time the program has seen.
Upcoming(t, s) == \E x \in 0..MaxTime : s = NextTriggerTime(t, x)

\* What next_fire_at is set to, and what a request is about to set it to, are
\* slots of the timer; an activation has one.
NextIsSlot ==
    /\ \A t \in Timers :
         timers[t].next_fire_at # Null => Upcoming(t, timers[t].next_fire_at)
    /\ \A c \in Clients :
         requests[c] # Null /\ requests[c].op = "activate"
         => Upcoming(requests[c].timer, requests[c].next)

\* A batch looks for what was due when it began, not later than now.
ScansInPast == \A r \in Schedulers : scans[r] # Null => scans[r] <= now

\* What has fired was due.
FiredInPast ==
    \A t \in Timers, s \in 0..MaxTime : executions[t][s] > 0 => s <= now

IInv ==
    /\ TypeOK
    /\ NextIsSlot
    /\ ScansInPast
    /\ ActiveHasNext
    /\ FiredInPast
-----------------------------------------------------------------------------
(* Slots *)

LEMMA ConstantFacts ==
    /\ Timers \subseteq Nat /\ Grace \in Nat /\ MaxTime \in Nat /\ Null \notin Nat
    /\ DefaultMaxCatchUp \in Nat \ {0}
    /\ 0..MaxTime \subseteq Nat
BY SchedulerConstants

LEMMA UpcomingFacts ==
    ASSUME NEW t \in Timers, NEW s, Upcoming(t, s)
    PROVE  /\ s \in Nat /\ s > 0 /\ s # Null
           /\ s <= MaxTime => s \in Slots(t)
<1>1. PICK x \in 0..MaxTime : s = NextTriggerTime(t, x)
  BY DEF Upcoming
<1>2. x \in Nat /\ s \in Nat /\ s > x /\ s # Null
  BY <1>1, CronAssumption, ConstantFacts DEF Time
<1>3. ASSUME s <= MaxTime PROVE s \in Slots(t)
  <2>1. /\ s - 1 \in x..MaxTime /\ s - 1 < NextTriggerTime(t, x) /\ s \in 1..MaxTime
    BY <1>1, <1>2, <1>3, ConstantFacts
  <2>2. NextTriggerTime(t, s - 1) = s
    BY <1>1, <2>1, CronAssumption
  <2> QED BY <2>1, <2>2 DEF Slots
<1> QED BY <1>2, <1>3

\* Between a time and the slot after it there is no slot.
LEMMA NoSlotBetween ==
    ASSUME NEW t \in Timers, NEW x \in 0..MaxTime, NEW s \in Slots(t), x < s
    PROVE  NextTriggerTime(t, x) <= s
<1>1. s \in Nat /\ s - 1 \in x..MaxTime /\ NextTriggerTime(t, s - 1) = s /\ x \in Nat
  BY ConstantFacts DEF Slots
<1>2. NextTriggerTime(t, x) \in Nat
  BY CronAssumption DEF Time
<1>3. s - 1 < NextTriggerTime(t, x) => NextTriggerTime(t, x) = s
  BY <1>1, CronAssumption
<1> QED BY <1>1, <1>2, <1>3

\* The catch-up loop's cursor goes on round by round.
LEMMA CursorDefined ==
    ASSUME NEW t \in Timers, NEW at \in 0..MaxTime,
           timers[t].next_fire_at \in Nat, timers[t].max_catch_up \in Nat
    PROVE  LET cursor == CatchUpCursor(t, at)
               limit  == timers[t].max_catch_up
           IN  /\ cursor \in [0..limit -> Nat]
               /\ cursor[0] = timers[t].next_fire_at
               /\ \A n \in 1..limit :
                    cursor[n] = IF cursor[n - 1] <= at
                                THEN NextTriggerTime(t, cursor[n - 1])
                                ELSE cursor[n - 1]
<1> DEFINE limit == timers[t].max_catch_up
           first == timers[t].next_fire_at
           step  == [x \in Nat |-> IF x <= at THEN NextTriggerTime(t, x) ELSE x]
           Runs(f) == f = [n \in 0..limit |-> IF n = 0 THEN first
                             ELSE IF f[n - 1] <= at THEN NextTriggerTime(t, f[n - 1])
                             ELSE f[n - 1]]
<1>1. step \in [Nat -> Nat]
  <2>1. ASSUME NEW x \in Nat, x <= at PROVE NextTriggerTime(t, x) \in Nat
    BY <2>1, CronAssumption, ConstantFacts DEF Time
  <2> QED BY <2>1
<1>2. PICK g \in [0..limit -> Nat] :
         g[0] = first /\ \A n \in 1..limit : g[n] = step[g[n - 1]]
  <2>1. limit \in Nat /\ first \in Nat
    OBVIOUS
  <2>2. \E g \in [0..limit -> Nat] : Iterates(g, first, step, limit)
    <3> HIDE DEF step, limit, first, Runs
    <3> QED BY <1>1, <2>1, Iteration
  <2> HIDE DEF step, limit, first, Runs
  <2> QED BY <2>2 DEF Iterates
<1>3. Runs(g)
  <2>1. ASSUME NEW n \in 0..limit, n # 0
        PROVE  g[n] = IF g[n - 1] <= at THEN NextTriggerTime(t, g[n - 1])
                      ELSE g[n - 1]
    <3>1. n \in 1..limit /\ n - 1 \in 0..limit
      BY <2>1
    <3> QED BY <1>2, <3>1
  <2> QED BY <1>2, <2>1
<1>4. CatchUpCursor(t, at) = CHOOSE f : Runs(f)
  BY DEF CatchUpCursor
<1>5. Runs(CatchUpCursor(t, at))
  <2> HIDE DEF Runs
  <2> QED BY <1>3, <1>4
<1> DEFINE cursor == CatchUpCursor(t, at)
<1>6. /\ DOMAIN cursor = 0..limit
      /\ cursor = [n \in 0..limit |-> cursor[n]]
      /\ cursor[0] = first
      /\ \A n \in 1..limit : cursor[n] = IF cursor[n - 1] <= at
                                         THEN NextTriggerTime(t, cursor[n - 1])
                                         ELSE cursor[n - 1]
  <2> HIDE DEF cursor
  <2>1. Runs(cursor)
    BY <1>5 DEF cursor
  <2> QED BY <2>1
<1> HIDE DEF cursor, Runs
<1>7. \A n \in 0..limit : cursor[n] \in Nat
  <2> DEFINE Bad == {n \in 0..limit : cursor[n] \notin Nat}
  <2> SUFFICES ASSUME Bad # {} PROVE FALSE
    OBVIOUS
  <2>1. PICK n \in Bad : \A k \in Bad : n <= k
    <3>1. Bad \in SUBSET Nat
      OBVIOUS
    <3> HIDE DEF Bad
    <3> QED BY <3>1, LeastNatural
  <2>2. n # 0
    BY <1>6, <2>1
  <2>3. n \in 1..limit /\ n - 1 \in 0..limit /\ n - 1 \notin Bad
    BY <2>1, <2>2
  <2>4. cursor[n - 1] \in Nat
    BY <2>3
  <2>5. cursor[n] = step[cursor[n - 1]]
    BY <1>6, <2>3, <2>4
  <2> HIDE DEF step
  <2> QED BY <1>1, <2>1, <2>4, <2>5
<1>8. cursor \in [0..limit -> Nat]
  BY <1>6, <1>7
<1> QED BY <1>6, <1>8 DEF cursor

\* Round by round the cursor goes from slot to slot: it leaves none out, and
\* none behind that is still to come, and stays at none that is due.
LEMMA CursorFacts ==
    ASSUME NEW t \in Timers, NEW at \in 0..MaxTime,
           timers[t].next_fire_at \in Nat, timers[t].max_catch_up \in Nat,
           Upcoming(t, timers[t].next_fire_at), timers[t].next_fire_at <= at,
           NEW n \in 0..timers[t].max_catch_up
    PROVE  LET cursor == CatchUpCursor(t, at)
               first  == timers[t].next_fire_at
           IN  /\ cursor[n] \in Nat /\ Upcoming(t, cursor[n]) /\ first <= cursor[n]
               /\ n > 0 => first < cursor[n]
               /\ \A s \in Slots(t) : first <= s /\ s < cursor[n] =>
                    s <= at /\ \E k \in 0..(n - 1) : cursor[k] = s
               /\ \A k \in 0..(n - 1) : cursor[k] <= at => cursor[k] < cursor[n]
<1> DEFINE cursor == CatchUpCursor(t, at)
           first  == timers[t].next_fire_at
           limit  == timers[t].max_catch_up
           P(k) == /\ cursor[k] \in Nat /\ Upcoming(t, cursor[k]) /\ first <= cursor[k]
                   /\ k > 0 => first < cursor[k]
                   /\ \A s \in Slots(t) : first <= s /\ s < cursor[k] =>
                        s <= at /\ \E j \in 0..(k - 1) : cursor[j] = s
                   /\ \A j \in 0..(k - 1) : cursor[j] <= at => cursor[j] < cursor[k]
<1>0. /\ cursor \in [0..limit -> Nat]
      /\ cursor[0] = first
      /\ \A k \in 1..limit :
           cursor[k] = IF cursor[k - 1] <= at
                       THEN NextTriggerTime(t, cursor[k - 1])
                       ELSE cursor[k - 1]
  BY CursorDefined
<1>1. first \in Nat /\ limit \in Nat /\ Upcoming(t, first) /\ first <= at /\ at \in Nat
  BY ConstantFacts
<1> HIDE DEF cursor, first, limit
<1>2. \A s \in Slots(t) : s \in Nat
  BY ConstantFacts DEF Slots
<1>3. P(0)
  BY <1>0, <1>1, <1>2
<1>4. ASSUME NEW k \in 1..limit, P(k - 1) PROVE P(k)
  <2>0. /\ k - 1 \in 0..limit /\ k - 1 \in Nat /\ k \in Nat
        /\ cursor[k - 1] \in Nat
    BY <1>0, <1>1
  <2>1. CASE ~(cursor[k - 1] <= at)
    <3>1. cursor[k] = cursor[k - 1]
      BY <1>0, <2>1
    <3>2. first < cursor[k]
      BY <1>1, <2>0, <2>1, <3>1
    <3>3. ASSUME NEW s \in Slots(t), first <= s, s < cursor[k]
          PROVE  s <= at /\ \E j \in 0..(k - 1) : cursor[j] = s
      <4>1. s <= at /\ \E j \in 0..(k - 1 - 1) : cursor[j] = s
        BY <1>4, <3>1, <3>3
      <4> QED BY <2>0, <4>1
    <3>4. ASSUME NEW j \in 0..(k - 1), cursor[j] <= at PROVE cursor[j] < cursor[k]
      <4>1. j # k - 1
        BY <2>1, <3>4
      <4>2. j \in 0..(k - 1 - 1)
        BY <2>0, <4>1
      <4> QED BY <1>4, <3>1, <3>4, <4>2
    <3> QED BY <1>4, <3>1, <3>2, <3>3, <3>4
  <2>2. CASE cursor[k - 1] <= at
    <3>1. cursor[k] = NextTriggerTime(t, cursor[k - 1])
      BY <1>0, <2>2
    <3>2. cursor[k - 1] \in 0..MaxTime
      BY <2>0, <2>2, ConstantFacts
    <3>3. cursor[k] \in Nat /\ cursor[k - 1] < cursor[k] /\ Upcoming(t, cursor[k])
      BY <2>0, <3>1, <3>2, CronAssumption DEF Time, Upcoming
    <3>4. first <= cursor[k - 1]
      BY <1>4
    <3>5. first < cursor[k]
      BY <1>1, <2>0, <3>3, <3>4
    <3>6. ASSUME NEW s \in Slots(t), first <= s, s < cursor[k]
          PROVE  s <= at /\ \E j \in 0..(k - 1) : cursor[j] = s
      <4>1. s <= cursor[k - 1]
        BY <1>2, <2>0, <3>1, <3>2, <3>3, <3>6, NoSlotBetween
      <4>2. CASE s = cursor[k - 1]
        BY <2>0, <2>2, <4>2
      <4>3. CASE s < cursor[k - 1]
        <5>1. s <= at /\ \E j \in 0..(k - 1 - 1) : cursor[j] = s
          BY <1>4, <3>6, <4>3
        <5> QED BY <2>0, <5>1
      <4> QED BY <1>2, <2>0, <4>1, <4>2, <4>3
    <3>7. ASSUME NEW j \in 0..(k - 1), cursor[j] <= at PROVE cursor[j] < cursor[k]
      <4>1. CASE j = k - 1
        BY <3>3, <4>1
      <4>2. CASE j # k - 1
        <5>1. j \in 0..(k - 1 - 1) /\ j \in 0..limit
          BY <1>1, <2>0, <4>2
        <5>2. cursor[j] < cursor[k - 1] /\ cursor[j] \in Nat
          BY <1>0, <1>4, <3>7, <5>1
        <5> QED BY <2>0, <3>3, <5>2
      <4> QED BY <4>1, <4>2
    <3> QED BY <1>1, <2>0, <3>3, <3>5, <3>6, <3>7
  <2> QED BY <2>1, <2>2
<1>5. ASSUME ~P(n) PROVE FALSE
  <2> DEFINE Bad == {k \in 0..limit : ~P(k)}
  <2>1. n \in Bad /\ Bad \in SUBSET Nat /\ Bad \in SUBSET (0..limit)
    BY <1>1, <1>5 DEF limit
  <2>2. PICK k \in Bad : \A j \in Bad : k <= j
    <3> HIDE DEF Bad
    <3> QED BY <2>1, LeastNatural
  <2> HIDE DEF P
  <2>3. k # 0 /\ ~P(k) /\ k \in 0..limit
    BY <1>3, <2>2
  <2>4. k \in 1..limit /\ k - 1 \in 0..limit
    BY <1>1, <2>3
  <2>5. k - 1 \notin Bad
    <3> HIDE DEF Bad
    <3> QED BY <1>1, <2>2, <2>4
  <2>6. P(k - 1)
    BY <2>4, <2>5
  <2> QED BY <1>4, <2>3, <2>4, <2>6
<1> QED BY <1>5 DEF cursor, first

LEMMA TimerFacts ==
    ASSUME TypeOK, NEW t \in Timers
    PROVE  /\ timers[t] \in Timer
           /\ timers[t].next_fire_at \in Nat \cup {Null}
           /\ timers[t].policy \in Policies
           /\ timers[t].max_catch_up \in Nat \ {0}
BY DEF TypeOK, Timer, Time

\* What resolveTimer makes of a due timer: the slots it fires are slots of the
\* timer that are due; the next slot lies ahead of these and of the one it was
\* at; and a slot between that does not fire is due, the timer is overdue, and
\* its policy is one that gives slots up.
LEMMA ResolveFacts ==
    ASSUME TypeOK, NEW t \in Timers, NEW at \in 0..MaxTime,
           Upcoming(t, timers[t].next_fire_at), timers[t].next_fire_at <= at
    PROVE  LET from == timers[t].next_fire_at
               r    == Resolve(t, at)
           IN  /\ Upcoming(t, r.next) /\ from < r.next
               /\ \A s \in r.slots :
                    s \in Slots(t) /\ from <= s /\ s <= at /\ s < r.next
               /\ \A s \in Slots(t) : from <= s /\ s < r.next /\ s \notin r.slots =>
                    /\ s <= at /\ Overdue(t, at)
                    /\ timers[t].policy \in {"SKIP", "FIRE_ONCE"}
                    /\ timers[t].policy = "FIRE_ONCE" => s # from
<1> DEFINE from   == timers[t].next_fire_at
           limit  == timers[t].max_catch_up
           cursor == CatchUpCursor(t, at)
           r      == Resolve(t, at)
<1>0. /\ from \in Nat /\ limit \in Nat \ {0} /\ timers[t].policy \in Policies
      /\ at \in Nat /\ MaxTime \in Nat /\ from <= MaxTime /\ from \in 0..MaxTime
      /\ from \in Slots(t)
  BY TimerFacts, UpcomingFacts, ConstantFacts
<1>1. \A s \in Slots(t) : s \in Nat
  BY ConstantFacts DEF Slots
<1>2. ASSUME NEW x \in 0..MaxTime
      PROVE  /\ Upcoming(t, NextTriggerTime(t, x)) /\ NextTriggerTime(t, x) \in Nat
             /\ x < NextTriggerTime(t, x)
             /\ \A s \in Slots(t) : s < NextTriggerTime(t, x) => s <= x
  <2>1. /\ Upcoming(t, NextTriggerTime(t, x)) /\ NextTriggerTime(t, x) \in Nat
        /\ x < NextTriggerTime(t, x) /\ x \in Nat
    BY CronAssumption, ConstantFacts DEF Upcoming, Time
  <2> QED BY <1>1, <2>1, NoSlotBetween
<1>3. CASE timers[t].policy = "CATCH_UP"
  <2>1. r = [slots |-> {cursor[n] : n \in 0..(limit - 1)} \cap 0..at,
             next  |-> cursor[limit]]
    BY <1>3 DEF Resolve
  <2>2. /\ r.slots = {cursor[n] : n \in 0..(limit - 1)} \cap 0..at
        /\ r.next = cursor[limit]
    BY <2>1
  <2>3. /\ Upcoming(t, cursor[limit]) /\ from < cursor[limit]
        /\ \A s \in Slots(t) : from <= s /\ s < cursor[limit] =>
             s <= at /\ \E k \in 0..(limit - 1) : cursor[k] = s
        /\ \A k \in 0..(limit - 1) : cursor[k] <= at => cursor[k] < cursor[limit]
    BY <1>0, CursorFacts
  <2>4. \A n \in 0..limit :
          Upcoming(t, cursor[n]) /\ from <= cursor[n] /\ cursor[n] \in Nat
    BY <1>0, CursorFacts
  <2> HIDE DEF r, cursor
  <2>5. ASSUME NEW s \in r.slots
        PROVE  s \in Slots(t) /\ from <= s /\ s <= at /\ s < r.next
    <3>1. PICK n \in 0..(limit - 1) : s = cursor[n]
      BY <2>2
    <3>2. n \in 0..limit
      BY <1>0
    <3>3. s \in Nat /\ s <= at /\ from <= s /\ Upcoming(t, s) /\ s <= MaxTime
      BY <1>0, <2>2, <2>4, <3>1, <3>2
    <3>4. s < r.next
      BY <2>2, <2>3, <3>1, <3>3
    <3> QED BY <3>3, <3>4, UpcomingFacts
  <2>6. ASSUME NEW s \in Slots(t), from <= s, s < r.next PROVE s \in r.slots
    <3>1. s <= at /\ \E k \in 0..(limit - 1) : cursor[k] = s
      BY <2>2, <2>3, <2>6
    <3> QED BY <1>0, <1>1, <2>2, <3>1
  <2> QED BY <2>2, <2>3, <2>5, <2>6 DEF r
<1>4. CASE timers[t].policy # "CATCH_UP" /\ ~Overdue(t, at)
  <2>1. r = [slots |-> {from}, next |-> NextTriggerTime(t, from)]
    BY <1>4 DEF Resolve
  <2>2. r.slots = {from} /\ r.next = NextTriggerTime(t, from)
    BY <2>1
  <2> HIDE DEF r, from
  <2>3. ASSUME NEW s \in Slots(t), from <= s, s < r.next PROVE s \in r.slots
    <3>1. s <= from
      BY <1>0, <1>2, <2>2, <2>3
    <3>2. s \in Nat /\ from \in Nat
      BY <1>0, <1>1
    <3>3. s = from
      BY <2>3, <3>1, <3>2
    <3> QED BY <2>2, <3>3
  <2> QED BY <1>0, <1>2, <2>2, <2>3 DEF r, from
<1>5. CASE timers[t].policy = "SKIP" /\ Overdue(t, at)
  <2>1. r = [slots |-> {}, next |-> NextTriggerTime(t, at)]
    BY <1>5 DEF Resolve
  <2>2. r.slots = {} /\ r.next = NextTriggerTime(t, at)
    BY <2>1
  <2> HIDE DEF r, from
  <2>3. from < r.next
    BY <1>0, <1>2, <2>2 DEF from
  <2> QED BY <1>2, <1>5, <2>2, <2>3 DEF r, from
<1>6. CASE timers[t].policy = "FIRE_ONCE" /\ Overdue(t, at)
  <2>1. r = [slots |-> {from}, next |-> NextTriggerTime(t, at)]
    BY <1>6 DEF Resolve
  <2>2. r.slots = {from} /\ r.next = NextTriggerTime(t, at)
    BY <2>1
  <2> HIDE DEF r, from
  <2>3. from < r.next
    BY <1>0, <1>2, <2>2 DEF from
  <2> QED BY <1>0, <1>2, <1>6, <2>2, <2>3 DEF r, from
<1> QED BY <1>0, <1>3, <1>4, <1>5, <1>6 DEF Policies
-----------------------------------------------------------------------------
(* The steps *)

LEMMA InitInv == Init => IInv
<1> SUFFICES ASSUME Init PROVE IInv
  OBVIOUS
<1>1. TypeOK
  BY ConstantFacts DEF Init, TypeOK, Timer, TimerStatus, Policies
<1>2. NextIsSlot /\ ScansInPast /\ ActiveHasNext
  BY DEF Init, NextIsSlot, ScansInPast, ActiveHasNext
<1>3. FiredInPast
  BY DEF Init, FiredInPast
<1> QED BY <1>1, <1>2, <1>3 DEF IInv

LEMMA RequestFacts ==
    ASSUME TypeOK, NEW c \in Clients, requests[c] # Null
    PROVE  /\ requests[c].timer \in Timers /\ requests[c].op \in {"activate", "deactivate"}
           /\ requests[c].next \in Nat \cup {Null}
BY DEF TypeOK, Pending, Time

\* Timers change, one by one, into timers that are sound; and nothing fires.
LEMMA TimersStep ==
    ASSUME IInv, UNCHANGED <<now, executions, scans>>,
           requests' \in [Clients -> Pending \cup {Null}],
           \A c \in Clients : requests'[c] = requests[c] \/ requests'[c] = Null,
           NEW t \in Timers, NEW timer \in Timer,
           timer.next_fire_at # Null => Upcoming(t, timer.next_fire_at),
           timer.status = "ACTIVE" <=> timer.next_fire_at # Null,
           timers' = [timers EXCEPT ![t] = timer]
    PROVE  IInv'
<1>0. TypeOK
  BY DEF IInv
<1>1. timers'[t] = timer /\ \A u \in Timers \ {t} : timers'[u] = timers[u]
  BY <1>0 DEF TypeOK
<1>2. TypeOK'
  BY <1>0 DEF TypeOK
<1>3. NextIsSlot'
  <2>1. ASSUME NEW u \in Timers, timers'[u].next_fire_at # Null
        PROVE  Upcoming(u, timers'[u].next_fire_at)
    BY <1>1, <2>1 DEF IInv, NextIsSlot
  <2>2. ASSUME NEW c \in Clients, requests'[c] # Null, requests'[c].op = "activate"
        PROVE  Upcoming(requests'[c].timer, requests'[c].next)
    BY <2>2 DEF IInv, NextIsSlot
  <2> QED BY <2>1, <2>2 DEF NextIsSlot
<1>4. ScansInPast' /\ FiredInPast'
  BY DEF IInv, ScansInPast, FiredInPast
<1>5. ActiveHasNext'
  BY <1>1 DEF IInv, ActiveHasNext
<1> QED BY <1>2, <1>3, <1>4, <1>5 DEF IInv

LEMMA CreateInv ==
    ASSUME IInv, NEW t \in Timers, NEW request \in Requests, Create(t, request)
    PROVE  IInv'
<1>1. request.policy \in Policies \cup {""} /\ request.max_catch_up \in Nat
  BY SchedulerConstants DEF Request
<1>2. PICK policy \in Policies :
         policy = IF request.policy = "" THEN "FIRE_ONCE" ELSE request.policy
  BY <1>1 DEF Policies
<1>3. PICK limit \in Nat \ {0} :
         limit = IF request.max_catch_up < 1 THEN DefaultMaxCatchUp
                 ELSE request.max_catch_up
  <2> DEFINE n == IF request.max_catch_up < 1 THEN DefaultMaxCatchUp
                  ELSE request.max_catch_up
  <2>1. n \in Nat \ {0}
    <3> DEFINE asked == request.max_catch_up
    <3>1. asked \in Nat
      BY <1>1
    <3> HIDE DEF asked
    <3>2. (IF asked < 1 THEN DefaultMaxCatchUp ELSE asked) \in Nat \ {0}
      BY <3>1, ConstantFacts
    <3> QED BY <3>2 DEF asked
  <2> HIDE DEF n
  <2> QED BY <2>1 DEF n
<1> DEFINE timer == [status |-> "INACTIVE", next_fire_at |-> Null,
                     policy |-> policy, max_catch_up |-> limit]
<1>4. timer \in Timer /\ timer.status = "INACTIVE" /\ timer.next_fire_at = Null
  BY DEF Timer, TimerStatus
<1>5. timers' = [timers EXCEPT ![t] = timer] /\ UNCHANGED <<now, executions, scans, requests>>
  BY <1>2, <1>3 DEF Create
<1> HIDE DEF timer
<1> QED BY <1>4, <1>5, TimersStep DEF IInv, TypeOK

\* Nothing is written: a request begins or fails, a batch begins or fails, or
\* time passes.
LEMMA QuietStep ==
    ASSUME IInv, UNCHANGED <<timers, executions>>,
           now' \in 0..MaxTime, now <= now',
           \A r \in Schedulers : scans'[r] \in {scans[r], Null, now},
           scans' \in [Schedulers -> Time \cup {Null}],
           requests' \in [Clients -> Pending \cup {Null}],
           \A c \in Clients :
              requests'[c] # Null /\ requests'[c].op = "activate"
              => requests'[c] = requests[c]
                 \/ Upcoming(requests'[c].timer, requests'[c].next)
    PROVE  IInv'
<1>0. TypeOK /\ now \in Nat /\ now' \in Nat
  BY ConstantFacts DEF IInv, TypeOK
<1>1. TypeOK'
  BY <1>0 DEF TypeOK
<1>2. NextIsSlot'
  <2>1. ASSUME NEW c \in Clients, requests'[c] # Null, requests'[c].op = "activate"
        PROVE  Upcoming(requests'[c].timer, requests'[c].next)
    BY <2>1 DEF IInv, NextIsSlot
  <2>2. ASSUME NEW t \in Timers, timers'[t].next_fire_at # Null
        PROVE  Upcoming(t, timers'[t].next_fire_at)
    BY <2>2 DEF IInv, NextIsSlot
  <2> QED BY <2>1, <2>2 DEF NextIsSlot
<1>3. ScansInPast'
  <2> SUFFICES ASSUME NEW r \in Schedulers, scans'[r] # Null
               PROVE  scans'[r] <= now'
    BY DEF ScansInPast
  <2>1. scans'[r] <= now /\ scans'[r] \in Nat
    BY <1>0 DEF IInv, ScansInPast, Time
  <2> QED BY <1>0, <2>1
<1>4. ActiveHasNext' /\ FiredInPast'
  BY <1>0, ConstantFacts DEF IInv, ActiveHasNext, FiredInPast
<1> QED BY <1>1, <1>2, <1>3, <1>4 DEF IInv

LEMMA TimeAndRequestsInv ==
    ASSUME IInv,
           \/ Tick
           \/ \E c \in Clients :
                \/ RequestError(c)
                \/ \E t \in Timers : ActivateRead(c, t) \/ DeactivateRead(c, t)
           \/ \E r \in Schedulers : ScanStart(r) \/ ScheduleError(r)
    PROVE  IInv'
<1>0. /\ TypeOK /\ now \in Nat /\ now \in 0..MaxTime
      /\ scans \in [Schedulers -> Time \cup {Null}]
      /\ requests \in [Clients -> Pending \cup {Null}]
  BY ConstantFacts DEF IInv, TypeOK
<1>1. CASE Tick
  BY <1>0, <1>1, ConstantFacts, QuietStep DEF Tick
<1>2. ASSUME NEW c \in Clients, RequestError(c) PROVE IInv'
  BY <1>0, <1>2, QuietStep DEF RequestError
<1>3. ASSUME NEW c \in Clients, NEW t \in Timers, ActivateRead(c, t) PROVE IInv'
  <2> DEFINE request == [op |-> "activate", timer |-> t, next |-> NextTriggerTime(t, now)]
  <2>1. request \in Pending /\ Upcoming(t, NextTriggerTime(t, now))
    BY <1>0, CronAssumption DEF Pending, Upcoming
  <2>2. request.op = "activate" /\ Upcoming(request.timer, request.next)
    BY <2>1
  <2>3. /\ requests' = [requests EXCEPT ![c] = request]
        /\ UNCHANGED <<now, timers, executions, scans>>
    BY <1>3 DEF ActivateRead
  <2> HIDE DEF request
  <2> QED BY <1>0, <2>1, <2>2, <2>3, QuietStep
<1>4. ASSUME NEW c \in Clients, NEW t \in Timers, DeactivateRead(c, t) PROVE IInv'
  <2> DEFINE request == [op |-> "deactivate", timer |-> t, next |-> Null]
  <2>1. request \in Pending /\ request.op = "deactivate"
    BY DEF Pending
  <2>2. /\ requests' = [requests EXCEPT ![c] = request]
        /\ UNCHANGED <<now, timers, executions, scans>>
    BY <1>4 DEF DeactivateRead
  <2> HIDE DEF request
  <2> QED BY <1>0, <2>1, <2>2, QuietStep
<1>5. ASSUME NEW r \in Schedulers, ScanStart(r) PROVE IInv'
  BY <1>0, <1>5, QuietStep DEF ScanStart, Time
<1>6. ASSUME NEW r \in Schedulers, ScheduleError(r) PROVE IInv'
  BY <1>0, <1>6, QuietStep DEF ScheduleError
<1> QED BY <1>1, <1>2, <1>3, <1>4, <1>5, <1>6

LEMMA DeleteInv ==
    ASSUME IInv, NEW t \in Timers, Delete(t)
    PROVE  IInv'
<1> DEFINE timer == [timers[t] EXCEPT !.status = "DELETED", !.next_fire_at = Null]
<1>1. TypeOK /\ timers[t] \in Timer
  BY TimerFacts DEF IInv
<1>2. timer \in Timer /\ timer.status = "DELETED" /\ timer.next_fire_at = Null
  BY <1>1 DEF Timer, TimerStatus
<1>3. timers' = [timers EXCEPT ![t] = timer] /\ UNCHANGED <<now, executions, scans, requests>>
  BY DEF Delete
<1> HIDE DEF timer
<1> QED BY <1>1, <1>2, <1>3, TimersStep DEF TypeOK

LEMMA UpdateInv ==
    ASSUME IInv, NEW c \in Clients, UpdateScheduleState(c)
    PROVE  IInv'
<1>0. /\ TypeOK /\ requests[c] # Null
      /\ requests' = [requests EXCEPT ![c] = Null]
      /\ UNCHANGED <<now, executions, scans>>
  BY DEF IInv, UpdateScheduleState
<1>1. /\ requests' \in [Clients -> Pending \cup {Null}]
      /\ \A d \in Clients : requests'[d] = requests[d] \/ requests'[d] = Null
  BY <1>0 DEF TypeOK
<1>2. PICK t \in Timers : t = requests[c].timer
  BY <1>0, RequestFacts
<1>3. timers[t] \in Timer
  BY <1>0, TimerFacts
<1>4. ASSUME NEW next \in Time \cup {Null}, NEW to \in {"ACTIVE", "INACTIVE"},
             to = "ACTIVE" <=> next # Null, next # Null => Upcoming(t, next),
             timers' = [timers EXCEPT ![t].status = to, ![t].next_fire_at = next]
      PROVE  IInv'
  <2> DEFINE timer == [timers[t] EXCEPT !.status = to, !.next_fire_at = next]
  <2>1. timer \in Timer /\ timer.status = to /\ timer.next_fire_at = next
    BY <1>3 DEF Timer, TimerStatus
  <2>2. timers' = [timers EXCEPT ![t] = timer]
    BY <1>4
  <2> HIDE DEF timer
  <2> QED BY <1>0, <1>1, <1>4, <2>1, <2>2, TimersStep
<1>5. CASE timers' = timers
  <2>1. UNCHANGED <<timers, executions>> /\ now' \in 0..MaxTime /\ now <= now'
    BY <1>0, <1>5, ConstantFacts DEF TypeOK
  <2>2. scans' \in [Schedulers -> Time \cup {Null}]
    BY <1>0 DEF TypeOK
  <2> QED BY <1>0, <1>1, <2>1, <2>2, QuietStep
<1>6. CASE requests[c].op = "activate"
  <2>1. Upcoming(t, requests[c].next) /\ requests[c].next # Null
        /\ requests[c].next \in Time \cup {Null}
    BY <1>0, <1>2, <1>6, RequestFacts, UpcomingFacts DEF IInv, NextIsSlot, Time
  <2> QED BY <1>2, <1>4, <1>5, <1>6, <2>1 DEF UpdateScheduleState, ScheduleState
<1>7. CASE requests[c].op # "activate"
  BY <1>2, <1>4, <1>5, <1>7 DEF UpdateScheduleState, ScheduleState
<1> QED BY <1>6, <1>7

\* A step that fires a batch of timers that were due at a time.
Fired(at, batch) ==
    /\ at <= now
    /\ \A t \in batch :
         /\ timers[t].status = "ACTIVE"
         /\ Upcoming(t, timers[t].next_fire_at)
         /\ timers[t].next_fire_at <= at
    /\ executions' = [t \in Timers |-> [s \in 0..MaxTime |->
                        IF t \in batch /\ s \in Resolve(t, at).slots
                        THEN Inserted(t, s) ELSE executions[t][s]]]
    /\ timers' = [t \in Timers |->
                    IF t \in batch
                    THEN [timers[t] EXCEPT !.next_fire_at = Resolve(t, at).next]
                    ELSE timers[t]]

\* A batch are timers that were due at a time not later than now.
LEMMA BatchFacts ==
    ASSUME IInv, NEW r \in Schedulers, NEW locked \in SUBSET Timers,
           ScheduleDueBatch(r, locked)
    PROVE  \E at \in 0..MaxTime : \E batch \in SUBSET Timers :
             /\ Fired(at, batch)
             /\ scans' = [scans EXCEPT ![r] = Null]
             /\ UNCHANGED <<now, requests>>
<1> DEFINE at    == scans[r]
           batch == Batch({t \in Timers \ locked : Due(t, at)})
<1>1. at \in 0..MaxTime /\ at <= now
  <2>1. at \in Nat /\ at <= now /\ now \in Nat /\ now <= MaxTime
    BY ConstantFacts DEF ScheduleDueBatch, IInv, TypeOK, ScansInPast, Time
  <2> QED BY <2>1, ConstantFacts
<1>2. batch \in SUBSET Timers /\ \A t \in batch : Due(t, at)
  BY DEF Batch
<1> HIDE DEF batch
<1>3. \A t \in batch :
         /\ timers[t].status = "ACTIVE"
         /\ Upcoming(t, timers[t].next_fire_at)
         /\ timers[t].next_fire_at <= at
  BY <1>2 DEF Due, IInv, NextIsSlot
<1>4. /\ executions' = [t \in Timers |-> [s \in 0..MaxTime |->
                          IF t \in batch /\ s \in Resolve(t, at).slots
                          THEN Inserted(t, s) ELSE executions[t][s]]]
      /\ timers' = [t \in Timers |->
                      IF t \in batch
                      THEN [timers[t] EXCEPT !.next_fire_at = Resolve(t, at).next]
                      ELSE timers[t]]
      /\ scans' = [scans EXCEPT ![r] = Null]
      /\ UNCHANGED <<now, requests>>
  BY DEF ScheduleDueBatch, batch
<1> HIDE DEF at
<1> QED BY <1>1, <1>2, <1>3, <1>4 DEF Fired

\* What a batch does to a timer and to its slots.
LEMMA BatchEffect ==
    ASSUME IInv, NEW at \in 0..MaxTime, NEW batch \in SUBSET Timers,
           Fired(at, batch),
           NEW t \in Timers
    PROVE  /\ timers'[t] \in Timer /\ timers'[t].status = timers[t].status
           /\ timers'[t].policy = timers[t].policy
           /\ t \in batch => /\ timers'[t].next_fire_at = Resolve(t, at).next
                             /\ Upcoming(t, timers'[t].next_fire_at)
           /\ t \notin batch => timers'[t] = timers[t]
           /\ \A s \in 0..MaxTime :
                /\ executions'[t][s] \in Nat
                /\ t \in batch /\ s \in Resolve(t, at).slots => executions'[t][s] > 0
                /\ ~(t \in batch /\ s \in Resolve(t, at).slots) =>
                     executions'[t][s] = executions[t][s]
<1>1. TypeOK /\ timers[t] \in Timer
  BY TimerFacts DEF IInv
<1>2. ASSUME t \in batch
      PROVE  /\ timers'[t] \in Timer /\ timers'[t].status = timers[t].status
             /\ timers'[t].policy = timers[t].policy
             /\ timers'[t].next_fire_at = Resolve(t, at).next
             /\ Upcoming(t, timers'[t].next_fire_at)
  <2>1. PICK next \in Nat : next = Resolve(t, at).next /\ Upcoming(t, next)
    BY <1>1, <1>2, ResolveFacts, UpcomingFacts DEF Fired
  <2>2. timers'[t] = [timers[t] EXCEPT !.next_fire_at = next]
    BY <1>2, <2>1 DEF Fired
  <2>3. /\ timers'[t] \in Timer /\ timers'[t].status = timers[t].status
        /\ timers'[t].policy = timers[t].policy /\ timers'[t].next_fire_at = next
    BY <1>1, <2>2 DEF Timer, Time
  <2> QED BY <2>1, <2>3
<1>3. t \notin batch => timers'[t] = timers[t]
  BY DEF Fired
<1>4. ASSUME NEW s \in 0..MaxTime
      PROVE  /\ executions'[t][s] \in Nat
             /\ t \in batch /\ s \in Resolve(t, at).slots => executions'[t][s] > 0
             /\ ~(t \in batch /\ s \in Resolve(t, at).slots) =>
                  executions'[t][s] = executions[t][s]
  <2>1. executions[t][s] \in Nat
    BY <1>1 DEF TypeOK
  <2>2. executions'[t][s] = IF t \in batch /\ s \in Resolve(t, at).slots
                            THEN Inserted(t, s) ELSE executions[t][s]
    BY DEF Fired
  <2>3. Inserted(t, s) \in Nat /\ Inserted(t, s) > 0
    BY <2>1 DEF Inserted
  <2> QED BY <2>1, <2>2, <2>3
<1> QED BY <1>1, <1>2, <1>3, <1>4

LEMMA BatchInv ==
    ASSUME IInv, NEW r \in Schedulers, NEW locked \in SUBSET Timers,
           ScheduleDueBatch(r, locked)
    PROVE  IInv'
<1>0. TypeOK
  BY DEF IInv
<1>1. PICK at \in 0..MaxTime, batch \in SUBSET Timers :
         /\ Fired(at, batch)
         /\ scans' = [scans EXCEPT ![r] = Null]
         /\ UNCHANGED <<now, requests>>
  BY BatchFacts
<1>2. ASSUME NEW t \in Timers
      PROVE  /\ timers'[t] \in Timer /\ timers'[t].status = timers[t].status
             /\ t \in batch => Upcoming(t, timers'[t].next_fire_at)
             /\ t \notin batch => timers'[t] = timers[t]
  BY <1>1, BatchEffect
<1>3. TypeOK'
  <2>1. timers' \in [Timers -> Timer]
    <3>1. timers' = [t \in Timers |-> timers'[t]]
      BY <1>1 DEF Fired
    <3> QED BY <1>2, <3>1
  <2>2. executions' \in [Timers -> [0..MaxTime -> Nat]]
    <3>1. \A t \in Timers : \A s \in 0..MaxTime :
            (IF t \in batch /\ s \in Resolve(t, at).slots
             THEN Inserted(t, s) ELSE executions[t][s]) \in Nat
      BY <1>0 DEF TypeOK, Inserted
    <3> QED BY <1>1, <3>1 DEF Fired
  <2>3. scans' \in [Schedulers -> Time \cup {Null}]
    BY <1>0, <1>1 DEF TypeOK
  <2> QED BY <1>0, <1>1, <2>1, <2>2, <2>3 DEF TypeOK
<1>4. NextIsSlot'
  <2>1. ASSUME NEW t \in Timers, timers'[t].next_fire_at # Null
        PROVE  Upcoming(t, timers'[t].next_fire_at)
    BY <1>2, <2>1 DEF IInv, NextIsSlot
  <2> QED BY <1>1, <2>1 DEF IInv, NextIsSlot
<1>5. ScansInPast'
  BY <1>0, <1>1 DEF TypeOK, IInv, ScansInPast
<1>6. ActiveHasNext'
  <2> SUFFICES ASSUME NEW t \in Timers
               PROVE  timers'[t].status = "ACTIVE" <=> timers'[t].next_fire_at # Null
    BY DEF ActiveHasNext
  <2>1. CASE t \in batch
    BY <1>1, <1>2, <2>1, UpcomingFacts DEF Fired
  <2>2. CASE t \notin batch
    BY <1>2, <2>2 DEF IInv, ActiveHasNext
  <2> QED BY <2>1, <2>2
<1>7. FiredInPast'
  <2> SUFFICES ASSUME NEW t \in Timers, NEW s \in 0..MaxTime, executions'[t][s] > 0
               PROVE  s <= now'
    BY DEF FiredInPast
  <2>1. CASE t \in batch /\ s \in Resolve(t, at).slots
    <3>1. s <= at /\ at <= now /\ s \in Nat /\ at \in Nat /\ now \in Nat
      BY <1>0, <1>1, <2>1, ResolveFacts, ConstantFacts DEF Fired, TypeOK
    <3> QED BY <1>1, <3>1
  <2>2. CASE ~(t \in batch /\ s \in Resolve(t, at).slots)
    <3>1. executions'[t][s] = executions[t][s]
      BY <1>1, <2>2, BatchEffect
    <3> QED BY <1>1, <3>1 DEF IInv, FiredInPast
  <2> QED BY <2>1, <2>2
<1> QED BY <1>3, <1>4, <1>5, <1>6, <1>7 DEF IInv

LEMMA NextInv == IInv /\ [Next]_vars => IInv'
<1>1. IInv /\ UNCHANGED vars => IInv'
  BY DEF vars, IInv, TypeOK, NextIsSlot, ScansInPast, ActiveHasNext, FiredInPast
<1>2. IInv /\ ApiStep => IInv'
  BY CreateInv, UpdateInv, DeleteInv, TimeAndRequestsInv DEF ApiStep
<1>3. ASSUME IInv, NEW r \in Schedulers, ScheduleStep(r) PROVE IInv'
  BY <1>3, BatchInv, TimeAndRequestsInv DEF ScheduleStep
<1> QED BY <1>1, <1>2, <1>3, TimeAndRequestsInv DEF Next

LEMMA Invariance == Spec => []IInv
BY InitInv, NextInv, PTL DEF Spec
-----------------------------------------------------------------------------
(* Theorems *)

\* The rows of timers, the executions of every slot, the scheduler's scans and
\* the requests are of their types: the catch-up loop too leaves a time behind.
THEOREM TypeCorrect == Spec => []TypeOK
BY Invariance, PTL DEF IInv

\* However activations, deactivations, deletions and batches interleave, an
\* active timer always has a next slot, so that the scheduler will find it.
THEOREM ActiveIsScheduled == Spec => []ActiveHasNext
BY Invariance, PTL DEF IInv

\* A step that is not a batch fires nothing, and changes the slot of an active
\* timer only by making it active.
LEMMA NotABatch ==
    ASSUME IInv, [Next]_vars,
           ~\E r \in Schedulers, locked \in SUBSET Timers : ScheduleDueBatch(r, locked)
    PROVE  /\ executions' = executions
           /\ \A t \in Timers :
                /\ timers[t].status = "DELETED" => timers'[t] = timers[t]
                /\ timers'[t].status = "ACTIVE" =>
                     timers'[t] = timers[t] \/ timers[t].status = "INACTIVE"
<1>0. TypeOK
  BY DEF IInv
<1>1. CASE UNCHANGED <<timers, executions>>
  BY <1>1
<1>2. ASSUME NEW t \in Timers, NEW request \in Requests, Create(t, request)
      PROVE  /\ executions' = executions /\ timers[t].status = "ABSENT"
             /\ timers'[t].status = "INACTIVE"
             /\ \A u \in Timers \ {t} : timers'[u] = timers[u]
  BY <1>0, <1>2 DEF Create, TypeOK
<1>3. ASSUME NEW t \in Timers, Delete(t)
      PROVE  /\ executions' = executions /\ timers[t].status # "DELETED"
             /\ timers'[t].status = "DELETED"
             /\ \A u \in Timers \ {t} : timers'[u] = timers[u]
  BY <1>0, <1>3, TimerFacts DEF Delete, Visible, TypeOK, Timer
<1>4. ASSUME NEW c \in Clients, UpdateScheduleState(c)
      PROVE  /\ executions' = executions
             /\ \A u \in Timers :
                  \/ timers'[u] = timers[u]
                  \/ timers[u].status = "INACTIVE"
                  \/ timers[u].status = "ACTIVE" /\ timers'[u].status = "INACTIVE"
  <2>1. PICK t \in Timers : t = requests[c].timer
    BY <1>0, <1>4, RequestFacts DEF UpdateScheduleState
  <2>2. timers[t] \in Timer
    BY <1>0, TimerFacts
  <2>3. ASSUME NEW to \in {"ACTIVE", "INACTIVE"}, NEW next,
               timers' = [timers EXCEPT ![t].status = to, ![t].next_fire_at = next]
        PROVE  /\ timers'[t].status = to
               /\ \A u \in Timers \ {t} : timers'[u] = timers[u]
    BY <1>0, <2>2, <2>3 DEF TypeOK, Timer
  <2>4. CASE requests[c].op = "activate"
    BY <1>4, <2>1, <2>3, <2>4 DEF UpdateScheduleState, ScheduleState
  <2>5. CASE requests[c].op # "activate"
    BY <1>4, <2>1, <2>3, <2>5 DEF UpdateScheduleState, ScheduleState
  <2> QED BY <2>4, <2>5
<1>5. \/ UNCHANGED <<timers, executions>>
      \/ \E t \in Timers, request \in Requests : Create(t, request)
      \/ \E t \in Timers : Delete(t)
      \/ \E c \in Clients : UpdateScheduleState(c)
  BY DEF Next, ApiStep, ScheduleStep, vars, Tick, ActivateRead, DeactivateRead,
         RequestError, ScanStart, ScheduleError
<1> QED BY <1>1, <1>2, <1>3, <1>4, <1>5

\* Only active timers fire, at slots of their schedule that are due, for any
\* cron expression and under every policy; what is deleted stays deleted.
THEOREM FiresOnlyWhatIsDue == Spec => OnlyDueSlotsFire
<1> DEFINE Fires ==
      \A t \in Timers :
         /\ \A s \in 0..MaxTime : executions'[t][s] # executions[t][s] =>
              /\ timers[t].status = "ACTIVE"
              /\ s \in Slots(t) /\ timers[t].next_fire_at <= s /\ s <= now
         /\ timers[t].status = "DELETED" => timers'[t] = timers[t]
<1>1. IInv /\ [Next]_vars => Fires
  <2> SUFFICES ASSUME IInv, [Next]_vars PROVE Fires
    OBVIOUS
  <2>1. CASE ~\E r \in Schedulers, locked \in SUBSET Timers : ScheduleDueBatch(r, locked)
    BY <2>1, NotABatch
  <2>2. ASSUME NEW r \in Schedulers, NEW locked \in SUBSET Timers,
               ScheduleDueBatch(r, locked)
        PROVE  Fires
    <3>1. PICK at \in 0..MaxTime, batch \in SUBSET Timers : Fired(at, batch)
      BY <2>2, BatchFacts
    <3>2. ASSUME NEW t \in Timers, NEW s \in 0..MaxTime,
                 executions'[t][s] # executions[t][s]
          PROVE  /\ timers[t].status = "ACTIVE"
                 /\ s \in Slots(t) /\ timers[t].next_fire_at <= s /\ s <= now
      <4>1. t \in batch /\ s \in Resolve(t, at).slots
        BY <3>1, <3>2 DEF Fired
      <4>2. s \in Slots(t) /\ timers[t].next_fire_at <= s /\ s <= at
        BY <3>1, <4>1, ResolveFacts DEF IInv, Fired
      <4>3. s <= now
        BY <3>1, <4>2, ConstantFacts DEF IInv, TypeOK, Fired, Slots
      <4> QED BY <3>1, <4>1, <4>2, <4>3 DEF Fired
    <3>3. ASSUME NEW t \in Timers, timers[t].status = "DELETED"
          PROVE  timers'[t] = timers[t]
      BY <3>1, <3>3 DEF Fired
    <3> QED BY <3>2, <3>3
  <2> QED BY <2>1, <2>2
<1>2. IInv /\ [Next]_vars => [Fires]_vars
  BY <1>1
<1> HIDE DEF Fires
<1>3. Spec => [][Fires]_vars
  BY <1>2, Invariance, PTL DEF Spec
<1> QED BY <1>3 DEF OnlyDueSlotsFire, Fires

\* A timer goes back to a slot that has fired by a late activation alone: not by
\* a batch, whatever its policy, its limit and the age of its clock.
THEOREM OnlyActivationGoesBack == Spec => FiredSlotsStayBehind
<1> DEFINE Behind ==
      \A t \in Timers : ~FiredAhead(t) /\ FiredAhead(t)' =>
        /\ timers[t].status = "INACTIVE" /\ timers'[t].status = "ACTIVE"
        /\ timers'[t].next_fire_at <= now
<1>1. IInv /\ [Next]_vars => Behind
  <2> SUFFICES ASSUME IInv, [Next]_vars,
                      NEW t \in Timers, ~FiredAhead(t), FiredAhead(t)'
               PROVE  /\ timers[t].status = "INACTIVE" /\ timers'[t].status = "ACTIVE"
                      /\ timers'[t].next_fire_at <= now
    OBVIOUS
  <2>1. PICK s \in 0..MaxTime : s >= timers'[t].next_fire_at /\ executions'[t][s] > 0
    BY DEF FiredAhead
  <2>2. /\ timers'[t].next_fire_at \in Nat /\ timers'[t].status = "ACTIVE"
        /\ timers[t].next_fire_at \in Nat \cup {Null}
        /\ s \in Nat /\ now \in Nat
    <3>1. IInv'
      BY NextInv
    <3>2. timers[t] \in Timer /\ timers'[t] \in Timer
      BY <3>1 DEF IInv, TypeOK
    <3> QED BY <3>1, <3>2, ConstantFacts
            DEF IInv, TypeOK, ActiveHasNext, FiredAhead, Timer, Time
  <2>3. ASSUME NEW r \in Schedulers, NEW locked \in SUBSET Timers,
               ScheduleDueBatch(r, locked)
        PROVE  FALSE
    <3>1. PICK at \in 0..MaxTime, batch \in SUBSET Timers : Fired(at, batch)
      BY <2>3, BatchFacts
    <3>2. CASE t \notin batch
      <4>1. timers'[t] = timers[t] /\ executions'[t][s] = executions[t][s]
        BY <3>1, <3>2, BatchEffect
      <4> QED BY <2>1, <4>1 DEF FiredAhead
    <3>3. CASE t \in batch
      <4>1. timers[t].next_fire_at \in Nat
        BY <3>1, <3>3, UpcomingFacts DEF Fired
      <4>2. /\ timers[t].next_fire_at < timers'[t].next_fire_at
            /\ \A x \in Resolve(t, at).slots : x < timers'[t].next_fire_at
        BY <3>1, <3>3, BatchEffect, ResolveFacts DEF IInv, Fired
      <4>3. s \notin Resolve(t, at).slots
        BY <2>1, <2>2, <4>2
      <4>4. executions'[t][s] = executions[t][s]
        BY <3>1, <4>3, BatchEffect
      <4>5. s >= timers[t].next_fire_at /\ timers[t].next_fire_at # Null
        BY <2>1, <2>2, <4>1, <4>2, ConstantFacts
      <4> QED BY <2>1, <4>4, <4>5 DEF FiredAhead
    <3> QED BY <3>2, <3>3
  <2>4. CASE ~\E r \in Schedulers, locked \in SUBSET Timers : ScheduleDueBatch(r, locked)
    <3>1. executions' = executions
      BY <2>4, NotABatch
    <3>2. timers'[t] # timers[t]
      BY <2>1, <3>1 DEF FiredAhead
    <3>3. timers[t].status = "INACTIVE"
      BY <2>2, <2>4, <3>2, NotABatch
    <3>4. s <= now
      BY <2>1, <3>1 DEF IInv, FiredInPast
    <3> QED BY <2>1, <2>2, <3>3, <3>4
  <2> QED BY <2>3, <2>4
<1>2. IInv /\ [Next]_vars => [Behind]_vars
  BY <1>1
<1> HIDE DEF Behind
<1>3. Spec => [][Behind]_vars
  BY <1>2, Invariance, PTL DEF Spec
<1> QED BY <1>3 DEF FiredSlotsStayBehind, Behind

\* When a batch takes a timer on, it accounts for every slot left behind.
LEMMA BatchAccounts ==
    ASSUME IInv, NEW at \in 0..MaxTime, NEW batch \in SUBSET Timers,
           Fired(at, batch), NEW t \in batch
    PROVE  Accounted(t, timers[t].next_fire_at, timers'[t].next_fire_at)
<1> DEFINE from   == timers[t].next_fire_at
           to     == timers'[t].next_fire_at
           slots  == Resolve(t, at).slots
           missed == {s \in Slots(t) \cap from..(to - 1) : executions'[t][s] = 0}
<1>0. /\ TypeOK /\ t \in Timers /\ at \in Nat /\ at <= now /\ now \in Nat
      /\ Upcoming(t, from) /\ from <= at /\ from \in Nat
      /\ Grace \in Nat /\ timers[t].policy \in Policies
  BY ConstantFacts, UpcomingFacts, TimerFacts DEF IInv, Fired, TypeOK
<1>1. /\ to = Resolve(t, at).next /\ to \in Nat
      /\ \A s \in 0..MaxTime : s \in slots => executions'[t][s] > 0
  BY <1>0, BatchEffect, UpcomingFacts
<1>2. /\ from < to
      /\ \A s \in Slots(t) : from <= s /\ s < to /\ s \notin slots =>
           /\ s <= at /\ Overdue(t, at)
           /\ timers[t].policy \in {"SKIP", "FIRE_ONCE"}
           /\ timers[t].policy = "FIRE_ONCE" => s # from
  BY <1>0, <1>1, ResolveFacts
<1>3. ASSUME NEW s \in missed
      PROVE  /\ s \in Nat /\ s <= at /\ Overdue(t, at)
             /\ timers[t].policy \in {"SKIP", "FIRE_ONCE"}
             /\ timers[t].policy = "FIRE_ONCE" => s # from
  <2>1. s \in Slots(t) /\ s \in Nat /\ s \in 0..MaxTime /\ from <= s /\ s < to
    BY <1>0, <1>1, ConstantFacts DEF Slots
  <2>2. executions'[t][s] = 0
    OBVIOUS
  <2>3. s \notin slots
    BY <1>1, <2>1, <2>2
  <2> QED BY <1>2, <2>1, <2>3
<1>4. \A s \in missed : s <= now
  BY <1>0, <1>3
<1>5. missed # {} => now - from > Grace
  <2> SUFFICES ASSUME NEW s \in missed PROVE now - from > Grace
    OBVIOUS
  <2>1. at - from > Grace
    BY <1>3 DEF Overdue
  <2> QED BY <1>0, <2>1
<1>6. /\ timers[t].policy = "CATCH_UP" => missed = {}
      /\ timers[t].policy = "FIRE_ONCE" => from \notin missed
  BY <1>3
<1> HIDE DEF from, to, slots
<1>7. Accounted(t, from, to)
  <2>1. CASE timers[t].policy = "CATCH_UP"
    BY <1>2, <1>4, <1>5, <1>6, <2>1 DEF Accounted
  <2>2. CASE timers[t].policy = "FIRE_ONCE"
    BY <1>2, <1>4, <1>5, <1>6, <2>2 DEF Accounted
  <2>3. CASE timers[t].policy = "SKIP"
    BY <1>2, <1>4, <1>5, <2>3 DEF Accounted
  <2> QED BY <1>0, <2>1, <2>2, <2>3 DEF Policies
<1> QED BY <1>7 DEF from, to

\* The scheduler forgets no slot, for any cron expression, grace period, limit
\* and batch size, and however far behind it is.
THEOREM NothingForgotten == Spec => NoSlotIsForgotten
<1> DEFINE Accounts ==
      \A t \in Timers :
         LET from == timers[t].next_fire_at to == timers'[t].next_fire_at IN
         timers[t].status = "ACTIVE" /\ timers'[t].status = "ACTIVE" /\ to # from
         => Accounted(t, from, to)
<1>1. IInv /\ [Next]_vars => Accounts
  <2> SUFFICES ASSUME IInv, [Next]_vars, NEW t \in Timers,
                      timers[t].status = "ACTIVE", timers'[t].status = "ACTIVE",
                      timers'[t].next_fire_at # timers[t].next_fire_at
               PROVE  Accounted(t, timers[t].next_fire_at, timers'[t].next_fire_at)
    OBVIOUS
  <2>1. PICK r \in Schedulers, locked \in SUBSET Timers : ScheduleDueBatch(r, locked)
    BY NotABatch
  <2>2. PICK at \in 0..MaxTime, batch \in SUBSET Timers : Fired(at, batch)
    BY <2>1, BatchFacts
  <2>3. t \in batch
    BY <2>2 DEF Fired
  <2> QED BY <2>2, <2>3, BatchAccounts
<1>2. IInv /\ [Next]_vars => [Accounts]_vars
  BY <1>1
<1> HIDE DEF Accounts
<1>3. Spec => [][Accounts]_vars
  BY <1>2, Invariance, PTL DEF Spec
<1> QED BY <1>3 DEF NoSlotIsForgotten, Accounts
-----------------------------------------------------------------------------
(* The timer API implements the registry: TimerApi and TimerRegistry        *)

VARIABLES
    status,  \* the column status of timer_definitions, as TimerApi has it
    calls    \* per client, the request it made last

Api == INSTANCE TimerApi

\* What is known of a request on its way: the id is missing exactly for Create,
\* and only a sound Activate or Deactivate comes to its UPDATE.
ApiInv ==
    /\ Api!TypeOK
    /\ \A c \in Clients :
         /\ calls[c].pc # "none" =>
              (calls[c].op \in Api!Ops /\ (calls[c].timer = Null <=> calls[c].op = "create"))
         /\ calls[c].pc = "update" =>
              calls[c].op \in {"activate", "deactivate"} /\ calls[c].sound

\* The codes that say that all went well.
Granting == {200, 201}

\* What Create and the others answer when they have done it.
LEMMA GrantingFacts == 200 \in Granting /\ 201 \in Granting
BY DEF Granting

\* A call as its client sees it.
Seen(call) == [op |-> call.op, timer |-> call.timer, sound |-> call.sound,
               answer |-> Api!Answered(call)]

\* An answer changes the call of one client, and nothing but its code.
LEMMA Responding ==
    ASSUME ApiInv, NEW c \in Clients, calls[c].pc \in {"start", "update"},
           NEW code \in Nat \cup {Null}, NEW fault \in BOOLEAN,
           Api!Respond(c, code, fault), status' \in [Timers -> Api!Statuses]
    PROVE  /\ ApiInv'
           /\ Seen(calls[c]).answer = "open"
           /\ Api!Registry!Answer(c, IF fault THEN "fault"
                                     ELSE IF code \in Granting THEN "ok" ELSE "error")
<1>1. calls \in [Clients -> Api!Call] /\ calls[c] \in Api!Call
  BY DEF ApiInv, Api!TypeOK
<1> DEFINE new == [calls[c] EXCEPT !.pc = "answered", !.code = code, !.fault = fault]
<1>2. /\ new \in Api!Call /\ new.pc = "answered" /\ new.code = code
      /\ new.fault = fault /\ new.op = calls[c].op /\ new.timer = calls[c].timer
      /\ new.sound = calls[c].sound
  BY <1>1 DEF Api!Call
<1>3. calls' = [calls EXCEPT ![c] = new]
  BY <1>1 DEF Api!Respond
<1> HIDE DEF new
<1>4. calls'[c] = new /\ \A b \in Clients \ {c} : calls'[b] = calls[b]
  BY <1>1, <1>3
<1>5. calls' \in [Clients -> Api!Call]
  BY <1>1, <1>2, <1>3
<1>6. Seen(calls[c]).answer = "open"
  BY DEF Seen, Api!Answered
<1>7. Api!Registry!Answer(c, IF fault THEN "fault"
                             ELSE IF code \in Granting THEN "ok" ELSE "error")
  <2> DEFINE answer == IF fault THEN "fault"
                       ELSE IF code \in Granting THEN "ok" ELSE "error"
  <2>1. Api!Answered(new) = answer
    BY <1>2 DEF Api!Answered, Granting
  <2> HIDE DEF answer
  <2>2. Seen(new) = [Seen(calls[c]) EXCEPT !.answer = answer]
    BY <1>2, <2>1 DEF Seen
  <2>3. \A b \in Clients :
          Seen(calls'[b]) = IF b = c THEN [Seen(calls[b]) EXCEPT !.answer = answer]
                            ELSE Seen(calls[b])
    BY <1>4, <2>2
  <2>4. [b \in Clients |-> Seen(calls'[b])]
          = [[b \in Clients |-> Seen(calls[b])] EXCEPT ![c].answer = answer]
    BY <2>3
  <2>5. Api!Registry!Answer(c, answer)
    BY <2>4 DEF Api!Registry!Answer, Seen
  <2> QED BY <2>5 DEF answer
<1>8. \A b \in Clients :
        /\ calls'[b].pc # "none" =>
             (calls'[b].op \in Api!Ops
              /\ (calls'[b].timer = Null <=> calls'[b].op = "create"))
        /\ calls'[b].pc = "update" => calls'[b] = calls[b]
  BY <1>2, <1>4 DEF ApiInv
<1>9. ApiInv'
  BY <1>5, <1>8 DEF ApiInv, Api!TypeOK
<1> QED BY <1>6, <1>7, <1>9

\* The error codes are status codes, and none says that all went well.
LEMMA ErrorCodes ==
    ASSUME NEW op \in Api!Ops
    PROVE  Api!ErrorCode(op) \in Nat /\ Api!ErrorCode(op) \notin Granting
BY DEF Api!Ops, Api!ErrorCode, Granting

\* A refusal the timer calls for, or any with a fault on the way, is a step of
\* the registry.
LEMMA Turned ==
    ASSUME ApiInv, NEW c \in Clients, calls[c].pc \in {"start", "update"},
           NEW code \in Nat \cup {Null}, NEW fault \in BOOLEAN,
           Api!Respond(c, code, fault), UNCHANGED status,
           ~fault => /\ code \notin Granting
                     /\ calls[c].sound =>
                          /\ calls[c].op # "create"
                          /\ ~Api!Registry!Allows(calls[c].op, status[calls[c].timer])
    PROVE  ApiInv' /\ Api!Registry!Next
<1>1. status' \in [Timers -> Api!Statuses]
  BY DEF ApiInv, Api!TypeOK
<1>2. /\ ApiInv' /\ Seen(calls[c]).answer = "open"
      /\ Api!Registry!Answer(c, IF fault THEN "fault"
                                ELSE IF code \in Granting THEN "ok" ELSE "error")
  BY <1>1, Responding
<1>3. CASE fault
  <2>1. Api!Registry!Answer(c, "fault")
    BY <1>2, <1>3
  <2>2. Api!Registry!Fault(c)
    BY <1>2, <2>1 DEF Api!Registry!Fault, Seen
  <2> QED BY <1>2, <2>2 DEF Api!Registry!Next
<1>4. CASE ~fault
  <2>1. Api!Registry!Answer(c, "error")
    BY <1>2, <1>4
  <2>2. Api!Registry!Refuse(c)
    BY <1>2, <1>4, <2>1 DEF Api!Registry!Refuse, Seen
  <2> QED BY <1>2, <2>2 DEF Api!Registry!Next
<1> QED BY <1>3, <1>4

\* A request that is granted is a step of the registry when it may find the
\* timer so and leave it so.
LEMMA Granted ==
    ASSUME ApiInv, NEW c \in Clients, calls[c].pc \in {"start", "update"},
           NEW t \in Timers, NEW code \in Granting, Api!Respond(c, code, FALSE),
           calls[c].sound, Api!Registry!On(c, t),
           Api!Registry!Allows(calls[c].op, status[t]),
           status' = [status EXCEPT ![t] = Api!Registry!Leaves(calls[c].op, status[t])],
           status' \in [Timers -> Api!Statuses]
    PROVE  ApiInv' /\ Api!Registry!Next
<1>1. code \in Nat \cup {Null} /\ FALSE \in BOOLEAN
  BY DEF Granting
<1>2. /\ ApiInv' /\ Seen(calls[c]).answer = "open"
      /\ Api!Registry!Answer(c, "ok")
  BY <1>1, Responding
<1>3. Api!Registry!Succeed(c, t)
  BY <1>2 DEF Api!Registry!Succeed, Api!Registry!Effect, Seen
<1> QED BY <1>2, <1>3 DEF Api!Registry!Next

\* A statement that changes the timer, its answer lost or not, is a step of the
\* registry when the request may find the timer so and leave it so.
LEMMA Written ==
    ASSUME ApiInv, NEW c \in Clients, calls[c].pc \in {"start", "update"},
           NEW t \in Timers, NEW to \in Api!Statuses, NEW code \in Granting,
           Api!Write(c, t, to, code),
           calls[c].sound, Api!Registry!On(c, t),
           Api!Registry!Allows(calls[c].op, status[t]),
           Api!Registry!Leaves(calls[c].op, status[t]) = to
    PROVE  ApiInv' /\ Api!Registry!Next
<1>1. /\ status \in [Timers -> Api!Statuses] /\ status' \in [Timers -> Api!Statuses]
      /\ status' = [status EXCEPT ![t] = to]
  BY DEF ApiInv, Api!TypeOK, Api!Write
<1>2. calls[c].op \in Api!Ops
  BY DEF ApiInv
<1>3. ASSUME Seen(calls[c]).answer = "open" PROVE Api!Registry!Effect(c, t)
  BY <1>1, <1>3 DEF Api!Registry!Effect, Seen
<1>4. CASE Api!Respond(c, code, FALSE)
  BY <1>1, <1>4, Granted
<1>5. ASSUME NEW lost \in Nat \cup {Null}, Api!Respond(c, lost, TRUE)
      PROVE  ApiInv' /\ Api!Registry!Next
  <2>1. /\ ApiInv' /\ Seen(calls[c]).answer = "open"
        /\ Api!Registry!Answer(c, "fault")
    BY <1>1, <1>5, Responding
  <2>2. Api!Registry!Fault(c)
    BY <1>3, <2>1 DEF Api!Registry!Fault, Seen
  <2> QED BY <2>1, <2>2 DEF Api!Registry!Next
<1>6. Api!ErrorCode(calls[c].op) \in Nat \cup {Null} /\ Null \in Nat \cup {Null}
  BY <1>2, ErrorCodes
<1>7. CASE Api!Respond(c, Api!ErrorCode(calls[c].op), TRUE)
  BY <1>5, <1>6, <1>7
<1>8. CASE Api!Respond(c, Null, TRUE)
  BY <1>5, <1>6, <1>8
<1> QED BY <1>4, <1>7, <1>8 DEF Api!Write

\* The initial states agree.
LEMMA ApiInit == Api!Init => ApiInv /\ Api!Registry!Init
BY DEF Api!Init, ApiInv, Api!TypeOK, Api!Statuses, Api!NoCall, Api!Call,
       Api!Registry!Init, Api!Registry!NoCall, Api!Answered

\* Every step of a handler is a step of the registry, or none.
LEMMA ApiNext ==
    ASSUME ApiInv, [Api!Next]_(Api!vars)
    PROVE  ApiInv' /\ [Api!Registry!Next]_(Api!Registry!vars)
<1> DEFINE Goal == ApiInv' /\ [Api!Registry!Next]_(Api!Registry!vars)
<1>0. /\ status \in [Timers -> Api!Statuses] /\ calls \in [Clients -> Api!Call]
      /\ \A c \in Clients : calls[c] \in Api!Call
  BY DEF ApiInv, Api!TypeOK
<1>1. ASSUME NEW c \in Clients, NEW op \in Api!Ops, NEW t \in Timers \cup {Null},
             NEW sound \in BOOLEAN, Api!Request(c, op, t, sound)
      PROVE  Goal
  <2> DEFINE new == [op |-> op, timer |-> t, sound |-> sound, pc |-> "start",
                     code |-> Null, fault |-> FALSE]
  <2>1. new \in Api!Call /\ Api!Answered(new) = "open"
    BY DEF Api!Call, Api!Answered
  <2>2. /\ calls' = [calls EXCEPT ![c] = new] /\ status' = status
        /\ calls[c].pc \in {"none", "answered"} /\ (t = Null <=> op = "create")
    BY <1>1 DEF Api!Request
  <2>3. new.op = op /\ new.timer = t /\ new.sound = sound /\ new.pc = "start"
    OBVIOUS
  <2> HIDE DEF new
  <2>4. ApiInv'
    BY <1>0, <2>1, <2>2, <2>3 DEF ApiInv, Api!TypeOK
  <2>5. Seen(calls[c]).answer # "open"
    BY <2>2 DEF Seen, Api!Answered
  <2>6. Seen(new) = [op |-> op, timer |-> t, sound |-> sound, answer |-> "open"]
    BY <2>1, <2>3 DEF Seen
  <2>7. [b \in Clients |-> Seen(calls'[b])]
          = [[b \in Clients |-> Seen(calls[b])] EXCEPT ![c] =
               [op |-> op, timer |-> t, sound |-> sound, answer |-> "open"]]
    BY <1>0, <2>2, <2>6
  <2>8. Api!Registry!Ask(c)
    BY <2>2, <2>5, <2>7 DEF Api!Registry!Ask, Api!Registry!Ops, Api!Ops, Seen
  <2> QED BY <2>4, <2>8 DEF Api!Registry!Next
<1>2. ASSUME NEW c \in Clients, Api!Reject(c) PROVE Goal
  <2>1. PICK code \in {400, 401} : Api!Respond(c, code, FALSE)
    BY <1>2 DEF Api!Reject
  <2>2. calls[c].pc \in {"start", "update"} /\ ~calls[c].sound /\ UNCHANGED status
    BY <1>2 DEF Api!Reject, Api!At
  <2>3. code \in Nat \cup {Null} /\ code \notin Granting
    BY DEF Granting
  <2> QED BY <2>1, <2>2, <2>3, Turned
<1>3. ASSUME NEW c \in Clients, Api!ServiceError(c) \/ Api!Lost(c) PROVE Goal
  <2>1. /\ calls[c].pc \in {"start", "update"} /\ calls[c].op \in Api!Ops
        /\ UNCHANGED status
    BY <1>3 DEF Api!ServiceError, Api!Lost, Api!At, ApiInv
  <2>2. \E code \in Nat \cup {Null} : Api!Respond(c, code, TRUE)
    BY <1>3, <2>1, ErrorCodes DEF Api!ServiceError, Api!Lost
  <2> QED BY <2>1, <2>2, Turned
<1>4. ASSUME NEW c \in Clients, Api!CreateTimer(c) PROVE Goal
  <2>1. PICK t \in Timers : status[t] = "ABSENT" /\ Api!Write(c, t, "INACTIVE", 201)
    BY <1>4 DEF Api!CreateTimer
  <2>2. calls[c].pc = "start" /\ calls[c].op = "create" /\ calls[c].sound
    BY <1>4 DEF Api!CreateTimer, Api!At
  <2>3. /\ Api!Registry!On(c, t) /\ Api!Registry!Allows(calls[c].op, status[t])
        /\ Api!Registry!Leaves(calls[c].op, status[t]) = "INACTIVE"
        /\ "INACTIVE" \in Api!Statuses
    BY <2>1, <2>2
       DEF Api!Registry!On, Api!Registry!Allows, Api!Registry!Leaves, Api!Statuses
  <2> QED BY <2>1, <2>2, <2>3, GrantingFacts, Written
<1>5. ASSUME NEW c \in Clients, Api!GetTimer(c) PROVE Goal
  <2> DEFINE t == calls[c].timer
  <2>1. /\ calls[c].pc = "start" /\ calls[c].op = "get" /\ calls[c].sound
        /\ UNCHANGED status
        /\ Api!Respond(c, IF Api!Found(t) THEN 200 ELSE Api!ErrorCode("get"), FALSE)
    BY <1>5 DEF Api!GetTimer, Api!At
  <2>2. t \in Timers
    BY <1>0, <2>1 DEF ApiInv, Api!Call
  <2>3. CASE Api!Found(t)
    <3>1. Api!Respond(c, 200, FALSE) /\ status' \in [Timers -> Api!Statuses]
      BY <1>0, <2>1, <2>3
    <3>2. /\ Api!Registry!On(c, t) /\ Api!Registry!Allows(calls[c].op, status[t])
          /\ status' = [status EXCEPT ![t] =
                          Api!Registry!Leaves(calls[c].op, status[t])]
      BY <1>0, <2>1, <2>3
         DEF Api!Registry!On, Api!Registry!Allows, Api!Registry!Leaves, Api!Found, Seen
    <3> QED BY <2>1, <2>2, <3>1, <3>2, GrantingFacts, Granted
  <2>4. CASE ~Api!Found(t)
    <3>1. Api!Respond(c, Api!ErrorCode("get"), FALSE)
      BY <2>1, <2>4
    <3>2. Api!ErrorCode("get") \in Nat /\ Api!ErrorCode("get") \notin Granting
      BY ErrorCodes DEF Api!Ops
    <3>3. ~Api!Registry!Allows(calls[c].op, status[t])
      BY <2>1, <2>4 DEF Api!Registry!Allows, Api!Found
    <3> QED BY <2>1, <3>1, <3>2, <3>3, Turned
  <2> QED BY <2>3, <2>4
<1>6. ASSUME NEW c \in Clients, Api!DeleteTimer(c) PROVE Goal
  <2> DEFINE t == calls[c].timer
  <2>1. calls[c].pc = "start" /\ calls[c].op = "delete" /\ calls[c].sound
    BY <1>6 DEF Api!DeleteTimer, Api!At
  <2>2. t \in Timers
    BY <1>0, <2>1 DEF ApiInv, Api!Call
  <2>3. CASE Api!Found(t)
    <3>1. Api!Write(c, t, "DELETED", 200)
      BY <1>6, <2>3 DEF Api!DeleteTimer
    <3>2. /\ Api!Registry!On(c, t) /\ Api!Registry!Allows(calls[c].op, status[t])
          /\ Api!Registry!Leaves(calls[c].op, status[t]) = "DELETED"
          /\ "DELETED" \in Api!Statuses
      BY <2>1, <2>3
         DEF Api!Registry!On, Api!Registry!Allows, Api!Registry!Leaves,
             Api!Statuses, Api!Found, Seen
    <3> QED BY <2>1, <2>2, <3>1, <3>2, GrantingFacts, Written
  <2>4. CASE ~Api!Found(t)
    <3>1. Api!Respond(c, Api!ErrorCode("delete"), FALSE) /\ UNCHANGED status
      BY <1>6, <2>4 DEF Api!DeleteTimer
    <3>2. Api!ErrorCode("delete") \in Nat /\ Api!ErrorCode("delete") \notin Granting
      BY ErrorCodes DEF Api!Ops
    <3>3. ~Api!Registry!Allows(calls[c].op, status[t])
      BY <2>1, <2>4 DEF Api!Registry!Allows, Api!Found
    <3> QED BY <2>1, <3>1, <3>2, <3>3, Turned
  <2> QED BY <2>3, <2>4
<1>7. ASSUME NEW c \in Clients, calls[c].op \in {"activate", "deactivate"}
      PROVE  /\ calls[c].pc # "none" => calls[c].timer \in Timers
             /\ \A s : Api!Registry!Allows(calls[c].op, s) <=> s = Api!From(calls[c].op)
             /\ \A s : Api!Registry!Leaves(calls[c].op, s) = Api!To(calls[c].op)
             /\ Api!To(calls[c].op) \in Api!Statuses
             /\ calls[c].op \in Api!Ops /\ calls[c].op # "create"
  <2>1. calls[c].pc # "none" => calls[c].timer \in Timers
    BY <1>0, <1>7 DEF ApiInv, Api!Call
  <2> QED BY <1>7, <2>1
          DEF Api!Registry!Allows, Api!Registry!Leaves, Api!From, Api!To, Api!Statuses,
              Api!Ops
<1>8. ASSUME NEW c \in Clients, Api!ReadTimer(c) PROVE Goal
  <2>1. /\ calls[c].pc = "start" /\ calls[c].op \in {"activate", "deactivate"}
        /\ calls[c].sound /\ UNCHANGED status
    BY <1>8 DEF Api!ReadTimer, Api!At
  <2>2. CASE status[calls[c].timer] = Api!From(calls[c].op)
    <3> DEFINE new == [calls[c] EXCEPT !.pc = "update"]
    <3>1. calls' = [calls EXCEPT ![c] = new]
      BY <1>0, <1>8, <2>2 DEF Api!ReadTimer
    <3>2. /\ new \in Api!Call /\ new.pc = "update" /\ new.op = calls[c].op
          /\ new.timer = calls[c].timer /\ new.sound = calls[c].sound
      BY <1>0 DEF Api!Call
    <3> HIDE DEF new
    <3>3. ApiInv'
      BY <1>0, <2>1, <3>1, <3>2 DEF ApiInv, Api!TypeOK
    <3>4. Seen(new) = Seen(calls[c])
      BY <2>1, <3>2 DEF Seen, Api!Answered
    <3>5. [b \in Clients |-> Seen(calls'[b])] = [b \in Clients |-> Seen(calls[b])]
      BY <1>0, <3>1, <3>4
    <3> QED BY <2>1, <3>3, <3>5 DEF Api!Registry!vars, Seen
  <2>3. CASE status[calls[c].timer] # Api!From(calls[c].op)
    <3>1. Api!Respond(c, Api!ErrorCode(calls[c].op), FALSE)
      BY <1>8, <2>3 DEF Api!ReadTimer
    <3> QED BY <1>7, <2>1, <2>3, <3>1, ErrorCodes, Turned
  <2> QED BY <2>2, <2>3
<1>9. ASSUME NEW c \in Clients, Api!UpdateScheduleState(c) PROVE Goal
  <2> DEFINE t == calls[c].timer
  <2>1. /\ calls[c].pc = "update" /\ calls[c].op \in {"activate", "deactivate"}
        /\ calls[c].sound
    BY <1>9 DEF Api!UpdateScheduleState, Api!At, ApiInv
  <2>2. CASE status[t] = Api!From(calls[c].op)
    <3>1. Api!Write(c, t, Api!To(calls[c].op), 200)
      BY <1>9, <2>2 DEF Api!UpdateScheduleState
    <3>2. Api!Registry!On(c, t)
      BY DEF Api!Registry!On
    <3> QED BY <1>7, <2>1, <2>2, <3>1, <3>2, GrantingFacts, Written
  <2>3. CASE status[t] # Api!From(calls[c].op)
    <3>1. Api!Respond(c, Api!ErrorCode(calls[c].op), FALSE) /\ UNCHANGED status
      BY <1>9, <2>3 DEF Api!UpdateScheduleState
    <3> QED BY <1>7, <2>1, <2>3, <3>1, ErrorCodes, Turned
  <2> QED BY <2>2, <2>3
<1>10. CASE UNCHANGED Api!vars
  BY <1>10 DEF Api!vars, ApiInv, Api!TypeOK, Api!Registry!vars
<1> QED
  BY <1>1, <1>2, <1>3, <1>4, <1>5, <1>6, <1>8, <1>9, <1>10 DEF Api!Next, Api!Handle

\* The handlers implement the registry: every answer is true of one moment of
\* its request, for any number of clients and timers.
THEOREM AnswersAreTrue == Api!Spec => Api!RegistrySpec
<1>1. Api!Init => ApiInv /\ Api!Registry!Init
  BY ApiInit
<1>2. ApiInv /\ [Api!Next]_(Api!vars) =>
        ApiInv' /\ [Api!Registry!Next]_(Api!Registry!vars)
  BY ApiNext
<1> QED BY <1>1, <1>2, PTL DEF Api!Spec, Api!RegistrySpec, Api!Registry!Spec
=============================================================================
