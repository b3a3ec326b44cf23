------------------------- MODULE ApplicationProofs --------------------------
(***************************************************************************)
(* Proofs about Application, for any number of background components and   *)
(* of goroutines in the pool.                                              *)
(***************************************************************************)
EXTENDS Application, TLAPS

Closing == {"close", "return", "exited"}

\* How far the main goroutine is, and what that says of its bookkeeping.
Stages ==
    /\ main.once <=> main.pc \in Closing
    /\ main.left <= main.opened
    /\ main.pc = "mysql" => main.opened = 0
    /\ main.pc \in {"return", "exited"} => main.left = 0
    /\ main.pc \in {"mysql", "open", "run", "http", "wait"} => ~main.failed
    /\ main.pc # "mysql" /\ main.pc # "open" /\ ~main.failed => main.opened = 2

\* What was opened and what was closed, closer by closer: the ones registered
\* are open until closeWithContext has gone past them.
Ledger ==
    /\ closes["redis"] = IF main.opened < 1 THEN -1
                         ELSE IF main.once /\ main.left < 1 THEN 1 ELSE 0
    /\ closes["pool"]  = IF main.opened < 2 THEN -1
                         ELSE IF main.once /\ main.left < 2 THEN 1 ELSE 0
    /\ main.pc = "mysql" => closes["mysql"] = -1
    /\ main.pc \in {"open", "run", "http", "wait"} => closes["mysql"] = 0
    /\ main.pc = "close" => closes["mysql"] \in {-1, 0}
    /\ main.pc \in {"return", "exited"} => closes["mysql"] \in {-1, 1}

\* Before Run, and after a start that failed, nothing runs in the background.
NothingStarted ==
    main.pc \in {"mysql", "open"} \/ main.failed =>
        /\ reader = "off"
        /\ \A p \in Pollers : pollers[p] = "off"
        /\ \A h \in Handlers : handlers[h] = "idle"

\* The closers run when the background has ended, or time is up.
EndedBeforeClose == main.pc \in Closing /\ ~main.failed => BackgroundEnded

\* The pool is closed when it is empty, or time is up.
DrainedBeforeClose == closes["pool"] > 0 => PoolDrained

IInv ==
    /\ TypeOK
    /\ Stages
    /\ Ledger
    /\ NothingStarted
    /\ EndedBeforeClose
    /\ DrainedBeforeClose
-----------------------------------------------------------------------------
(* The closers and the record of the main goroutine *)

LEMMA ClosersFacts == Len(Closers) = 2 /\ Closers[1] = "redis" /\ Closers[2] = "pool"
BY DEF Closers

LEMMA MainFacts ==
    ASSUME TypeOK
    PROVE  /\ main.pc \in {"mysql", "open", "run", "http", "wait", "close", "return",
                           "exited"}
           /\ main.opened \in 0..2 /\ main.left \in 0..2
           /\ main.once \in BOOLEAN /\ main.failed \in BOOLEAN
           /\ \A r \in Resources : closes[r] \in -1..2
BY ClosersFacts DEF TypeOK, Main

\* The main goroutine goes on without closing anything.
LEMMA PcFacts ==
    ASSUME TypeOK,
           NEW pc \in {"mysql", "open", "run", "http", "wait", "close", "return", "exited"},
           main' = [main EXCEPT !.pc = pc]
    PROVE  /\ main' \in Main /\ main'.pc = pc
           /\ main'.opened = main.opened /\ main'.left = main.left
           /\ main'.once = main.once /\ main'.failed = main.failed
BY DEF TypeOK, Main

\* closeWithContext begins with the closer registered last.
LEMMA EnterCloseFacts ==
    ASSUME NEW m \in Main
    PROVE  LET n == EnterClose(m) IN
           /\ n \in Main /\ n.pc = "close" /\ n.once = TRUE
           /\ n.opened = m.opened /\ n.left = m.opened /\ n.failed = m.failed
<1> DEFINE a == [m EXCEPT !.pc = "close", !.once = TRUE]
           b == [a EXCEPT !.left = m.opened]
<1>1. a \in Main /\ a.pc = "close" /\ a.once = TRUE
      /\ a.opened = m.opened /\ a.failed = m.failed
  BY DEF Main
<1>2. EnterClose(m) = b
  BY DEF EnterClose
<1> HIDE DEF a
<1> QED BY <1>1, <1>2 DEF Main

LEMMA SameBackground ==
    ASSUME TypeOK, UNCHANGED environment
    PROVE  /\ requests' \in BOOLEAN
           /\ reader' \in ReaderSteps /\ reader' = reader
           /\ pollers' \in [Pollers -> PollerSteps] /\ pollers' = pollers
           /\ handlers' \in [Handlers -> HandlerSteps] /\ handlers' = handlers
BY DEF TypeOK, environment

LEMMA InitInv == Init => IInv
<1> SUFFICES ASSUME Init PROVE IInv
  OBVIOUS
<1>1. /\ main \in Main /\ main.pc = "mysql" /\ main.opened = 0 /\ main.left = 0
      /\ main.once = FALSE /\ main.failed = FALSE
  BY ClosersFacts DEF Init, Main
<1>2. TypeOK
  <2>1. closes \in [Resources -> -1..2]
    BY DEF Init
  <2>2. {cancelled, expired, released, requests} \subseteq BOOLEAN
    BY DEF Init
  <2>3. /\ reader \in ReaderSteps /\ pollers \in [Pollers -> PollerSteps]
        /\ handlers \in [Handlers -> HandlerSteps]
    BY DEF Init, ReaderSteps, PollerSteps, HandlerSteps
  <2> QED BY <1>1, <2>1, <2>2, <2>3 DEF TypeOK
<1> QED BY <1>1, <1>2 DEF Init, IInv, Stages, Ledger, NothingStarted,
           EndedBeforeClose, DrainedBeforeClose, Closing, Resources
-----------------------------------------------------------------------------
(* The start *)

\* A failed start goes to the closers with what is open.
LEMMA FailInv ==
    ASSUME IInv, main.pc \in {"mysql", "open"}, Fail,
           UNCHANGED <<cancelled, expired, released, environment>>
    PROVE  IInv'
<1> DEFINE m == [main EXCEPT !.failed = TRUE]
<1>1. m \in Main /\ m.opened = main.opened /\ m.failed = TRUE
  BY DEF IInv, TypeOK, Main
<1> HIDE DEF m
<1>2. /\ main' \in Main /\ main'.pc = "close" /\ main'.once = TRUE
      /\ main'.opened = main.opened /\ main'.left = main.opened
      /\ main'.failed = TRUE /\ closes' = closes
  BY <1>1, EnterCloseFacts DEF Fail, m
<1>3. TypeOK'
  BY <1>2, SameBackground DEF IInv, TypeOK
<1>4. Stages' /\ Ledger'
  BY <1>2, MainFacts DEF IInv, Stages, Ledger, Closing
<1>5. NothingStarted' /\ EndedBeforeClose' /\ DrainedBeforeClose'
  BY <1>2, SameBackground, MainFacts
     DEF IInv, Stages, Ledger, NothingStarted, EndedBeforeClose, DrainedBeforeClose,
         PoolDrained, Closing
<1> QED BY <1>3, <1>4, <1>5 DEF IInv

LEMMA StartInv == IInv /\ StartStep => IInv'
<1> SUFFICES ASSUME IInv, StartStep PROVE IInv'
  OBVIOUS
<1>0. TypeOK /\ main \in Main
  BY DEF IInv, TypeOK
<1>1. ASSUME OpenMySQL, main' = [main EXCEPT !.pc = "open"], Opened("mysql")
      PROVE  IInv'
  <2>1. /\ main' \in Main /\ main'.pc = "open"
        /\ main'.opened = main.opened /\ main'.left = main.left
        /\ main'.once = main.once /\ main'.failed = main.failed
    BY <1>0, <1>1, PcFacts
  <2>2. /\ closes' \in [Resources -> -1..2] /\ closes'["mysql"] = 0
        /\ closes'["redis"] = closes["redis"] /\ closes'["pool"] = closes["pool"]
    BY <1>0, <1>1 DEF Opened, TypeOK, Resources
  <2>3. TypeOK'
    BY <1>0, <1>1, <2>1, <2>2, SameBackground DEF OpenMySQL, TypeOK
  <2> QED BY <1>0, <1>1, <2>1, <2>2, <2>3, SameBackground, MainFacts
          DEF OpenMySQL, IInv, Stages, Ledger, NothingStarted, EndedBeforeClose,
              DrainedBeforeClose, PoolDrained, Closing
<1>2. ASSUME Open, main' = [main EXCEPT !.opened = main.opened + 1],
             Opened(Closers[main.opened + 1])
      PROVE  IInv'
  <2> DEFINE n == main.opened + 1
  <2>1. main.pc = "open" /\ main.opened \in 0..1 /\ n \in 1..2
    BY <1>0, <1>2, MainFacts, ClosersFacts DEF Open
  <2> HIDE DEF n
  <2>2. /\ main' \in Main /\ main'.pc = "open" /\ main'.opened = n
        /\ main'.left = main.left /\ main'.once = main.once
        /\ main'.failed = main.failed
    BY <1>0, <1>2, <2>1, ClosersFacts DEF Main, n
  <2>3. /\ closes' \in [Resources -> -1..2] /\ closes'["mysql"] = closes["mysql"]
        /\ closes'["redis"] = IF n = 1 THEN 0 ELSE closes["redis"]
        /\ closes'["pool"] = IF n = 2 THEN 0 ELSE closes["pool"]
    <3>1. closes' = [closes EXCEPT ![Closers[n]] = 0]
      BY <1>2 DEF Opened, n
    <3> QED BY <1>0, <2>1, <3>1, ClosersFacts DEF TypeOK, Resources
  <2>4. TypeOK'
    BY <1>0, <1>2, <2>2, <2>3, SameBackground DEF Open, TypeOK
  <2>5. Stages' /\ Ledger'
    BY <1>0, <2>1, <2>2, <2>3, MainFacts DEF IInv, Stages, Ledger, Closing, n
  <2>6. NothingStarted' /\ EndedBeforeClose' /\ DrainedBeforeClose'
    BY <1>0, <1>2, <2>1, <2>2, <2>3, SameBackground, MainFacts
       DEF Open, IInv, Stages, Ledger, NothingStarted, EndedBeforeClose,
           DrainedBeforeClose, PoolDrained, Closing
  <2> QED BY <2>4, <2>5, <2>6 DEF IInv
<1>3. CASE Start
  <2>1. main' = [main EXCEPT !.pc = "run"] /\ main.opened = 2 /\ main.pc = "open"
    BY <1>3, ClosersFacts DEF Start
  <2>2. /\ main' \in Main /\ main'.pc = "run"
        /\ main'.opened = main.opened /\ main'.left = main.left
        /\ main'.once = main.once /\ main'.failed = main.failed
    BY <1>0, <2>1, PcFacts
  <2>3. TypeOK'
    BY <1>0, <1>3, <2>2 DEF Start, TypeOK, ReaderSteps, PollerSteps
  <2> QED BY <1>0, <1>3, <2>1, <2>2, <2>3, MainFacts
          DEF Start, IInv, Stages, Ledger, NothingStarted, EndedBeforeClose,
              DrainedBeforeClose, PoolDrained, Closing
<1>4. CASE Stop
  <2>1. main' = [main EXCEPT !.pc = "http"] /\ main.pc = "run"
    BY <1>4 DEF Stop
  <2>2. /\ main' \in Main /\ main'.pc = "http"
        /\ main'.opened = main.opened /\ main'.left = main.left
        /\ main'.once = main.once /\ main'.failed = main.failed
    BY <1>0, <2>1, PcFacts
  <2>3. TypeOK'
    BY <1>0, <1>4, <2>2, SameBackground DEF Stop, TypeOK
  <2> QED BY <1>0, <1>4, <2>1, <2>2, <2>3, SameBackground, MainFacts
          DEF Stop, IInv, Stages, Ledger, NothingStarted, EndedBeforeClose,
              DrainedBeforeClose, PoolDrained, Closing
<1> QED BY <1>1, <1>2, <1>3, <1>4, FailInv DEF StartStep, OpenMySQL, Open
-----------------------------------------------------------------------------
(* The shutdown *)

\* The steps that only move the main goroutine on.
LEMMA MainGoesOn ==
    ASSUME IInv,
           NEW pc \in {"wait", "return", "exited"},
           main' = [main EXCEPT !.pc = pc],
           \/ main.pc = "http" /\ pc = "wait"
           \/ main.pc = "return" /\ pc = "exited",
           UNCHANGED <<closes, cancelled, expired, released, environment>>
    PROVE  IInv'
<1>0. TypeOK
  BY DEF IInv
<1>1. /\ main' \in Main /\ main'.pc = pc
      /\ main'.opened = main.opened /\ main'.left = main.left
      /\ main'.once = main.once /\ main'.failed = main.failed
  BY <1>0, PcFacts
<1>2. TypeOK'
  BY <1>0, <1>1, SameBackground DEF TypeOK
<1>3. Stages' /\ Ledger'
  BY <1>0, <1>1, MainFacts DEF IInv, Stages, Ledger, Closing
<1>4. NothingStarted' /\ EndedBeforeClose' /\ DrainedBeforeClose'
  BY <1>0, <1>1, SameBackground, MainFacts
     DEF IInv, Stages, NothingStarted, EndedBeforeClose, DrainedBeforeClose,
         BackgroundEnded, PoolDrained, Closing
<1> QED BY <1>2, <1>3, <1>4 DEF IInv

LEMMA ReturnInv == IInv /\ Return => IInv'
<1> SUFFICES ASSUME IInv, Return PROVE IInv'
  OBVIOUS
<1>1. main.pc = "return" /\ main.once
  BY DEF IInv, Stages, Return, Closing
<1>2. main' = [main EXCEPT !.pc = "exited"]
  BY <1>1 DEF Return
<1> QED BY <1>1, <1>2, MainGoesOn DEF Return

LEMMA BackgroundWaitInv == IInv /\ BackgroundWait => IInv'
<1> SUFFICES ASSUME IInv, BackgroundWait PROVE IInv'
  OBVIOUS
<1>0. TypeOK /\ main \in Main /\ main.pc = "wait" /\ closes' = closes
  BY DEF IInv, TypeOK, BackgroundWait
<1>1. /\ main' \in Main /\ main'.pc = "close" /\ main'.once = TRUE
      /\ main'.opened = main.opened /\ main'.left = main.opened
      /\ main'.failed = main.failed
  BY <1>0, EnterCloseFacts DEF BackgroundWait
<1>2. TypeOK'
  BY <1>0, <1>1, SameBackground DEF TypeOK, BackgroundWait
<1>3. Stages' /\ Ledger'
  BY <1>0, <1>1, MainFacts DEF IInv, Stages, Ledger, Closing
<1>4. NothingStarted' /\ EndedBeforeClose' /\ DrainedBeforeClose'
  BY <1>0, <1>1, SameBackground, MainFacts
     DEF BackgroundWait, IInv, Stages, NothingStarted, EndedBeforeClose,
         DrainedBeforeClose, BackgroundEnded, PoolDrained, Closing
<1> QED BY <1>2, <1>3, <1>4 DEF IInv

LEMMA ReleaseInv == IInv /\ Release => IInv'
<1> SUFFICES ASSUME IInv, Release PROVE IInv'
  OBVIOUS
<1>1. TypeOK /\ main' = main /\ closes' = closes
  BY DEF IInv, Release
<1>2. TypeOK'
  BY <1>1, SameBackground DEF TypeOK, Release
<1> QED BY <1>1, <1>2, SameBackground
        DEF Release, IInv, Stages, Ledger, NothingStarted, EndedBeforeClose,
            DrainedBeforeClose, BackgroundEnded, PoolDrained

\* One closer: the resource had been open, and is closed now.
LEMMA CloseInv == IInv /\ Close => IInv'
<1> SUFFICES ASSUME IInv, Close PROVE IInv'
  OBVIOUS
<1> DEFINE n == main.left
<1>0. /\ TypeOK /\ main.pc = "close" /\ n \in 1..2 /\ n - 1 \in 0..2
      /\ main.once /\ main.opened \in 0..2 /\ n <= main.opened
      /\ closes \in [Resources -> -1..2]
      /\ UNCHANGED <<cancelled, expired, released, environment>>
  BY MainFacts DEF IInv, Stages, TypeOK, Close, Closing
<1>1. /\ main' \in Main /\ main'.pc = "close" /\ main'.left = n - 1
      /\ main'.opened = main.opened /\ main'.once = main.once
      /\ main'.failed = main.failed
  BY <1>0, ClosersFacts DEF Close, TypeOK, Main
<1>2. Closers[n] \in Resources /\ closes[Closers[n]] = 0
  BY <1>0, ClosersFacts DEF IInv, Ledger, Resources
<1>3. closes' = [closes EXCEPT ![Closers[n]] = 1]
  BY <1>0, <1>2 DEF Close, Closed
<1> HIDE DEF n
<1>4. /\ closes' \in [Resources -> -1..2] /\ closes'["mysql"] = closes["mysql"]
      /\ closes'["redis"] = IF n = 1 THEN 1 ELSE closes["redis"]
      /\ closes'["pool"] = IF n = 2 THEN 1 ELSE closes["pool"]
  BY <1>0, <1>3, ClosersFacts DEF Resources
<1>5. TypeOK'
  BY <1>0, <1>1, <1>4, SameBackground DEF TypeOK
<1>6. Stages'
  BY <1>0, <1>1 DEF IInv, Stages, Closing
<1>7. Ledger'
  BY <1>0, <1>1, <1>4 DEF IInv, Ledger, n
<1>8. NothingStarted' /\ EndedBeforeClose'
  BY <1>0, <1>1, SameBackground
     DEF IInv, NothingStarted, EndedBeforeClose, BackgroundEnded, Closing
<1>9. DrainedBeforeClose'
  <2>1. n = 2 => PoolDrained
    BY ClosersFacts DEF Close, n
  <2> QED BY <1>0, <1>4, <2>1, SameBackground DEF IInv, DrainedBeforeClose, PoolDrained
<1> QED BY <1>5, <1>6, <1>7, <1>8, <1>9 DEF IInv

LEMMA CloseDatabaseInv == IInv /\ CloseDatabase => IInv'
<1> SUFFICES ASSUME IInv, CloseDatabase PROVE IInv'
  OBVIOUS
<1> DEFINE pc == IF main.failed THEN "exited" ELSE "return"
<1>0. /\ TypeOK /\ main.pc = "close" /\ main.left = 0
      /\ main' = [main EXCEPT !.pc = pc]
      /\ closes \in [Resources -> -1..2] /\ closes["mysql"] \in {-1, 0}
      /\ UNCHANGED <<cancelled, expired, released, environment>>
  BY DEF IInv, Ledger, TypeOK, CloseDatabase
<1>1. pc \in {"return", "exited"} /\ (pc = "return" => ~main.failed)
  OBVIOUS
<1> HIDE DEF pc
<1>2. /\ main' \in Main /\ main'.pc = pc
      /\ main'.opened = main.opened /\ main'.left = main.left
      /\ main'.once = main.once /\ main'.failed = main.failed
  BY <1>0, <1>1, PcFacts
<1>3. /\ closes' \in [Resources -> -1..2] /\ closes'["mysql"] \in {-1, 1}
      /\ closes'["redis"] = closes["redis"] /\ closes'["pool"] = closes["pool"]
  BY <1>0 DEF CloseDatabase, Closed, Resources
<1>4. TypeOK'
  BY <1>0, <1>2, <1>3, SameBackground DEF TypeOK
<1>5. Stages' /\ Ledger'
  BY <1>0, <1>1, <1>2, <1>3 DEF IInv, Stages, Ledger, Closing
<1>6. NothingStarted' /\ EndedBeforeClose' /\ DrainedBeforeClose'
  BY <1>0, <1>1, <1>2, <1>3, SameBackground
     DEF IInv, NothingStarted, EndedBeforeClose, DrainedBeforeClose,
         BackgroundEnded, PoolDrained, Closing
<1> QED BY <1>4, <1>5, <1>6 DEF IInv
-----------------------------------------------------------------------------
(* The rest of the process *)

\* What runs beside the main goroutine starts nothing that has ended, and the
\* deadline, once passed, stays so.
LEMMA OthersInv ==
    ASSUME IInv, UNCHANGED <<main, closes>>, TypeOK',
           expired => expired',
           reader \in {"off", "stopped"} => reader' = reader,
           \A p \in Pollers : pollers[p] \in {"off", "stopped"} => pollers'[p] = pollers[p],
           \A h \in Handlers :
              handlers[h] = "idle" => handlers'[h] = "idle" \/ reader = "submit"
    PROVE  IInv'
<1>1. Stages' /\ Ledger'
  BY DEF IInv, Stages, Ledger
<1>2. NothingStarted' /\ EndedBeforeClose'
  BY DEF IInv, NothingStarted, EndedBeforeClose, BackgroundEnded
<1>3. DrainedBeforeClose'
  <2> SUFFICES ASSUME closes["pool"] > 0, ~expired
               PROVE  \A h \in Handlers : handlers'[h] = "idle"
    BY DEF DrainedBeforeClose, PoolDrained
  <2>1. \A h \in Handlers : handlers[h] = "idle"
    BY DEF IInv, DrainedBeforeClose, PoolDrained
  <2>2. main.pc \in Closing
    BY MainFacts DEF IInv, Ledger, Stages
  <2>3. reader # "submit"
    BY <2>2 DEF IInv, NothingStarted, EndedBeforeClose, BackgroundEnded
  <2> QED BY <2>1, <2>3
<1> QED BY <1>1, <1>2, <1>3 DEF IInv

LEMMA BackgroundInv ==
    ASSUME IInv,
           \/ Expire \/ RequestStep \/ ReaderStep
           \/ \E p \in Pollers : PollerStep(p)
           \/ \E h \in Handlers : HandlerStep(h) \/ Submit(h)
    PROVE  IInv'
<1>0. TypeOK
  BY DEF IInv
<1>1. CASE Expire
  <2>1. TypeOK'
    BY <1>0, <1>1, SameBackground DEF Expire, TypeOK
  <2> QED BY <1>1, <2>1, SameBackground, <1>0, OthersInv DEF Expire
<1>2. CASE RequestStep
  <2>1. requests' \in BOOLEAN
    BY <1>2 DEF RequestStep
  <2>2. TypeOK'
    BY <1>0, <1>2, <2>1 DEF RequestStep, TypeOK
  <2> QED BY <1>2, <2>2, OthersInv DEF RequestStep
<1>3. CASE ReaderStep
  <2>1. reader' \in ReaderSteps /\ reader \notin {"off", "stopped"}
    BY <1>3 DEF ReaderStep, ReaderSteps
  <2>2. TypeOK'
    BY <1>0, <1>3, <2>1 DEF ReaderStep, TypeOK
  <2> QED BY <1>3, <2>1, <2>2, OthersInv DEF ReaderStep
<1>4. ASSUME NEW p \in Pollers, PollerStep(p) PROVE IInv'
  <2>1. PICK step \in {"stopped", "busy", "wait"} :
           /\ pollers[p] \in {"wait", "busy"}
           /\ pollers' = [pollers EXCEPT ![p] = step]
    BY <1>4 DEF PollerStep
  <2>2. TypeOK'
    BY <1>0, <1>4, <2>1 DEF PollerStep, TypeOK, PollerSteps
  <2> QED BY <1>0, <1>4, <2>1, <2>2, OthersInv DEF PollerStep, TypeOK
<1>5. ASSUME NEW h \in Handlers, HandlerStep(h) PROVE IInv'
  <2>1. PICK step \in HandlerNext(handlers[h]) : handlers' = [handlers EXCEPT ![h] = step]
    BY <1>5 DEF HandlerStep
  <2>2. /\ handlers[h] \in HandlerSteps /\ handlers[h] # "idle"
        /\ step \in HandlerSteps
    BY <1>0, <2>1 DEF TypeOK, HandlerNext, HandlerSteps
  <2>3. TypeOK'
    BY <1>0, <1>5, <2>1, <2>2 DEF HandlerStep, TypeOK
  <2> QED BY <1>0, <1>5, <2>1, <2>2, <2>3, OthersInv DEF HandlerStep, TypeOK
<1>6. ASSUME NEW h \in Handlers, Submit(h) PROVE IInv'
  <2>1. /\ reader = "submit" /\ reader' \in ReaderSteps
        /\ handlers' = [handlers EXCEPT ![h] = "claim"]
    BY <1>6 DEF Submit, ReaderSteps
  <2>2. TypeOK'
    BY <1>0, <1>6, <2>1 DEF Submit, TypeOK, HandlerSteps
  <2> QED BY <1>6, <2>1, <2>2, OthersInv DEF Submit
<1> QED BY <1>1, <1>2, <1>3, <1>4, <1>5, <1>6

LEMMA NextInv == IInv /\ [Next]_vars => IInv'
<1>1. IInv /\ UNCHANGED vars => IInv'
  BY DEF vars, environment, IInv, TypeOK, Stages, Ledger, NothingStarted,
         EndedBeforeClose, DrainedBeforeClose, BackgroundEnded, PoolDrained
<1>2. IInv /\ HttpShutdown => IInv'
  BY MainGoesOn DEF HttpShutdown
<1> QED BY <1>1, <1>2, StartInv, BackgroundWaitInv, ReleaseInv, CloseInv,
           CloseDatabaseInv, ReturnInv, BackgroundInv DEF Next, ShutdownStep

LEMMA Invariance == Spec => []IInv
BY InitInv, NextInv, PTL DEF Spec
-----------------------------------------------------------------------------
(* Theorems *)

\* The process is always in one of the states the code knows.
THEOREM TypeCorrect == Spec => []TypeOK
BY Invariance, PTL DEF IInv

\* The graceful shutdown closes Redis and MySQL under nobody: a poller, the read
\* loop or a handler is still at work then only if the deadline has passed.
THEOREM GracefulClose == Spec => []ClosedWhenQuiet
<1>1. IInv => ClosedWhenQuiet
  <2> SUFFICES ASSUME IInv, closes["redis"] > 0 \/ closes["mysql"] > 0, ~expired
               PROVE  Quiet
    BY DEF ClosedWhenQuiet
  <2>1. main.pc \in Closing /\ main.left = 0
    BY MainFacts DEF IInv, Stages, Ledger, Closing
  <2>2. CASE main.failed
    BY <2>2 DEF IInv, NothingStarted, Quiet
  <2>3. CASE ~main.failed
    <3>1. closes["pool"] > 0
      BY <2>1, <2>3 DEF IInv, Stages, Ledger, Closing
    <3>2. \A h \in Handlers : handlers[h] = "idle"
      BY <3>1 DEF IInv, DrainedBeforeClose, PoolDrained
    <3> QED BY <2>1, <2>3, <3>2 DEF IInv, EndedBeforeClose, BackgroundEnded, Quiet
  <2> QED BY <2>2, <2>3
<1> QED BY <1>1, Invariance, PTL

\* A process that has exited closed what it had opened, each resource once.
THEOREM ResourcesClosedOnce == Spec => []ClosedOnce
<1>1. IInv => ClosedOnce
  BY MainFacts DEF IInv, Stages, Ledger, ClosedOnce, Closing, Resources
<1> QED BY <1>1, Invariance, PTL
=============================================================================
