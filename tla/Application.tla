----------------------------- MODULE Application ----------------------------
(***************************************************************************)
(* The life of a worker process: Application, from the start of its        *)
(* resources through Run to the graceful shutdown.                         *)
(*                                                                         *)
(* The main goroutine opens MySQL, Redis and the goroutine pool, starts    *)
(* the background components and the HTTP server and waits for a signal or *)
(* a server error.  Then it cancels the context all of them share and      *)
(* waits, under one deadline for everything, for HTTP requests, background *)
(* components and the pool, before it closes what it had opened.           *)
(*                                                                         *)
(* The others run on meanwhile.  A statement or a callback under the       *)
(* cancelled context ends early; results are stored and messages           *)
(* acknowledged under a context of their own.                              *)
(***************************************************************************)
EXTENDS Integers, Sequences

CONSTANTS
    Pollers,   \* background components other than the worker's read loop
    Handlers   \* the goroutines of the pool

VARIABLES
    main,       \* the main goroutine
    closes,     \* how often each resource was closed; -1 before it is opened
    cancelled,  \* runCtx is done
    expired,    \* the deadline of the shutdown has passed
    released,   \* the pool takes no more tasks
    requests,   \* an HTTP request is being served
    reader,     \* the read loop of the worker
    pollers,    \* the other background components
    handlers    \* what each goroutine of the pool is doing

vars == <<main, closes, cancelled, expired, released, requests, reader,
          pollers, handlers>>

environment == <<requests, reader, pollers, handlers>>
-----------------------------------------------------------------------------
\* Mutant: the pool is created before the connection to Redis.
ClosersSwapped == <<"pool", "redis">>

\* What is opened after MySQL, in the order its closers are registered.
Closers == <<"redis", "pool">>

Resources == {"mysql", "redis", "pool"}

\* opened: closers registered so far; left: closers still to be called;
\* once: closeOnce has fired; failed: the start did not succeed.
Main == [pc : {"mysql", "open", "run", "http", "wait", "close", "return", "exited"},
         opened : 0..Len(Closers), left : 0..Len(Closers),
         once : BOOLEAN, failed : BOOLEAN]

ReaderSteps  == {"off", "top", "read", "submit", "stopped"}
PollerSteps  == {"off", "wait", "busy", "stopped"}
HandlerSteps == {"idle", "claim", "callback", "finish", "ack"}

TypeOK ==
    /\ main \in Main
    /\ closes \in [Resources -> -1..2]
    /\ {cancelled, expired, released, requests} \subseteq BOOLEAN
    /\ reader \in ReaderSteps
    /\ pollers \in [Pollers -> PollerSteps]
    /\ handlers \in [Handlers -> HandlerSteps]

Init ==
    /\ main = [pc |-> "mysql", opened |-> 0, left |-> 0, once |-> FALSE,
               failed |-> FALSE]
    /\ closes = [r \in Resources |-> -1]
    /\ cancelled = FALSE /\ expired = FALSE /\ released = FALSE
    /\ requests = FALSE
    /\ reader = "off"
    /\ pollers = [p \in Pollers |-> "off"]
    /\ handlers = [h \in Handlers |-> "idle"]
-----------------------------------------------------------------------------
(* The start *)

Opened(r) == closes' = [closes EXCEPT ![r] = 0]

\* Mutant: leaves out the last closer.
EnterCloseShort(m) ==
    [m EXCEPT !.pc = "close", !.once = TRUE, !.left = m.opened - 1]

\* closeWithContext, called for the first time.
EnterClose(m) == [m EXCEPT !.pc = "close", !.once = TRUE, !.left = m.opened]

\* Mutant: leaves what is open to the end of the process.
FailUnclosed ==
    /\ main' = [main EXCEPT !.pc = "exited", !.failed = TRUE]
    /\ UNCHANGED closes

\* fail: what is open is closed, and the error returned.
Fail ==
    /\ main' = EnterClose([main EXCEPT !.failed = TRUE])
    /\ UNCHANGED closes

OpenMySQL ==
    /\ main.pc = "mysql"
    /\ \/ main' = [main EXCEPT !.pc = "open"] /\ Opened("mysql")
       \/ Fail
    /\ UNCHANGED <<cancelled, expired, released, environment>>

\* connectStream, then the pool of configureWorker; each registers its closer.
Open ==
    /\ main.pc = "open" /\ main.opened < Len(Closers)
    /\ \/ /\ main' = [main EXCEPT !.opened = @ + 1]
          /\ Opened(Closers[main.opened + 1])
       \/ Fail
    /\ UNCHANGED <<cancelled, expired, released, environment>>

\* Run starts the background components and the HTTP server.
Start ==
    /\ main.pc = "open" /\ main.opened = Len(Closers)
    /\ main' = [main EXCEPT !.pc = "run"]
    /\ reader' = "top"
    /\ pollers' = [p \in Pollers |-> "wait"]
    /\ UNCHANGED <<closes, cancelled, expired, released, requests, handlers>>
-----------------------------------------------------------------------------
(* The shutdown *)

\* A signal, or ListenAndServe returns with an error.
Stop ==
    /\ main.pc = "run"
    /\ main' = [main EXCEPT !.pc = "http"]
    /\ cancelled' = TRUE
    /\ UNCHANGED <<closes, expired, released, environment>>

\* The deadline runs from Stop, or from fail, on.
Expire ==
    /\ main.pc \in {"http", "wait", "close"} /\ ~expired
    /\ expired' = TRUE
    /\ UNCHANGED <<main, closes, cancelled, released, environment>>

HttpShutdown ==
    /\ main.pc = "http"
    /\ ~requests \/ expired
    /\ main' = [main EXCEPT !.pc = "wait"]
    /\ UNCHANGED <<closes, cancelled, expired, released, environment>>

\* Mutant: waits for the components however long they take.
BackgroundEndedOnly == reader = "stopped" /\ \A p \in Pollers : pollers[p] = "stopped"

BackgroundEnded ==
    \/ reader = "stopped" /\ \A p \in Pollers : pollers[p] = "stopped"
    \/ expired

BackgroundWait ==
    /\ main.pc = "wait"
    /\ BackgroundEnded
    /\ main' = EnterClose(main)
    /\ UNCHANGED <<closes, cancelled, expired, released, environment>>

Closed(r) == closes' = [closes EXCEPT ![r] = IF @ < 2 THEN @ + 1 ELSE @]

\* ReleaseContext refuses new tasks, and waits for the running ones.
Release ==
    /\ main.pc = "close" /\ main.left > 0
    /\ Closers[main.left] = "pool" /\ ~released
    /\ released' = TRUE
    /\ UNCHANGED <<main, closes, cancelled, expired, environment>>

PoolDrained == (\A h \in Handlers : handlers[h] = "idle") \/ expired

\* The closers in reverse order of their registration.
Close ==
    /\ main.pc = "close" /\ main.left > 0
    /\ Closers[main.left] = "pool" => released /\ PoolDrained
    /\ Closed(Closers[main.left])
    /\ main' = [main EXCEPT !.left = @ - 1]
    /\ UNCHANGED <<cancelled, expired, released, environment>>

\* CloseDatabase, which does nothing if there is no connection yet.
CloseDatabase ==
    /\ main.pc = "close" /\ main.left = 0
    /\ IF closes["mysql"] = -1 THEN UNCHANGED closes ELSE Closed("mysql")
    /\ main' = [main EXCEPT !.pc = IF main.failed THEN "exited" ELSE "return"]
    /\ UNCHANGED <<cancelled, expired, released, environment>>

\* Mutant: closes again what Run has closed.
ReturnUnguarded ==
    /\ main.pc = "return"
    /\ main' = IF closes["mysql"] < 2
               THEN [main EXCEPT !.pc = "close", !.left = main.opened]
               ELSE [main EXCEPT !.pc = "exited"]
    /\ UNCHANGED <<closes, cancelled, expired, released, environment>>

\* Run returns to the launcher, whose deferred Close finds closeOnce done.
Return ==
    /\ main.pc = "return"
    /\ main' = IF main.once THEN [main EXCEPT !.pc = "exited"] ELSE EnterClose(main)
    /\ UNCHANGED <<closes, cancelled, expired, released, environment>>
-----------------------------------------------------------------------------
(* The rest of the process, until it exits *)

Alive == main.pc # "exited"

RequestStep ==
    /\ Alive
    /\ requests \/ main.pc = "run"
    /\ requests' = ~requests
    /\ UNCHANGED <<main, closes, cancelled, expired, released, reader, pollers, handlers>>

\* A component sees the cancelled context between two rounds of its work.
PollerStep(p) ==
    /\ Alive
    /\ \/ /\ pollers[p] = "wait"
          /\ pollers' = [pollers EXCEPT ![p] = IF cancelled THEN "stopped" ELSE "busy"]
       \/ /\ pollers[p] = "busy"
          /\ pollers' = [pollers EXCEPT ![p] = "wait"]
    /\ UNCHANGED <<main, closes, cancelled, expired, released, requests, reader, handlers>>

\* The read loop goes round; messages it has read it submits to the end, even
\* after the cancellation.
ReaderStep ==
    /\ Alive
    /\ \/ reader = "top" /\ reader' = IF cancelled THEN "stopped" ELSE "read"
       \/ reader = "read" /\ reader' \in {"submit", "top"}
       \/ reader = "submit" /\ released /\ reader' \in {"submit", "top"}
    /\ UNCHANGED <<main, closes, cancelled, expired, released, requests, pollers, handlers>>

\* Submit waits for an idle goroutine.
Submit(h) ==
    /\ Alive
    /\ reader = "submit" /\ ~released
    /\ handlers[h] = "idle"
    /\ handlers' = [handlers EXCEPT ![h] = "claim"]
    /\ reader' \in {"submit", "top"}
    /\ UNCHANGED <<main, closes, cancelled, expired, released, requests, pollers>>

\* process: Claim fails under the cancelled context; a callback then ends as a
\* failure, unless a heartbeat fails first and the run is left; the result is
\* stored if MySQL is still there.
HandlerNext(step) ==
    CASE step = "claim"    -> IF cancelled THEN {"idle"} ELSE {"callback", "ack", "idle"}
      [] step = "callback" -> {"finish", "idle"}
      [] step = "finish"   -> IF closes["mysql"] > 0 THEN {"idle"} ELSE {"ack", "idle"}
      [] step = "ack"      -> {"idle"}
      [] OTHER             -> {}

HandlerStep(h) ==
    /\ Alive
    /\ \E step \in HandlerNext(handlers[h]) : handlers' = [handlers EXCEPT ![h] = step]
    /\ UNCHANGED <<main, closes, cancelled, expired, released, requests, reader, pollers>>
-----------------------------------------------------------------------------
StartStep == OpenMySQL \/ Open \/ Start \/ Stop

ShutdownStep ==
    \/ HttpShutdown \/ BackgroundWait
    \/ Release \/ Close \/ CloseDatabase \/ Return

Next ==
    \/ StartStep
    \/ ShutdownStep
    \/ Expire
    \/ RequestStep
    \/ ReaderStep
    \/ \E p \in Pollers : PollerStep(p)
    \/ \E h \in Handlers : HandlerStep(h) \/ Submit(h)

Spec == Init /\ [][Next]_vars

\* The main goroutine goes on shutting down as long as nothing blocks it, and
\* the deadline comes.  Nothing is assumed of requests, components and callbacks: each may
\* hang for ever.
FairSpec == Spec /\ WF_vars(ShutdownStep) /\ WF_vars(Expire)
-----------------------------------------------------------------------------
(* Properties *)

Quiet ==
    /\ reader \in {"off", "stopped"}
    /\ \A p \in Pollers : pollers[p] \in {"off", "stopped"}
    /\ \A h \in Handlers : handlers[h] = "idle"

\* Redis and MySQL are closed under a running component, or under a callback
\* whose result is still to be stored, only when the deadline has passed.
ClosedWhenQuiet ==
    closes["redis"] > 0 \/ closes["mysql"] > 0 => Quiet \/ expired

\* Wherever the start fails and whatever ends the process, every resource that
\* was opened is closed, and none is closed twice (Run and the launcher's
\* deferred Close both close).
ClosedOnce ==
    main.pc = "exited" => \A r \in Resources : closes[r] \in {-1, 1}

\* A process told to stop ends, even if a request, a component or a callback
\* hangs, or the read loop is blocked in Submit.
ProcessExits == main.pc = "http" ~> main.pc = "exited"
=============================================================================
