------------------------------ MODULE TimerApi ------------------------------
(***************************************************************************)
(* The handlers of the timer API with the answers they give: what a caller *)
(* may conclude from a status code when requests of several clients run at *)
(* the same time on the same timer.                                        *)
(*                                                                         *)
(* Activate and Deactivate are a SELECT and an UPDATE, the others one      *)
(* statement.  A statement may fail before or after it took effect, and    *)
(* the process may end at any time.  next_fire_at is in Scheduler.         *)
(***************************************************************************)
EXTENDS Naturals

CONSTANTS Timers, Clients, Null

ASSUME ApiConstants == Null \notin Timers \cup Nat

VARIABLES
    status,  \* the column status, "ABSENT" for ids without a row
    calls    \* per client, the request it made last

vars == <<status, calls>>
-----------------------------------------------------------------------------
Statuses == {"ABSENT", "INACTIVE", "ACTIVE", "DELETED"}

Ops == {"create", "get", "activate", "deactivate", "delete"}

\* sound: the request passes the middleware, the binding and the checks of
\* Create on its own; code: the status code, Null while there is no answer;
\* fault: whether an error was met on the way, for the properties only.
Call == [op : Ops \cup {Null}, timer : Timers \cup {Null}, sound : BOOLEAN,
         pc : {"none", "start", "update", "answered"}, code : Nat \cup {Null},
         fault : BOOLEAN]

\* A client that has not made a request yet.
NoCall == [op |-> Null, timer |-> Null, sound |-> FALSE, pc |-> "none",
           code |-> Null, fault |-> FALSE]

TypeOK ==
    /\ status \in [Timers -> Statuses]
    /\ calls \in [Clients -> Call]

Init ==
    /\ status = [t \in Timers |-> "ABSENT"]
    /\ calls = [c \in Clients |-> NoCall]

\* A client sends its next request when it has the answer to its last one.
Request(c, op, t, sound) ==
    /\ calls[c].pc \in {"none", "answered"}
    /\ (t = Null) <=> (op = "create")
    /\ calls' = [calls EXCEPT ![c] =
         [op |-> op, timer |-> t, sound |-> sound, pc |-> "start",
          code |-> Null, fault |-> FALSE]]
    /\ UNCHANGED status
-----------------------------------------------------------------------------
At(c, ops, pc) == calls[c].op \in ops /\ calls[c].pc = pc

Respond(c, code, fault) ==
    calls' = [calls EXCEPT ![c].pc = "answered", ![c].code = code, ![c].fault = fault]

\* The code of each handler for any error of its service call.
ErrorCode(op) ==
    CASE op \in {"create", "activate", "deactivate"} -> 400
      [] op = "get"                                  -> 404
      [] op = "delete"                               -> 500

Found(t) == status[t] \in {"INACTIVE", "ACTIVE"}

\* No access, a body too long, parameters or an id that do not parse, a
\* definition that Create does not take.
Reject(c) ==
    /\ At(c, Ops, "start") /\ ~calls[c].sound
    /\ \E code \in {400, 401} : Respond(c, code, FALSE)
    /\ UNCHANGED status

\* Any error of a statement that has no effect.
ServiceError(c) ==
    /\ At(c, Ops, "start") \/ At(c, Ops, "update")
    /\ calls[c].sound
    /\ Respond(c, ErrorCode(calls[c].op), TRUE)
    /\ UNCHANGED status

\* The process ends: no answer.
Lost(c) ==
    /\ At(c, Ops, "start") \/ At(c, Ops, "update")
    /\ Respond(c, Null, TRUE)
    /\ UNCHANGED status

\* A statement that moves timer t to status to; its own answer may be lost.
Write(c, t, to, code) ==
    /\ status' = [status EXCEPT ![t] = to]
    /\ \/ Respond(c, code, FALSE)
       \/ Respond(c, ErrorCode(calls[c].op), TRUE)
       \/ Respond(c, Null, TRUE)

CreateTimer(c) ==
    /\ At(c, {"create"}, "start") /\ calls[c].sound
    /\ \E t \in Timers : status[t] = "ABSENT" /\ Write(c, t, "INACTIVE", 201)

GetTimer(c) ==
    /\ At(c, {"get"}, "start") /\ calls[c].sound
    /\ Respond(c, IF Found(calls[c].timer) THEN 200 ELSE ErrorCode("get"), FALSE)
    /\ UNCHANGED status

\* Mutant: deleting a timer again is fine.
DeleteTimerAgain(c) ==
    LET t == calls[c].timer IN
    /\ At(c, {"delete"}, "start") /\ calls[c].sound
    /\ Write(c, t, "DELETED", 200)

DeleteTimer(c) ==
    LET t == calls[c].timer IN
    /\ At(c, {"delete"}, "start") /\ calls[c].sound
    /\ IF Found(t)
       THEN Write(c, t, "DELETED", 200)
       ELSE Respond(c, ErrorCode("delete"), FALSE) /\ UNCHANGED status

\* ValidateTimerTransition for the two switches.
From(op) == IF op = "activate" THEN "INACTIVE" ELSE "ACTIVE"
To(op) == IF op = "activate" THEN "ACTIVE" ELSE "INACTIVE"

\* GetByID and the check of the transition.
ReadTimer(c) ==
    /\ At(c, {"activate", "deactivate"}, "start") /\ calls[c].sound
    /\ IF status[calls[c].timer] = From(calls[c].op)
       THEN calls' = [calls EXCEPT ![c].pc = "update"]
       ELSE Respond(c, ErrorCode(calls[c].op), FALSE)
    /\ UNCHANGED status

\* Mutant: an UPDATE that meets no row is taken for done.
UpdateScheduleStateUncounted(c) ==
    LET t == calls[c].timer op == calls[c].op IN
    /\ At(c, {"activate", "deactivate"}, "update")
    /\ IF status[t] = From(op)
       THEN Write(c, t, To(op), 200)
       ELSE Respond(c, 200, FALSE) /\ UNCHANGED status

UpdateScheduleState(c) ==
    LET t == calls[c].timer op == calls[c].op IN
    /\ At(c, {"activate", "deactivate"}, "update")
    /\ IF status[t] = From(op)
       THEN Write(c, t, To(op), 200)
       ELSE Respond(c, ErrorCode(op), FALSE) /\ UNCHANGED status
-----------------------------------------------------------------------------
Handle(c) ==
    \/ Reject(c) \/ ServiceError(c) \/ Lost(c)
    \/ CreateTimer(c) \/ GetTimer(c) \/ DeleteTimer(c)
    \/ ReadTimer(c) \/ UpdateScheduleState(c)

Next ==
    \E c \in Clients :
        \/ Handle(c)
        \/ \E op \in Ops, t \in Timers \cup {Null}, sound \in BOOLEAN :
             Request(c, op, t, sound)

Spec == Init /\ [][Next]_vars
-----------------------------------------------------------------------------
(* Properties *)

\* How a caller reads a call.
Answered(call) ==
    IF call.pc = "none" THEN "none"
    ELSE IF call.pc # "answered" THEN "open"
    ELSE IF call.fault THEN "fault"
    ELSE IF call.code \in {200, 201} THEN "ok" ELSE "error"

Registry == INSTANCE TimerRegistry WITH
    calls <- [c \in Clients |->
                [op |-> calls[c].op, timer |-> calls[c].timer,
                 sound |-> calls[c].sound, answer |-> Answered(calls[c])]]

\* The handlers implement a registry in which every request is one step,
\* although Activate and Deactivate are two statements: of two activations that
\* both read INACTIVE one is told 200 and the other 400, and each is true at
\* a moment of its request.
RegistrySpec == Registry!Spec
=============================================================================
