--------------------------- MODULE TimerRegistry ----------------------------
(***************************************************************************)
(* What the timer API promises its callers: every request takes effect at  *)
(* one moment between its arrival and its answer, or not at all.  "ok" is  *)
(* said exactly by the request that made the change; a sound request is    *)
(* turned down only at a moment when the timer really does not allow it.   *)
(* Only a fault (the database, the process) leaves the caller in doubt.    *)
(***************************************************************************)
CONSTANTS Timers, Clients, Null

VARIABLES
    status,  \* status of each timer, "ABSENT" before it is created
    calls    \* per client, its last request and the answer to it

vars == <<status, calls>>

Ops == {"create", "get", "activate", "deactivate", "delete"}

\* Where a request may find the timer, and where it leaves it.
Allows(op, s) ==
    CASE op = "create"          -> s = "ABSENT"
      [] op = "activate"        -> s = "INACTIVE"
      [] op = "deactivate"      -> s = "ACTIVE"
      [] op \in {"get", "delete"} -> s \in {"INACTIVE", "ACTIVE"}

Leaves(op, s) ==
    CASE op \in {"create", "deactivate"} -> "INACTIVE"
      [] op = "activate"                 -> "ACTIVE"
      [] op = "delete"                   -> "DELETED"
      [] op = "get"                      -> s

NoCall == [op |-> Null, timer |-> Null, sound |-> FALSE, answer |-> "none"]

Init ==
    /\ status = [t \in Timers |-> "ABSENT"]
    /\ calls = [c \in Clients |-> NoCall]

Ask(c) ==
    /\ calls[c].answer # "open"
    /\ \E op \in Ops, t \in Timers \cup {Null}, sound \in BOOLEAN :
         calls' = [calls EXCEPT ![c] =
           [op |-> op, timer |-> t, sound |-> sound, answer |-> "open"]]
    /\ UNCHANGED status

\* A new timer gets its id when it is created.
On(c, t) == calls[c].timer = t \/ calls[c].op = "create"

Effect(c, t) ==
    /\ calls[c].answer = "open" /\ calls[c].sound /\ On(c, t)
    /\ Allows(calls[c].op, status[t])
    /\ status' = [status EXCEPT ![t] = Leaves(calls[c].op, @)]

Answer(c, answer) == calls' = [calls EXCEPT ![c].answer = answer]

Succeed(c, t) == Effect(c, t) /\ Answer(c, "ok")

Refuse(c) ==
    /\ calls[c].answer = "open"
    /\ calls[c].sound => /\ calls[c].op # "create"
                         /\ ~Allows(calls[c].op, status[calls[c].timer])
    /\ Answer(c, "error")
    /\ UNCHANGED status

Fault(c) ==
    /\ calls[c].answer = "open"
    /\ (\E t \in Timers : Effect(c, t)) \/ UNCHANGED status
    /\ Answer(c, "fault")

Next ==
    \E c \in Clients :
        \/ Ask(c) \/ Refuse(c) \/ Fault(c)
        \/ \E t \in Timers : Succeed(c, t)

Spec == Init /\ [][Next]_vars
=============================================================================
