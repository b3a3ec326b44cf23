------------------------- MODULE ExecutionLifecycle -------------------------
(***************************************************************************)
(* What the workers and reconcilers together promise about an execution,   *)
(* without leases, tokens, clocks or processes: the status machine.        *)
(*                                                                         *)
(* A run ends by success, by failure, or by a wait for the next attempt,   *)
(* the last only while attempts are left; a run may also be replaced by    *)
(* the next one without a wait (a takeover).  Every start of a run takes   *)
(* the next attempt number.  A terminal execution stays as it is until it  *)
(* is purged, and a purged one never comes back.                           *)
(*                                                                         *)
(* Several executions may move in one step: the reconciler's transaction   *)
(* settles a batch.                                                        *)
(***************************************************************************)
EXTENDS Naturals

CONSTANTS Executions, MaxAttempts

VARIABLES status, attempt

vars == <<status, attempt>>

Terminal == {"SUCCESS", "FAILED", "CANCELLED"}

Becomes(e, s, n) == status'[e] = s /\ attempt'[e] = n

Start(e) ==
    /\ status[e] \in {"PENDING", "RETRY_WAIT", "RUNNING"}
    /\ Becomes(e, "RUNNING", attempt[e] + 1)

Succeed(e) == status[e] = "RUNNING" /\ Becomes(e, "SUCCESS", attempt[e])

Retry(e) ==
    /\ status[e] = "RUNNING"
    /\ attempt[e] < MaxAttempts
    /\ Becomes(e, "RETRY_WAIT", attempt[e])

Fail(e) == status[e] = "RUNNING" /\ Becomes(e, "FAILED", attempt[e])

Purge(e) == status[e] \in Terminal /\ Becomes(e, "ABSENT", 0)

Stay(e) == Becomes(e, status[e], attempt[e])

Move(e) == Start(e) \/ Succeed(e) \/ Retry(e) \/ Fail(e) \/ Purge(e)

Init ==
    /\ status = [e \in Executions |-> "PENDING"]
    /\ attempt = [e \in Executions |-> 0]

Next == \A e \in Executions : Move(e) \/ Stay(e)

Spec == Init /\ [][Next]_vars
=============================================================================
