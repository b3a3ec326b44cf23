------------------------------- MODULE Config -------------------------------
(***************************************************************************)
(* config.Load: where a setting comes from, and how the normalize          *)
(* functions repair values that make no sense.                             *)
(*                                                                         *)
(* The other modules are about systems whose constants meet their ASSUMEs: *)
(* leases that heartbeats renew in time, limits of at least one.  Here is  *)
(* checked that every process that starts runs with such values, whatever  *)
(* the file and the environment say.                                       *)
(*                                                                         *)
(* Settings are whole numbers; the few strings Load replaces when they are *)
(* empty (names, paths, addresses) depend on nothing else and are left out.*)
(***************************************************************************)
EXTENDS Integers

CONSTANTS
    Files,         \* what config.yaml may contain: functions on sets of Keys
    Environments,  \* what the environment may contain
    Null

VARIABLES
    file,    \* the settings in config.yaml
    env,     \* the CHRONOFLOW_ variables
    config   \* the configuration the process runs with; Null before Load

vars == <<file, env, config>>
-----------------------------------------------------------------------------
\* setDefaults
Defaults ==
    [shutdown_timeout     |-> 15,
     scheduler_poll       |-> 500, scheduler_batch     |-> 100,
     misfire_grace        |-> 30,  max_catch_up        |-> 10,
     outbox_poll          |-> 200, outbox_batch        |-> 100,
     claim_ttl            |-> 30,  max_backoff         |-> 30,
     stream_max_len       |-> 0,
     pool_size            |-> 100, read_count          |-> 20,
     read_block           |-> 2000,
     lease_ttl            |-> 30,  heartbeat           |-> 10,
     reclaim_idle         |-> 30,  reclaim_interval    |-> 10,
     http_timeout         |-> 12,  max_response_bytes  |-> 1048576,
     retry_base           |-> 2,   retry_max           |-> 60,
     scan_interval        |-> 10,  recovery_batch      |-> 100,
     pending_stale        |-> 30,  cleanup_interval    |-> 60,
     outbox_retention     |-> 7,   execution_retention |-> 30,
     stream_retention     |-> 24,  max_request_bytes   |-> 1048576]

Keys == DOMAIN Defaults

ASSUME ConfigConstants ==
    /\ \A f \in Files \cup Environments :
         DOMAIN f \subseteq Keys /\ \A k \in DOMAIN f : f[k] \in Int
    /\ Null \notin [Keys -> Int]

\* viper: a variable of the environment goes before the file, the file before
\* the default.
Given ==
    [k \in Keys |-> IF k \in DOMAIN env THEN env[k]
                    ELSE IF k \in DOMAIN file THEN file[k]
                    ELSE Defaults[k]]
-----------------------------------------------------------------------------
(* The normalize functions *)

\* A setting below its least value is replaced: by its default, or by zero.
Least(k) ==
    CASE k \in {"misfire_grace", "stream_max_len"} -> 0
      [] k \in {"scheduler_poll", "outbox_poll"}   -> 10
      [] k = "read_block"                          -> 100
      [] k = "lease_ttl"                           -> 3
      [] OTHER                                     -> 1

Replacement(k) ==
    IF k \in {"misfire_grace", "stream_max_len"} THEN 0 ELSE Defaults[k]

\* Settings that are checked against another one.
Dependent == {"heartbeat", "reclaim_idle", "retry_max", "execution_retention"}

Repaired(c) ==
    [k \in Keys |-> IF k \notin Dependent /\ c[k] < Least(k)
                    THEN Replacement(k) ELSE c[k]]

\* Mutant: renews a lease no earlier than it may have to.
HeartbeatLate(c) ==
    IF c.heartbeat < 1 \/ c.heartbeat >= c.lease_ttl
    THEN c.lease_ttl \div 3 ELSE c.heartbeat

Heartbeat(c) ==
    IF c.heartbeat < 1 \/ c.heartbeat * 2 >= c.lease_ttl
    THEN c.lease_ttl \div 3 ELSE c.heartbeat

\* Mutant: adds a margin to what it finds.
ReclaimIdleMargin(c) ==
    1 + (IF c.reclaim_idle < c.lease_ttl THEN c.lease_ttl ELSE c.reclaim_idle)

ReclaimIdle(c) == IF c.reclaim_idle < c.lease_ttl THEN c.lease_ttl ELSE c.reclaim_idle

RetryMax(c) == IF c.retry_max < c.retry_base THEN 60 ELSE c.retry_max

ExecutionRetention(c) ==
    IF c.execution_retention < c.outbox_retention THEN 30 ELSE c.execution_retention

\* Each dependent setting is checked after the one it depends on.
Normalized(c) ==
    LET r == Repaired(c) IN
    [r EXCEPT !.heartbeat           = Heartbeat(r),
              !.reclaim_idle        = ReclaimIdle(r),
              !.retry_max           = RetryMax(r),
              !.execution_retention = ExecutionRetention(r)]
-----------------------------------------------------------------------------
Init ==
    /\ file \in Files
    /\ env \in Environments
    /\ config = Null

Load ==
    /\ config = Null
    /\ config' = Normalized(Given)
    /\ UNCHANGED <<file, env>>

\* The file is changed and the process started again.
Restart(f) ==
    /\ config # Null
    /\ file' = f
    /\ config' = Null
    /\ UNCHANGED env

Next == Load \/ \E f \in Files : Restart(f)

Spec == Init /\ [][Next]_vars
-----------------------------------------------------------------------------
(* Properties *)

\* What TimerExecution, Worker, Outbox, Scheduler and ConsumerGroup assume of
\* their constants, whatever was given.  And more for leases: a lease outlasts
\* two heartbeat periods, so that a heartbeat up to a period late still finds
\* it, and no message is taken from a worker before the lease of its run can be
\* over.
AssumptionsAreMet ==
    config # Null =>
        /\ \A k \in Keys \ {"misfire_grace", "stream_max_len"} : config[k] >= 1
        /\ config.misfire_grace >= 0 /\ config.stream_max_len >= 0
        /\ 2 * config.heartbeat < config.lease_ttl
        /\ config.reclaim_idle >= config.lease_ttl

\* The configuration a process runs with is one that Load would leave as it is:
\* written down and loaded again it does not drift.
LoadIsStable == config # Null => Normalized(config) = config
=============================================================================
