---------------------------- MODULE ConfigProofs ----------------------------
(***************************************************************************)
(* Proofs about Config, for any whole numbers in config.yaml and in the    *)
(* environment.                                                            *)
(***************************************************************************)
EXTENDS Config, TLAPS

Setting == [Keys -> Int]

\* Where file and environment come from, and what Load makes of them.
IInv ==
    /\ file \in Files
    /\ env \in Environments
    /\ config = Null \/ \E c \in Setting : config = Normalized(c)
-----------------------------------------------------------------------------
(* The keys and their defaults *)

LEMMA KeyFacts ==
    {"heartbeat", "lease_ttl", "reclaim_idle", "retry_base", "retry_max",
     "outbox_retention", "execution_retention", "misfire_grace",
     "stream_max_len"} \subseteq Keys
BY DEF Keys, Defaults

LEMMA DefaultsFacts ==
    ASSUME NEW k \in Keys
    PROVE  Defaults[k] \in Int /\ Defaults[k] >= 0
           /\ (k \notin {"misfire_grace", "stream_max_len"} => Defaults[k] >= Least(k))
BY DEF Keys, Defaults, Least

LEMMA LeastFacts ==
    ASSUME NEW k
    PROVE  /\ Least(k) \in Nat
           /\ k \notin {"misfire_grace", "stream_max_len"} => Least(k) >= 1
           /\ k \in {"misfire_grace", "stream_max_len"} => Least(k) = 0
           /\ k = "lease_ttl" => Least(k) = 3
BY DEF Least
-----------------------------------------------------------------------------
(* The normalize functions *)

\* A setting that depends on no other is at least its least value, repaired or
\* not, and is left alone if it was.
LEMMA RepairedFacts ==
    ASSUME NEW c \in Setting
    PROVE  /\ Repaired(c) \in Setting
           /\ \A k \in Keys \ Dependent : Repaired(c)[k] >= Least(k)
           /\ (\A k \in Keys \ Dependent : c[k] >= Least(k)) => Repaired(c) = c
<1>1. ASSUME NEW k \in Keys
      PROVE  Replacement(k) \in Int /\ Replacement(k) >= Least(k)
  BY DefaultsFacts, LeastFacts DEF Replacement
<1>2. Repaired(c) \in Setting
  BY <1>1 DEF Repaired, Setting
<1>3. ASSUME NEW k \in Keys \ Dependent PROVE Repaired(c)[k] >= Least(k)
  <2>1. c[k] \in Int /\ Least(k) \in Int
    BY LeastFacts DEF Setting
  <2>2. Repaired(c)[k] = IF c[k] < Least(k) THEN Replacement(k) ELSE c[k]
    BY DEF Repaired
  <2> QED BY <1>1, <2>1, <2>2
<1>4. ASSUME \A k \in Keys \ Dependent : c[k] >= Least(k)
      PROVE  Repaired(c) = c
  <2>1. \A k \in Keys \ Dependent : ~(c[k] < Least(k))
    BY <1>4, LeastFacts DEF Setting
  <2>2. \A k \in Keys : Repaired(c)[k] = c[k]
    BY <2>1 DEF Repaired
  <2> QED BY <1>2, <2>2 DEF Setting
<1> QED BY <1>2, <1>3, <1>4

\* Four settings are checked against others; the rest stay as repaired.
LEMMA NormalizedFacts ==
    ASSUME NEW c \in Setting
    PROVE  LET r == Repaired(c)
               n == Normalized(c)
           IN  /\ n \in Setting
               /\ \A k \in Keys \ Dependent : n[k] = r[k] /\ n[k] >= Least(k)
               /\ n.heartbeat = Heartbeat(r)
               /\ n.reclaim_idle = ReclaimIdle(r)
               /\ n.retry_max = RetryMax(r)
               /\ n.execution_retention = ExecutionRetention(r)
<1> DEFINE r  == Repaired(c)
           h  == Heartbeat(r)
           i  == ReclaimIdle(r)
           m  == RetryMax(r)
           e  == ExecutionRetention(r)
           n1 == [r EXCEPT !["heartbeat"] = h]
           n2 == [n1 EXCEPT !["reclaim_idle"] = i]
           n3 == [n2 EXCEPT !["retry_max"] = m]
           n4 == [n3 EXCEPT !["execution_retention"] = e]
<1>1. r \in Setting /\ \A k \in Keys \ Dependent : r[k] >= Least(k)
  BY RepairedFacts
<1> HIDE DEF r
<1>2. {h, i, m, e} \subseteq Int
  <2>1. /\ r.heartbeat \in Int /\ r.lease_ttl \in Int /\ r.reclaim_idle \in Int
        /\ r.retry_base \in Int /\ r.retry_max \in Int
        /\ r.outbox_retention \in Int /\ r.execution_retention \in Int
    BY <1>1, KeyFacts DEF Setting
  <2> QED BY <2>1 DEF Heartbeat, ReclaimIdle, RetryMax, ExecutionRetention
<1>3. Normalized(c) = n4
  BY DEF Normalized, r
<1> HIDE DEF h, i, m, e
<1>4. n4 \in Setting
  BY <1>1, <1>2 DEF Setting
<1>5. \A k \in Keys \ Dependent : n4[k] = r[k]
  BY <1>1 DEF Setting, Dependent
<1>6. /\ n4["heartbeat"] = h /\ n4["reclaim_idle"] = i
      /\ n4["retry_max"] = m /\ n4["execution_retention"] = e
  BY <1>1, KeyFacts DEF Setting
<1> HIDE DEF n4
<1> QED BY <1>1, <1>3, <1>4, <1>5, <1>6 DEF r, h, i, m, e

\* A heartbeat that was given is kept if two of them fit in a lease, and made a
\* third of the lease otherwise; a third fits twice as the lease is at least 3.
LEMMA HeartbeatFacts ==
    ASSUME NEW c \in Setting, c.lease_ttl >= 3
    PROVE  /\ Heartbeat(c) \in Int
           /\ Heartbeat(c) >= 1
           /\ 2 * Heartbeat(c) < c.lease_ttl
<1>1. c.heartbeat \in Int /\ c.lease_ttl \in Int
  BY KeyFacts DEF Setting
<1> QED BY <1>1 DEF Heartbeat

\* The limits hold after the normalize functions, whatever went in.
LEMMA Limits ==
    ASSUME NEW c \in Setting
    PROVE  LET n == Normalized(c) IN
           /\ n \in Setting
           /\ \A k \in Keys \ Dependent : n[k] >= Least(k)
           /\ n.heartbeat >= 1 /\ 2 * n.heartbeat < n.lease_ttl
           /\ n.reclaim_idle >= n.lease_ttl
           /\ n.retry_max >= n.retry_base \/ n.retry_max = 60
           /\ \/ n.execution_retention >= n.outbox_retention
              \/ n.execution_retention = 30
<1> DEFINE r == Repaired(c)
           n == Normalized(c)
<1>1. /\ n \in Setting /\ r \in Setting
      /\ \A k \in Keys \ Dependent : n[k] = r[k] /\ n[k] >= Least(k)
      /\ n.heartbeat = Heartbeat(r)
      /\ n.reclaim_idle = ReclaimIdle(r)
      /\ n.retry_max = RetryMax(r)
      /\ n.execution_retention = ExecutionRetention(r)
  BY NormalizedFacts, RepairedFacts
<1> HIDE DEF n, r
<1>2. {"lease_ttl", "retry_base", "outbox_retention"} \subseteq Keys \ Dependent
  BY KeyFacts DEF Dependent
<1>3. /\ r.lease_ttl = n.lease_ttl /\ r.retry_base = n.retry_base
      /\ r.outbox_retention = n.outbox_retention
      /\ r.lease_ttl >= 3
  BY <1>1, <1>2, LeastFacts
<1>4. /\ r.lease_ttl \in Int /\ r.reclaim_idle \in Int /\ r.retry_max \in Int
      /\ r.retry_base \in Int /\ r.outbox_retention \in Int
      /\ r.execution_retention \in Int
  BY <1>1, KeyFacts DEF Setting
<1>5. n.heartbeat >= 1 /\ 2 * n.heartbeat < n.lease_ttl
  BY <1>1, <1>3, HeartbeatFacts
<1>6. /\ n.reclaim_idle >= n.lease_ttl
      /\ n.retry_max >= n.retry_base \/ n.retry_max = 60
      /\ \/ n.execution_retention >= n.outbox_retention
         \/ n.execution_retention = 30
  BY <1>1, <1>3, <1>4 DEF ReclaimIdle, RetryMax, ExecutionRetention
<1> QED BY <1>1, <1>5, <1>6 DEF n

\* Settings within the limits are left alone.
LEMMA Stable ==
    ASSUME NEW n \in Setting,
           \A k \in Keys \ Dependent : n[k] >= Least(k),
           n.heartbeat >= 1, 2 * n.heartbeat < n.lease_ttl,
           n.reclaim_idle >= n.lease_ttl,
           n.retry_max >= n.retry_base \/ n.retry_max = 60,
           \/ n.execution_retention >= n.outbox_retention
           \/ n.execution_retention = 30
    PROVE  Normalized(n) = n
<1>1. Repaired(n) = n
  BY RepairedFacts
<1>2. /\ n.heartbeat \in Int /\ n.lease_ttl \in Int /\ n.reclaim_idle \in Int
      /\ n.retry_base \in Int /\ n.retry_max \in Int
      /\ n.outbox_retention \in Int /\ n.execution_retention \in Int
  BY KeyFacts DEF Setting
<1>3. Heartbeat(n) = n.heartbeat
  BY <1>2 DEF Heartbeat
<1>4. /\ ReclaimIdle(n) = n.reclaim_idle /\ RetryMax(n) = n.retry_max
      /\ ExecutionRetention(n) = n.execution_retention
  BY <1>2 DEF ReclaimIdle, RetryMax, ExecutionRetention
<1>5. /\ Normalized(n) \in Setting
      /\ \A k \in Keys \ Dependent : Normalized(n)[k] = n[k]
      /\ \A k \in Dependent : Normalized(n)[k] = n[k]
  BY <1>1, <1>3, <1>4, NormalizedFacts DEF Dependent
<1>6. \A k \in Keys : Normalized(n)[k] = n[k]
  BY <1>5
<1> QED BY <1>5, <1>6 DEF Setting
-----------------------------------------------------------------------------
(* The inductive invariant *)

\* Whatever file and environment say, and leave out, the settings are numbers.
LEMMA GivenType ==
    ASSUME file \in Files, env \in Environments PROVE Given \in Setting
<1>1. /\ \A k \in DOMAIN file : file[k] \in Int
      /\ \A k \in DOMAIN env : env[k] \in Int
  BY ConfigConstants
<1> QED BY <1>1, DefaultsFacts DEF Given, Setting

LEMMA Invariance == Spec => []IInv
<1>1. Init => IInv
  BY DEF Init, IInv
<1>2. IInv /\ [Next]_vars => IInv'
  BY GivenType DEF IInv, Next, Load, Restart, vars
<1> QED BY <1>1, <1>2, PTL DEF Spec
-----------------------------------------------------------------------------
(* Theorems *)

\* A process runs with settings that meet the assumptions of the other modules,
\* whatever numbers it was given.
THEOREM AssumptionsMet == Spec => []AssumptionsAreMet
<1>1. ASSUME NEW c \in Setting, config = Normalized(c) PROVE AssumptionsAreMet
  <2>1. /\ config \in Setting
        /\ \A k \in Keys \ Dependent : config[k] >= Least(k)
        /\ config.heartbeat >= 1 /\ 2 * config.heartbeat < config.lease_ttl
        /\ config.reclaim_idle >= config.lease_ttl
        /\ config.retry_max >= config.retry_base \/ config.retry_max = 60
        /\ \/ config.execution_retention >= config.outbox_retention
           \/ config.execution_retention = 30
    BY <1>1, Limits
  <2>2. \A k \in Keys : config[k] \in Int
    BY <2>1 DEF Setting
  <2>3. ASSUME NEW k \in Keys \ Dependent,
               k \notin {"misfire_grace", "stream_max_len"}
        PROVE  config[k] >= 1
    BY <2>1, <2>2, <2>3, LeastFacts
  <2>4. config.misfire_grace >= 0 /\ config.stream_max_len >= 0
    BY <2>1, KeyFacts, LeastFacts DEF Dependent
  <2>5. /\ config.lease_ttl >= 1 /\ config.retry_base >= 1
        /\ config.outbox_retention >= 1
    BY <2>3, KeyFacts DEF Dependent
  <2>6. \A k \in Dependent : config[k] >= 1
    BY <2>1, <2>2, <2>5, KeyFacts DEF Dependent
  <2> QED BY <2>1, <2>3, <2>4, <2>6 DEF AssumptionsAreMet
<1>2. IInv => AssumptionsAreMet
  BY <1>1 DEF IInv, AssumptionsAreMet
<1> QED BY <1>2, Invariance, PTL

\* Loading twice is loading once: no setting drifts from one start to the next.
THEOREM LoadStable == Spec => []LoadIsStable
<1>1. ASSUME NEW c \in Setting PROVE Normalized(Normalized(c)) = Normalized(c)
  BY Limits, Stable
<1>2. IInv => LoadIsStable
  BY <1>1 DEF IInv, LoadIsStable
<1> QED BY <1>2, Invariance, PTL
=============================================================================
