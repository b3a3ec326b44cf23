------------------------------ MODULE MCConfig ------------------------------
(***************************************************************************)
(* Instances of Config for TLC: values around every limit of the settings  *)
(* that depend on each other, set or left out, in file and environment.    *)
(***************************************************************************)
EXTENDS Config

Some(keys, values) == UNION {[s -> values] : s \in SUBSET keys}

LeaseFiles ==
    Some({"lease_ttl", "heartbeat", "reclaim_idle"}, {-1, 0, 1, 2, 3, 4, 31})

RetryFiles == Some({"retry_base", "retry_max"}, {-1, 0, 1, 2, 60, 61, 90})

AllFiles ==
    LeaseFiles \cup RetryFiles
    \cup Some({"outbox_retention", "execution_retention"}, {0, 1, 31, 32})
    \cup Some({"misfire_grace", "outbox_poll", "claim_ttl", "read_block"}, {-1, 9, 100})

LeaseEnvironments == Some({"lease_ttl"}, {0, 3, 5})
=============================================================================
