------------------------------ MODULE CreatedAt ------------------------------
(***************************************************************************)
(* The 16-bit creation stamp of a request and the two rules that read it:  *)
(* the program's purge (api/src/state/queue.rs, age_secs) and the oracle's *)
(* choice between fulfilling and purging (processor.rs, age_secs).         *)
(*                                                                         *)
(* A stamp is the cluster time in units of Unit seconds, cut to Modulus    *)
(* values (2^16 in the code), so ages are only known modulo the wrap.      *)
(***************************************************************************)
EXTENDS Integers

CONSTANTS
  Unit,      \* CREATED_AT_UNIT_SECS
  Modulus,   \* number of stamps, 2^16
  TTL,       \* QUEUE_TTL_SECONDS
  SkewUnits  \* CLOCK_SKEW_UNITS

\* Two facts about the code's constants (4, 2^16, 120, 15) carry the results:
\* the TTL is a whole number of stamp units and well inside one wrap.
ASSUME StampAssumption ==
  /\ Unit \in Nat \ {0}
  /\ Modulus \in Nat \ {0}
  /\ TTL \in Nat
  /\ SkewUnits \in Nat
  /\ TTL % Unit = 0
  /\ TTL + (SkewUnits + 2) * Unit < Unit * Modulus

\* Seconds after which a stamp comes round again.
Cycle == Unit * Modulus

\* QueueItem::created_at_from; timestamps are not negative.
created_at_from(unix_timestamp) == (unix_timestamp \div Unit) % Modulus

\* u16::wrapping_sub
wrapping_sub(a, b) == (a - b) % Modulus

\* Fault: a saturating subtraction, so a wrapped stamp reads as age 0.
age_secs_saturating(created_at, now_stamp) ==
  IF now_stamp < created_at THEN 0 ELSE (now_stamp - created_at) * Unit

\* QueueItem::age_secs
age_secs(created_at, now_stamp) == wrapping_sub(now_stamp, created_at) * Unit

\* Fault: the TTL itself already counts as expired.
Expired_at_ttl(created_at, unix_timestamp) ==
  age_secs(created_at, created_at_from(unix_timestamp)) >= TTL

\* The purge predicate of process_purge_expired_requests.
Expired(created_at, unix_timestamp) ==
  age_secs(created_at, created_at_from(unix_timestamp)) > TTL

\* Fault: no allowance for a host clock behind the cluster.
oracle_age_secs_no_skew(created_at, host_time) ==
  age_secs(created_at, created_at_from(host_time))

\* The oracle's age_secs: a stamp at most SkewUnits in the host's future reads
\* as age 0.
oracle_age_secs(created_at, host_time) ==
  LET now_stamp == created_at_from(host_time)
  IN  IF wrapping_sub(created_at, now_stamp) <= SkewUnits
        THEN 0
        ELSE age_secs(created_at, now_stamp)

OracleExpired(created_at, host_time) ==
  oracle_age_secs(created_at, host_time) > TTL

=============================================================================
