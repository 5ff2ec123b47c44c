----------------------------- MODULE FulfillTask -----------------------------
(***************************************************************************)
(* The task that answers one request (processor.rs, the future spawned by  *)
(* process_oracle_queue): wait for the first valid slot, send, and retry   *)
(* with growing delays until the request is gone, the attempts are used up *)
(* or the task is aborted (OracleViews). Past the TTL it sends purges. The *)
(* request and the two clocks are those of StampClock, with a host clock   *)
(* that keeps its distance from the cluster's.                             *)
(*                                                                         *)
(* Slots are counted from the two points the task looks at: how many are   *)
(* missing to the first valid slot, and how many passed since attempt_slot.*)
(***************************************************************************)
EXTENDS StampClock, FiniteSetsExt

CONSTANTS
  MAX_ATTEMPTS,              \* 100
  PURGE_RETRY_MAX_SLOTS,     \* 256
  PURGE_SHIFT_MAX,           \* 8
  BACKOFF_SHIFT_MAX,         \* 5; the delay is at most 1 << 5 slots
  SkipPreflight,             \* the client's skip_preflight flag; TRUE by default
  Delays,                    \* seconds until the task starts
  MaxLead                    \* bound on the slots missing at the start

ASSUME TaskAssumption ==
  /\ MAX_ATTEMPTS \in Nat \ {0} /\ PURGE_RETRY_MAX_SLOTS \in Nat
  /\ PURGE_SHIFT_MAX \in Nat /\ BACKOFF_SHIFT_MAX \in Nat /\ SkipPreflight \in BOOLEAN
  /\ Delays \subseteq 0 .. MaxAge /\ MaxLead \in Nat

\* By either clock a task is over long before its request's stamp wraps (three days,
\* against minutes for 100 attempts), on a host whose clock trails the cluster by no more
\* than the skew.
ASSUME LifeAssumption ==
  /\ MaxAge + (SkewUnits + 1) * Unit <= Cycle
  /\ \A d \in Drifts : /\ d >= -(SkewUnits * Unit)
                       /\ MaxAge + d + (SkewUnits + 1) * Unit <= Cycle

VARIABLES
  lead,          \* slots until slot_tracker.current() reaches first_valid_slot
  since,         \* slots passed since attempt_slot
  nap,           \* seconds left of the wait for expiry
  pc, attempts, backoff_attempts, purges_sent,
  first_legal_attempt_pending,
  prepared,      \* prepared_transaction
  expired, sent_early, use_backoff,
  retry_slots,
  purges_taken,  \* history: purges that were accepted
  woken,         \* history: this attempt follows a wait for expiry
  tx,            \* the transaction sent last
  preflight      \* whether the node simulates it before accepting it

clock == <<vars, lead, since, nap>>
counters == <<attempts, backoff_attempts, purges_sent, purges_taken>>
task == <<clock, pc, counters, first_legal_attempt_pending, prepared, expired,
          sent_early, use_backoff, retry_slots, woken, tx, preflight>>

None == [kind |-> "none", nonce |-> 0]

\* 1 << n
ShiftMax == Max({PURGE_SHIFT_MAX, BACKOFF_SHIFT_MAX})
shl[n \in 0 .. ShiftMax] == IF n = 0 THEN 1 ELSE 2 * shl[n - 1]

\* The longest delay, where since stops counting.
MaxDelay == Max({PURGE_RETRY_MAX_SLOTS, shl[BACKOFF_SHIFT_MAX]})

\* Fault: the purge starts at the TTL, not after it.
prepare_transaction_at_ttl(attempt) ==
  [kind |-> IF oracle_age_secs(created_at, host) >= TTL THEN "purge" ELSE "provide",
   nonce |-> attempt]

\* A purge or a fulfilment, by the age now; the attempt is its nonce.
prepare_transaction(attempt) ==
  [kind |-> IF OracleExpired(created_at, host) THEN "purge" ELSE "provide",
   nonce |-> attempt]

-----------------------------------------------------------------------------
\* The world around the task.

Slot ==
  /\ lead' = Max({lead - 1, 0})
  /\ since' = Min({since + 1, MaxDelay})
  /\ UNCHANGED <<vars, nap, pc, counters, first_legal_attempt_pending, prepared,
                 expired, sent_early, use_backoff, retry_slots, woken, tx, preflight>>

Second ==
  /\ Advance(1) \/ (now - born >= MaxAge /\ UNCHANGED vars)
  /\ nap' = Max({nap - 1, 0})
  /\ UNCHANGED <<lead, since, pc, counters, first_legal_attempt_pending, prepared,
                 expired, sent_early, use_backoff, retry_slots, woken, tx, preflight>>

-----------------------------------------------------------------------------
\* The task.

Start ==
  /\ pc = "start"
  /\ pc' = "gate"
  /\ prepared' = prepare_transaction(attempts)
  /\ UNCHANGED <<clock, counters, first_legal_attempt_pending, expired, sent_early,
                 use_backoff, retry_slots, woken, tx, preflight>>

\* Fault: one attempt too many.
Gate_one_more ==
  /\ pc = "gate" /\ attempts <= MAX_ATTEMPTS
  /\ lead = 0 \/ attempts = 0
  /\ pc' = "choose"
  /\ since' = 0
  /\ sent_early' = (lead > 0)
  /\ expired' = OracleExpired(created_at, host)
  /\ UNCHANGED <<vars, lead, nap, counters, first_legal_attempt_pending, prepared,
                 use_backoff, retry_slots, woken, tx, preflight>>

\* The head of the loop. Only before the first attempt may the wait for the
\* first valid slot end early (wait_for_slot_early).
Gate ==
  /\ pc = "gate" /\ attempts < MAX_ATTEMPTS
  /\ lead = 0 \/ attempts = 0
  /\ pc' = "choose"
  /\ since' = 0
  /\ sent_early' = (lead > 0)
  /\ expired' = OracleExpired(created_at, host)
  /\ UNCHANGED <<vars, lead, nap, counters, first_legal_attempt_pending, prepared,
                 use_backoff, retry_slots, woken, tx, preflight>>

Exhausted ==
  /\ pc = "gate" /\ attempts = MAX_ATTEMPTS
  /\ pc' = "stopped"
  /\ UNCHANGED <<clock, counters, first_legal_attempt_pending, prepared, expired,
                 sent_early, use_backoff, retry_slots, woken, tx, preflight>>

\* Fault: a prepared transaction is sent however late it is.
Choose_prepared ==
  /\ pc = "choose"
  /\ pc' = "send"
  /\ tx' = IF prepared # None THEN prepared ELSE prepare_transaction(attempts)
  /\ prepared' = None
  /\ preflight' = ~(SkipPreflight /\ (attempts = 0 \/ first_legal_attempt_pending))
  /\ first_legal_attempt_pending' = sent_early
  /\ UNCHANGED <<clock, counters, expired, sent_early, use_backoff, retry_slots, woken>>

\* Take the prepared transaction, or build one if there is none or it is late.
Choose ==
  /\ pc = "choose"
  /\ pc' = "send"
  /\ tx' = IF prepared # None /\ ~expired THEN prepared ELSE prepare_transaction(attempts)
  /\ prepared' = None
  /\ preflight' = ~(SkipPreflight /\ (attempts = 0 \/ first_legal_attempt_pending))
  /\ first_legal_attempt_pending' = sent_early
  /\ UNCHANGED <<clock, counters, expired, sent_early, use_backoff, retry_slots, woken>>

\* An error of provide_randomness is only reported by the simulation.
ProgramError == preflight /\ tx.kind = "provide"

\* RandomnessRequestNotFound: the request is gone.
NotFound ==
  /\ pc = "send" /\ ProgramError
  /\ pc' = "stopped"
  /\ UNCHANGED <<clock, counters, first_legal_attempt_pending, prepared, expired,
                 sent_early, use_backoff, retry_slots, woken, tx, preflight>>

until_expiry == Max({TTL - oracle_age_secs(created_at, host), 0}) + 1

\* ANCHOR_CONSTRAINT_ADDRESS_ERROR from the callback: sleep and continue, with
\* the same attempt number.
AddressError ==
  /\ pc = "send" /\ ProgramError
  /\ pc' = "nap"
  /\ nap' = until_expiry
  /\ woken' = TRUE
  /\ UNCHANGED <<vars, lead, since, counters, first_legal_attempt_pending,
                 prepared, expired, sent_early, use_backoff, retry_slots, tx, preflight>>

Wake ==
  /\ pc = "nap" /\ nap = 0
  /\ pc' = "gate"
  /\ UNCHANGED <<clock, counters, first_legal_attempt_pending, prepared, expired,
                 sent_early, use_backoff, retry_slots, woken, tx, preflight>>

purge_delay(purges) ==
  IF purges > 0 THEN Min({shl[Min({purges, PURGE_SHIFT_MAX})], PURGE_RETRY_MAX_SLOTS})
                ELSE 0

error_delay(backoff) ==
  IF backoff THEN shl[Min({backoff_attempts, BACKOFF_SHIFT_MAX})] ELSE 1

\* Accepted, OracleMustProvideInDifferentSlot (no backoff) or another error:
\* fix the delay to the next attempt.
Answer(accepted, backoff) ==
  /\ pc = "send"
  /\ pc' = "rearm"
  /\ purges_sent' = IF accepted /\ expired THEN purges_sent + 1 ELSE purges_sent
  /\ purges_taken' = IF accepted /\ tx.kind = "purge" THEN purges_taken + 1 ELSE purges_taken
  /\ use_backoff' = backoff
  /\ retry_slots' = Max({purge_delay(purges_sent'), error_delay(backoff)})
  /\ backoff_attempts' = IF backoff THEN backoff_attempts ELSE 0
  /\ woken' = FALSE
  /\ UNCHANGED <<clock, attempts, first_legal_attempt_pending, prepared, expired,
                 sent_early, tx, preflight>>

Accepted == Answer(TRUE, FALSE)
DifferentSlot == ProgramError /\ Answer(FALSE, FALSE)
SendError == Answer(FALSE, TRUE)

\* After an early send the next transaction is built at once.
Rearm ==
  /\ pc = "rearm"
  /\ pc' = "wait"
  /\ prepared' = IF first_legal_attempt_pending THEN prepare_transaction(attempts + 1)
                                                ELSE prepared
  /\ UNCHANGED <<clock, counters, first_legal_attempt_pending, expired, sent_early,
                 use_backoff, retry_slots, woken, tx, preflight>>

\* Fault: an attempt that failed is not counted.
Retry_uncounted ==
  /\ pc = "wait" /\ since >= retry_slots
  /\ pc' = "gate"
  /\ attempts' = IF use_backoff THEN attempts ELSE attempts + 1
  /\ backoff_attempts' = IF use_backoff
                           THEN Min({backoff_attempts + 1, BACKOFF_SHIFT_MAX})
                           ELSE backoff_attempts
  /\ UNCHANGED <<clock, purges_sent, purges_taken, first_legal_attempt_pending, prepared,
                 expired, sent_early, use_backoff, retry_slots, woken, tx, preflight>>

Retry ==
  /\ pc = "wait" /\ since >= retry_slots
  /\ pc' = "gate"
  /\ attempts' = attempts + 1
  /\ backoff_attempts' = IF use_backoff THEN backoff_attempts + 1 ELSE backoff_attempts
  /\ UNCHANGED <<clock, purges_sent, purges_taken, first_legal_attempt_pending, prepared,
                 expired, sent_early, use_backoff, retry_slots, woken, tx, preflight>>

Reply == NotFound \/ AddressError \/ Accepted \/ DifferentSlot \/ SendError

Step == Start \/ Gate \/ Exhausted \/ Choose \/ Reply \/ Wake \/ Rearm \/ Retry

TaskInit ==
  /\ born \in Births /\ created_at = created_at_from(born)
  /\ now \in {born + d : d \in Delays} /\ drift \in Drifts
  /\ lead \in 0 .. MaxLead /\ since = 0 /\ nap = 0
  /\ pc = "start" /\ attempts = 0 /\ backoff_attempts = 0
  /\ purges_sent = 0 /\ purges_taken = 0
  /\ first_legal_attempt_pending = FALSE /\ prepared = None
  /\ expired = FALSE /\ sent_early = FALSE /\ use_backoff = FALSE
  /\ retry_slots = 0 /\ woken = FALSE /\ tx = None /\ preflight = FALSE

TaskNext == Slot \/ Second \/ Step

\* Slots and seconds pass, and the task goes on whenever it can (RPC calls time
\* out). Nothing is assumed of the answers.
TaskSpec ==
  TaskInit /\ [][TaskNext]_task /\ WF_task(Slot) /\ WF_task(Second) /\ WF_task(Step)

-----------------------------------------------------------------------------
Transaction == [kind : {"provide", "purge"}, nonce : 0 .. MAX_ATTEMPTS] \union {None}

TaskTypeOK ==
  /\ TypeOK
  /\ {lead, since, nap, backoff_attempts, purges_sent, purges_taken, retry_slots}
       \subseteq Nat
  /\ pc \in {"start", "gate", "choose", "send", "nap", "rearm", "wait", "stopped"}
  /\ attempts \in 0 .. MAX_ATTEMPTS
  /\ {first_legal_attempt_pending, expired, sent_early, use_backoff, woken,
      preflight}
       \subseteq BOOLEAN
  /\ {prepared, tx} \subseteq Transaction

\* "Past the TTL the prepared fulfilment is replaced by a purge" (processor.rs:335),
\* although the age is read twice, for the attempt and for its transaction. "Accepted
\* purge that may leave the item in place: back off" (processor.rs:371): purges_sent
\* counts every accepted purge but the one that expiry may slip in between the two
\* readings, so the back-off lags by one purge at most.
PurgesPastTTL ==
  /\ (pc = "send" /\ expired) => tx.kind = "purge"
  /\ purges_taken \in {purges_sent, purges_sent + 1}

\* The oracle gives a fulfilment up only for a purge that removes the request: unless
\* the host clock is ahead, the program's own rule (process_purge_expired_requests)
\* finds it expired when the purge is sent, also if it was built earlier.
PurgeFindsExpired ==
  (pc = "send" /\ tx.kind = "purge" /\ drift <= 0) => Expired(created_at, now)

\* The task ends whatever the answers are, also on the path that goes on without
\* counting an attempt: its reservation does not outlive it, and the next view
\* of the queue can start another.
TaskEnds == <>(pc = "stopped")

\* "deterministic callback address errors wait for expiry and purge"
\* (processor.rs:356).
WaitThenPurge == (pc = "send" /\ woken) => tx.kind = "purge"

=============================================================================
