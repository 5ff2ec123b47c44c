------------------------------ MODULE StampClock ------------------------------
(***************************************************************************)
(* One request, the cluster clock that stamps and purges it, and the host  *)
(* clock by which the oracle decides whether to fulfil or to purge it.     *)
(***************************************************************************)
EXTENDS CreatedAt

CONSTANTS
  Births,    \* cluster times at which the request may be made
  Steps,     \* seconds the cluster clock may move at once
  Drifts,    \* host clock minus cluster clock, in seconds
  MaxAge     \* bound on the request's true age

VARIABLES
  born,        \* cluster time at which the request was made (true age only)
  created_at,  \* the stamp stored in the QueueItem
  now,         \* Clock::unix_timestamp of the cluster
  drift        \* host time minus cluster time

vars == <<born, created_at, now, drift>>

host == now + drift

\* Births, Steps and Drifts are sets of whole seconds, and no host time is
\* negative.
ASSUME ClockAssumption ==
  /\ Births \subseteq Nat /\ Steps \subseteq Nat /\ MaxAge \in Nat
  /\ Drifts \subseteq Int
  /\ \A b \in Births, d \in Drifts : b + d >= 0

TypeOK ==
  /\ born \in Nat /\ now \in Nat
  /\ created_at \in 0 .. (Modulus - 1)
  /\ drift \in Int

Init ==
  /\ born \in Births
  /\ created_at = created_at_from(born)
  /\ now = born
  /\ drift \in Drifts

\* The cluster clock moves; the host clock moves with it.
Advance(step) ==
  /\ now + step - born <= MaxAge
  /\ now' = now + step
  /\ UNCHANGED <<born, created_at, drift>>

\* The host clock is stepped (NTP) anywhere within the allowed drift.
Resync(d) ==
  /\ drift' = d
  /\ UNCHANGED <<born, created_at, now>>

Next == \/ \E step \in Steps : Advance(step)
        \/ \E d \in Drifts : Resync(d)

Spec == Init /\ [][Next]_vars

-----------------------------------------------------------------------------
\* A purge removes no request younger than the TTL, whatever the position of
\* its creation inside a stamp unit and however often the stamp has wrapped.
PurgeNeverEarly == Expired(created_at, now) => now - born > TTL

\* "An item that old reads as fresh for one TTL per cycle" (queue.rs:46): past
\* the TTL plus one unit a request is purgeable, except in a window of that
\* length after each wrap of its stamp.
FreshOnlyAfterWrap ==
  LET age == now - born
  IN  (~Expired(created_at, now) /\ age >= TTL + Unit)
        => \/ (age % Cycle) < TTL + Unit
           \/ (age % Cycle) > Cycle - Unit

\* The oracle replaces a fulfilment by a purge only for a request older than
\* the TTL by its own clock, when that clock trails the cluster by no more
\* than CLOCK_SKEW_UNITS.
OracleNeverGivesUpEarly ==
  (drift >= -(SkewUnits * Unit) /\ OracleExpired(created_at, host))
    => host - born > TTL

=============================================================================
