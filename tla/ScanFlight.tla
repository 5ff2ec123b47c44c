------------------------------ MODULE ScanFlight ------------------------------
(***************************************************************************)
(* When the oracle client scans all queues (client.rs, run): every five    *)
(* seconds and after each (re)connection of the update source. Both paths  *)
(* share scan_lock; scan_queued keeps reconnections from piling up scans.  *)
(* What landed while the source was down is only seen by a later scan.     *)
(***************************************************************************)
EXTENDS Integers

CONSTANT MaxWaiting   \* bound on reconnect scans waiting for the lock

VARIABLES
  source,       \* "down", "connected" (before the swap) or "streaming"
  scan_queued,
  waiting,      \* reconnect scans spawned and waiting for scan_lock
  periodic,     \* the periodic loop: "tick", "waiting" or "scanning"
  holder,       \* who has scan_lock
  stage,        \* how far the holder is
  missed        \* history: a change that was not notified, and no scan has read:
                \* "no", "unread" or "failed", when no scan is left to read it

scan == <<source, scan_queued, waiting, periodic, holder, stage, missed>>

ScanInit ==
  /\ source = "down" /\ scan_queued = FALSE
  /\ waiting = 0 /\ periodic = "tick"
  /\ holder = "none" /\ stage = "idle"
  /\ missed = "no"

\* A queue changes on chain.
Change ==
  /\ missed' = IF source = "down" THEN "unread" ELSE missed
  /\ UNCHANGED <<source, scan_queued, waiting, periodic, holder, stage>>

\* create_update_source succeeds: from here on changes are notified.
Connect ==
  /\ source = "down"
  /\ source' = "connected"
  /\ UNCHANGED <<scan_queued, waiting, periodic, holder, stage, missed>>

\* A scan that is queued will read what an earlier one failed to read.
Renewed == IF missed = "failed" THEN "unread" ELSE missed

\* Fault: every reconnection spawns a scan.
QueueScan_always ==
  /\ source = "connected"
  /\ source' = "streaming"
  /\ scan_queued' = TRUE
  /\ waiting' = waiting + 1
  /\ waiting' <= MaxWaiting
  /\ missed' = Renewed
  /\ UNCHANGED <<periodic, holder, stage>>

\* scan_queued.swap(true): spawn a scan unless one is queued.
QueueScan ==
  /\ source = "connected"
  /\ source' = "streaming"
  /\ scan_queued' = TRUE
  /\ waiting' = IF scan_queued THEN waiting ELSE waiting + 1
  /\ waiting' <= MaxWaiting
  /\ missed' = Renewed
  /\ UNCHANGED <<periodic, holder, stage>>

\* The stream ends, and after a second the loop starts over.
Disconnect ==
  /\ source = "streaming"
  /\ source' = "down"
  /\ UNCHANGED <<scan_queued, waiting, periodic, holder, stage, missed>>

Tick ==
  /\ periodic = "tick"
  /\ periodic' = "waiting"
  /\ UNCHANGED <<source, scan_queued, waiting, holder, stage, missed>>

PeriodicLock ==
  /\ periodic = "waiting" /\ holder = "none"
  /\ periodic' = "scanning"
  /\ holder' = "periodic" /\ stage' = "fetch"
  /\ UNCHANGED <<source, scan_queued, waiting, missed>>

ReconnectLock ==
  /\ waiting > 0 /\ holder = "none"
  /\ waiting' = waiting - 1
  /\ holder' = "reconnect" /\ stage' = "locked"
  /\ UNCHANGED <<source, scan_queued, periodic, missed>>

\* Fault: the flag is not reset.
Dequeue_kept ==
  /\ holder = "reconnect" /\ stage = "locked"
  /\ stage' = "fetch"
  /\ UNCHANGED <<source, scan_queued, waiting, periodic, holder, missed>>

\* scan_queued.store(false), under the lock and before the scan.
Dequeue ==
  /\ holder = "reconnect" /\ stage = "locked"
  /\ scan_queued' = FALSE
  /\ stage' = "fetch"
  /\ UNCHANGED <<source, waiting, periodic, holder, missed>>

\* getProgramAccounts reads the bank.
Fetch ==
  /\ stage = "fetch"
  /\ stage' = "respond"
  /\ missed' = "no"
  /\ UNCHANGED <<source, scan_queued, waiting, periodic, holder>>

\* It fails, or its response has no slot. Nobody tries again before the next scan.
FetchFailed ==
  /\ stage = "fetch"
  /\ stage' = "respond"
  /\ missed' = IF missed = "unread" /\ waiting = 0 THEN "failed" ELSE missed
  /\ UNCHANGED <<source, scan_queued, waiting, periodic, holder>>

\* Fault: the lock outlives an iteration of the periodic loop.
Release_reconnect_only ==
  /\ stage = "respond"
  /\ holder = "reconnect"
  /\ holder' = "none" /\ stage' = "idle"
  /\ UNCHANGED <<source, scan_queued, waiting, periodic, missed>>

\* Fault: a reconnect scan keeps the lock.
Release_periodic_only ==
  /\ stage = "respond"
  /\ holder = "periodic"
  /\ holder' = "none" /\ stage' = "idle"
  /\ periodic' = "tick"
  /\ UNCHANGED <<source, scan_queued, waiting, missed>>

\* The response is applied to every queue, or the error logged.
Release ==
  /\ stage = "respond"
  /\ holder' = "none" /\ stage' = "idle"
  /\ periodic' = IF holder = "periodic" THEN "tick" ELSE periodic
  /\ UNCHANGED <<source, scan_queued, waiting, missed>>

ScanNext == \/ Change \/ Connect \/ QueueScan \/ Disconnect
        \/ Tick \/ PeriodicLock \/ ReconnectLock \/ Dequeue
        \/ Fetch \/ FetchFailed \/ Release

\* Tasks run, scans end (RPC calls time out) and do not fail for ever, and tokio's
\* Mutex serves its waiters in order. The periodic tick is left out: what needs
\* it says so.
ScanFairness ==
  /\ SF_scan(PeriodicLock) /\ SF_scan(ReconnectLock)
  /\ WF_scan(QueueScan) /\ WF_scan(Dequeue)
  /\ WF_scan(Fetch \/ FetchFailed) /\ SF_scan(Fetch) /\ WF_scan(Release)

ScanSpec == ScanInit /\ [][ScanNext]_scan /\ ScanFairness

-----------------------------------------------------------------------------
\* The types; in particular "At most one snapshot waits" (client.rs:406) for
\* the lock, however fast the source goes up and down.
ScanTypeOK ==
  /\ source \in {"down", "connected", "streaming"}
  /\ scan_queued \in BOOLEAN /\ missed \in {"no", "unread", "failed"}
  /\ waiting \in {0, 1}
  /\ periodic \in {"tick", "waiting", "scanning"}
  /\ <<holder, stage>> \in {<<"none", "idle">>, <<"periodic", "fetch">>,
       <<"periodic", "respond">>, <<"reconnect", "locked">>,
       <<"reconnect", "fetch">>, <<"reconnect", "respond">>}

\* "a pending one covers every later gap as well" (client.rs:407): while the
\* stream is up, what landed in a gap is still to be read by a scan that waits
\* or has not begun to read, until the last such scan has read it or failed.
GapCovered ==
  (source = "streaming" /\ missed = "unread") => (waiting > 0 \/ stage \in {"locked", "fetch"})

\* The scan that a reconnection asks for comes to read what landed in the gap, and
\* needs no periodic tick to do so. A scan that fails is not repeated, but nothing
\* is missed for good: the periodic scan reads it, as long as the interval keeps
\* ticking.
GapScanned ==
  /\ (source = "streaming" /\ missed = "unread") ~> (missed # "unread")
  /\ []<>(periodic = "waiting") => ((missed # "no") ~> (missed = "no"))

\* The periodic scan is not starved by reconnections.
PeriodicScans == (periodic = "waiting") ~> (periodic = "scanning")

=============================================================================
