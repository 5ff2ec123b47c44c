----------------------------- MODULE ClientProofs -----------------------------
(***************************************************************************)
(* Three parts of the oracle client that share no state, for every value   *)
(* of their constants: the scans with the delegation filter, the wait for  *)
(* a slot, and the task that answers a request, with the two rules that    *)
(* read the stamp of the request.                                          *)
(***************************************************************************)
EXTENDS FulfillTask, DelegationFilter, SlotTracker, CreatedAtProofs, WellFoundedInduction

-----------------------------------------------------------------------------
\* The scan lock, for any bound on waiting scans. The flag is up exactly while a scan
\* waits for the lock or has just taken it: so a reconnection that finds it up can rely
\* on a read still to come. Then the same with the views that scans bring, and the
\* delegation filter, for any set of queues.

FlagMeansPending ==
  /\ scan_queued <=> (waiting = 1 \/ stage = "locked")
  /\ stage = "locked" => waiting = 0

ScanInv == ScanTypeOK /\ FlagMeansPending /\ GapCovered

\* The invariant holds initially.
LEMMA InitScanInv == ScanInit => ScanInv
<1> SUFFICES ASSUME ScanInit PROVE ScanInv OBVIOUS
<1>1. ScanTypeOK BY Zenon DEF ScanInit, ScanTypeOK
<1>2. scan_queued = FALSE /\ missed = "no" /\ waiting = 0 /\ stage = "idle" BY DEF ScanInit
<1>3. FlagMeansPending /\ GapCovered BY <1>2 DEF FlagMeansPending, GapCovered
<1> QED BY <1>1, <1>3 DEF ScanInv

\* Every step keeps the invariant.
LEMMA NextScanInv == ScanInv /\ [ScanNext]_scan => ScanInv'
<1> SUFFICES ASSUME ScanInv, [ScanNext]_scan PROVE ScanInv' OBVIOUS
<1> USE DEF ScanInv, ScanTypeOK, FlagMeansPending, GapCovered
<1>1. CASE Change
  <2>1. missed' \in {"no", "unread", "failed"} BY <1>1, Zenon DEF Change
  <2>2. source = "streaming" => missed' = missed BY <1>1 DEF Change
  <2>3. UNCHANGED <<source, scan_queued, waiting, periodic, holder, stage>>
    BY <1>1 DEF Change
  <2> QED BY <2>1, <2>2, <2>3
<1>2. CASE Connect BY <1>2 DEF Connect
<1>3. CASE QueueScan
  <2>1. missed' \in {"no", "unread", "failed"} BY <1>3, Zenon DEF QueueScan, Renewed
  <2>2. /\ source' = "streaming" /\ scan_queued' = TRUE
        /\ waiting' = IF scan_queued THEN waiting ELSE waiting + 1
        /\ UNCHANGED <<periodic, holder, stage>>
    BY <1>3 DEF QueueScan
  <2>3. waiting' = 1 \/ (waiting' = 0 /\ stage = "locked") BY <2>2
  <2> QED BY <2>1, <2>2, <2>3
<1>4. CASE Disconnect BY <1>4 DEF Disconnect
<1>5. CASE Tick BY <1>5 DEF Tick
<1>6. CASE PeriodicLock BY <1>6 DEF PeriodicLock
<1>7. CASE ReconnectLock BY <1>7 DEF ReconnectLock
<1>8. CASE Dequeue
  <2>1. /\ waiting = 0 /\ waiting' = 0 /\ stage' = "fetch" /\ scan_queued' = FALSE
        /\ UNCHANGED <<source, periodic, holder, missed>> /\ holder = "reconnect"
    BY <1>8 DEF Dequeue
  <2>2. ScanTypeOK' BY <2>1, Zenon
  <2>3. FlagMeansPending'
    <3>1. ~scan_queued' /\ waiting' # 1 /\ stage' # "locked" BY <2>1
    <3> QED BY <3>1, Zenon
  <2>4. GapCovered' BY <2>1
  <2> QED BY <2>2, <2>3, <2>4
<1>9. CASE Fetch BY <1>9, Zenon DEF Fetch
<1>10. CASE FetchFailed
  <2>1. missed' \in {"no", "unread", "failed"} BY <1>10, Zenon DEF FetchFailed
  <2>2. waiting = 0 => missed' # "unread" BY <1>10 DEF FetchFailed
  <2>3. /\ stage = "fetch" /\ stage' = "respond"
        /\ UNCHANGED <<source, scan_queued, waiting, periodic, holder>>
    BY <1>10 DEF FetchFailed
  <2>4. GapCovered' /\ FlagMeansPending' BY <2>2, <2>3
  <2> QED BY <2>1, <2>3, <2>4, Zenon
<1>11. CASE Release BY <1>11 DEF Release
<1>12. CASE UNCHANGED scan BY <1>12 DEF scan
<1> QED
  BY <1>1, <1>2, <1>3, <1>4, <1>5, <1>6, <1>7, <1>8, <1>9, <1>10, <1>11, <1>12
  DEF ScanNext

\* At most one reconnect scan waits for scan_lock, whatever the source does.
THEOREM OneScanWaits == ScanSpec => []ScanTypeOK
<1>1. ScanInv => ScanTypeOK BY DEF ScanInv
<1> QED BY <1>1, InitScanInv, NextScanInv, PTL DEF ScanSpec

\* What landed while the source was down is still to be read by a scan, from the
\* moment the reconnection has queued one or found one queued (client.rs, run).
THEOREM GapCoveredThm == ScanSpec => []GapCovered
<1>1. ScanInv => GapCovered BY DEF ScanInv
<1> QED BY <1>1, InitScanInv, NextScanInv, PTL DEF ScanSpec

-----------------------------------------------------------------------------
\* With the views: should_process_queue.

\* The filter leaves the scans as they are.
LEMMA FilterStepsScan == [FilterNext]_all => [ScanNext]_scan
BY Zenon
DEF FilterNext, FetchAccounts, FetchFails, JoinAll, StreamEnds, Delegate, Lookup, Known, Ask,
    Told, Insert, Fail, all, ScanNext

\* Fairness apart, this is what FilterSpec says.
LEMMA FilterSafety == FilterSpec => FilterInit /\ [][FilterNext]_all
BY PTL DEF FilterSpec

\* At most one reconnect scan waits also while views are looked up and joined.
THEOREM OneScanWaitsFiltered == FilterSpec => []ScanTypeOK
<1>1. FilterInit => ScanInit BY DEF FilterInit
<1>2. ScanInv => ScanTypeOK BY DEF ScanInv
<1> QED BY <1>1, <1>2, FilterSafety, FilterStepsScan, InitScanInv, NextScanInv, PTL

\* A scan that waits or has not begun covers every gap, although a scan keeps the lock
\* until the last lookup of its views has ended (join_all).
THEOREM GapCoveredFiltered == FilterSpec => []GapCovered
<1>1. FilterInit => ScanInit BY DEF FilterInit
<1>2. ScanInv => GapCovered BY DEF ScanInv
<1> QED BY <1>1, <1>2, FilterSafety, FilterStepsScan, InitScanInv, NextScanInv, PTL

Call == {Idle} \union [pc : {"spawned", "asking"}, queue : Queue]
               \union [pc : {"told"}, queue : Queue, is_delegated : BOOLEAN]

\* A verdict in favour of a queue, cached or on its way, is one the node has given.
VerdictsConfirmed ==
  /\ call \in [View -> Call]
  /\ statuses \in [Queue -> SUBSET BOOLEAN]
  /\ \A q \in Queue : TRUE \in statuses[q] => q \in confirmed
  /\ \A v \in View : call[v].pc = "told" /\ call[v].is_delegated => call[v].queue \in confirmed

FilterInv == VerdictsConfirmed /\ OnlyDelegatedServed

\* Every step keeps verdicts confirmed and serves only on their strength.
LEMMA FilterStep == FilterInv /\ [FilterNext]_all => FilterInv'
<1> SUFFICES ASSUME FilterInv, [FilterNext]_all PROVE FilterInv' OBVIOUS
<1> USE DEF FilterInv, VerdictsConfirmed, OnlyDelegatedServed, Call, Idle, Finish
<1>1. CASE UNCHANGED filter BY <1>1, Zenon DEF filter
<1>2. CASE FetchAccounts BY <1>2, Zenon DEF FetchAccounts, View
<1>3. ASSUME NEW queue \in Queue, Delegate(queue) PROVE FilterInv' BY <1>3, Zenon DEF Delegate
<1>4. ASSUME NEW v \in View, NEW queue \in Queue, Known(v, queue) PROVE FilterInv'
  BY <1>4, Zenon DEF Known
<1>5. ASSUME NEW v \in View, NEW queue \in Queue, Ask(v, queue) PROVE FilterInv'
  BY <1>5, Zenon DEF Ask
<1>6. ASSUME NEW v \in View, Told(v) PROVE FilterInv'
  <2> DEFINE queue == call[v].queue
             told  == [pc |-> "told", queue |-> queue, is_delegated |-> queue \in delegated]
  <2>1. /\ call' = [call EXCEPT ![v] = told] /\ call[v].pc = "asking"
        /\ confirmed' = IF queue \in delegated THEN confirmed \union {queue} ELSE confirmed
        /\ UNCHANGED <<is_er, statuses, applied>>
    BY <1>6 DEF Told
  <2>2. queue \in Queue BY <2>1
  <2>3. told \in Call BY <2>2
  <2>4. call' \in [View -> Call]
    <3> HIDE DEF told, Call
    <3> QED BY <2>1, <2>3
  <2>5. confirmed \subseteq confirmed' BY <2>1
  <2>6. \A u \in View : call'[u] = IF u = v THEN told ELSE call[u] BY <2>1
  <2>7. told.is_delegated => queue \in confirmed' BY <2>1, Zenon
  <2>8. \A u \in View : call'[u].pc = "told" /\ call'[u].is_delegated
                          => call'[u].queue \in confirmed'
    BY <2>5, <2>6, <2>7
  <2> QED BY <2>1, <2>4, <2>5, <2>8, Zenon
<1>7. ASSUME NEW v \in View, Insert(v) PROVE FilterInv'
  <2> DEFINE queue == call[v].queue  verdict == call[v].is_delegated
  <2>1. /\ call[v].pc = "told" /\ call' = [call EXCEPT ![v] = Idle]
        /\ statuses' = [statuses EXCEPT ![queue] = {verdict}]
        /\ applied' = IF verdict THEN applied \union {queue} ELSE applied
        /\ UNCHANGED <<is_er, confirmed>>
    BY <1>7 DEF Insert
  <2>2. queue \in Queue /\ verdict \in BOOLEAN /\ (verdict => queue \in confirmed) BY <2>1
  <2>3. call' \in [View -> Call] BY <2>1
  <2>4. \A u \in View : call'[u] = IF u = v THEN Idle ELSE call[u] BY <2>1
  <2> HIDE DEF queue, verdict
  <2>5. /\ statuses' \in [Queue -> SUBSET BOOLEAN]
        /\ \A q \in Queue : statuses'[q] = IF q = queue THEN {verdict} ELSE statuses[q]
    BY <2>1, <2>2
  <2>6. \A q \in Queue : TRUE \in statuses'[q] => q \in confirmed'
    BY <2>1, <2>2, <2>5, Zenon
  <2>7. \A u \in View : call'[u].pc = "told" /\ call'[u].is_delegated
                          => call'[u].queue \in confirmed'
    BY <2>1, <2>4
  <2>8. OnlyDelegatedServed' BY <2>1, <2>2
  <2> QED BY <2>3, <2>5, <2>6, <2>7, <2>8, Zenon
<1>8. ASSUME NEW v \in View, Fail(v) PROVE FilterInv' BY <1>8, Zenon DEF Fail
<1> QED BY <1>1, <1>2, <1>3, <1>4, <1>5, <1>6, <1>7, <1>8, Zenon
        DEF FilterNext, FetchFails, JoinAll, StreamEnds, Lookup, all

\* A rollup's oracle acts only on queues of which the node has said that they are
\* delegated, with any number of queues and views and however lookups fail, overtake
\* each other or overwrite each other's verdicts (should_process_queue).
THEOREM OnlyDelegatedServedThm == FilterSpec => []OnlyDelegatedServed
<1>1. FilterInit => FilterInv
  BY DEF FilterInit, FilterInv, VerdictsConfirmed, OnlyDelegatedServed, Call, Idle
<1>2. FilterInv => OnlyDelegatedServed BY DEF FilterInv
<1> QED BY <1>1, <1>2, FilterSafety, FilterStep, PTL

-----------------------------------------------------------------------------
\* The wait for a slot, for every target, every threshold and any number of slots and
\* samples. The waiter and the update source share no lock, so the argument is about
\* what each leaves behind between its own two steps: an estimate changes only together
\* with publishing.how = "send_modify", and that is cleared only by a wake-up.

Timing == [last_boundary : [slot : Int, at : Int], slot_duration : Int, samples : Int,
           predictive_lead_bonus : Nat]

\* A slot_duration of 0 is read as None, which is right because no estimate is 0: it
\* is an average of samples, none of them below MIN_SLOT_SAMPLE.
Estimated ==
  /\ timing.last_boundary.at \in 0 .. instant
  /\ timing.samples \in 0 .. SamplesMax
  /\ timing.slot_duration \in Nat
  /\ timing.slot_duration = 0 <=> timing.samples = 0
  /\ timing.samples > 0 => timing.slot_duration >= MIN_SLOT_SAMPLE

Typed ==
  /\ instant \in Nat /\ head \in Nat /\ current \in Nat
  /\ timing \in Timing
  /\ publishing \in [slot : Nat, how : {"idle", "send_modify", "update"}]
  /\ waiter \in [pc : {"check", "window", "changed", "sleep", "done"}, early : BOOLEAN,
                 unseen : BOOLEAN, deadline : Int]

\* No average of two numbers at or above a threshold falls below it.
LEMMA AverageKeeps ==
  ASSUME NEW m \in Nat, NEW d \in Nat, NEW s \in Nat, d >= m, s >= m
  PROVE  (d * 3 + s) \div 4 \in Nat /\ (d * 3 + s) \div 4 >= m
OBVIOUS

\* Updating an estimate field by field keeps its type.
LEMMA TimingUpdate ==
  ASSUME NEW t \in Timing, NEW b \in [slot : Int, at : Int], NEW d \in Int, NEW n \in Int
  PROVE  [t EXCEPT !.slot_duration = d, !.samples = n, !.last_boundary = b] \in Timing
BY Zenon DEF Timing

\* A boundary moves the estimate to a value of the same kind.
LEMMA NewEstimateType ==
  ASSUME Typed, Estimated, NEW slot \in Nat, slot > timing.last_boundary.slot
  PROVE  LET t == NewEstimate(slot)
         IN  /\ t \in Timing /\ t.last_boundary = [slot |-> slot, at |-> instant]
             /\ t.samples \in 0 .. SamplesMax /\ t.slot_duration \in Nat
             /\ t.slot_duration = 0 <=> t.samples = 0
             /\ t.samples > 0 => t.slot_duration >= MIN_SLOT_SAMPLE
<1> DEFINE boundary == [slot |-> slot, at |-> instant]
<1> DEFINE sample == (instant - timing.last_boundary.at) \div (slot - timing.last_boundary.slot)
<1>1. /\ timing.last_boundary.at \in Int /\ timing.last_boundary.slot \in Int
      /\ timing.slot_duration \in Nat /\ timing.samples \in 0 .. SamplesMax
      /\ SamplesMax \in Nat \ {0} /\ MIN_SLOT_SAMPLE \in Nat \ {0} /\ instant \in Nat
  BY TrackerAssumption DEF Typed, Estimated, Timing
<1>2. sample \in Nat
  <2>1. instant - timing.last_boundary.at \in Nat /\ slot - timing.last_boundary.slot \in Nat \ {0}
    BY <1>1 DEF Estimated
  <2>2. \A a \in Nat, b \in Nat \ {0} : (a \div b) \in Nat OBVIOUS
  <2> QED BY <2>1, <2>2
<1> DEFINE next == IF timing.slot_duration = 0 THEN sample
                   ELSE (timing.slot_duration * 3 + sample) \div 4
<1>3. ASSUME sample >= MIN_SLOT_SAMPLE
      PROVE  next \in Nat /\ next >= MIN_SLOT_SAMPLE
  <2> HIDE DEF sample
  <2>1. CASE timing.slot_duration = 0 BY <1>2, <1>3, <2>1
  <2>2. CASE timing.slot_duration # 0
    BY <1>1, <1>2, <1>3, <2>2, AverageKeeps DEF Estimated
  <2> QED BY <2>1, <2>2
<1>4. boundary \in [slot : Int, at : Int] BY <1>1
<1>5. saturating_add(timing.samples) \in 1 .. SamplesMax
  BY <1>1 DEF saturating_add
<1>6. CASE sample >= MIN_SLOT_SAMPLE
  <2> DEFINE more == saturating_add(timing.samples)
             t    == [timing EXCEPT !.slot_duration = next, !.samples = more,
                                    !.last_boundary = boundary]
  <2>1. NewEstimate(slot) = t BY <1>6 DEF NewEstimate
  <2>2. next \in Nat /\ next >= MIN_SLOT_SAMPLE /\ more \in 1 .. SamplesMax
    BY <1>3, <1>5, <1>6, Zenon
  <2> HIDE DEF next, more
  <2>3. t \in Timing
    <3>1. timing \in Timing /\ next \in Int /\ more \in Int BY <1>1, <2>2 DEF Typed
    <3> HIDE DEF boundary, sample
    <3> QED BY <1>4, <3>1, TimingUpdate, Zenon
  <2>4. t.slot_duration = next /\ t.samples = more
        /\ t.last_boundary = [slot |-> slot, at |-> instant]
    BY DEF Typed, Timing
  <2> QED BY <1>1, <2>1, <2>2, <2>3, <2>4
<1>7. CASE ~(sample >= MIN_SLOT_SAMPLE)
  <2> DEFINE t == [timing EXCEPT !.slot_duration = 0, !.samples = 0,
                                 !.last_boundary = boundary]
  <2>1. NewEstimate(slot) = t BY <1>7 DEF NewEstimate
  <2>2. t \in Timing
    <3>1. timing \in Timing BY Zenon DEF Typed
    <3>2. \A n \in Int : [timing EXCEPT !.slot_duration = n, !.samples = n,
                                        !.last_boundary = boundary] \in Timing
      <4> HIDE DEF boundary, sample
      <4> QED BY <1>4, <3>1, TimingUpdate, Zenon
    <3>3. 0 \in Int OBVIOUS
    <3> QED BY <3>2, <3>3, Zenon
  <2>3. t.slot_duration = 0 /\ t.samples = 0
        /\ t.last_boundary = [slot |-> slot, at |-> instant]
    BY DEF Typed, Timing
  <2> QED BY <1>1, <2>1, <2>2, <2>3
<1> QED BY <1>6, <1>7

\* The types and the estimate hold initially.
LEMMA InitTyped == TrackerInit => Typed /\ Estimated
<1> SUFFICES ASSUME TrackerInit PROVE Typed /\ Estimated OBVIOUS
<1>1. /\ timing.last_boundary = NoBoundary /\ timing.slot_duration = 0 /\ timing.samples = 0
      /\ timing \in Timing /\ instant = 0
  BY TrackerAssumption DEF TrackerInit, Timing, NoBoundary
<1>2. Estimated BY <1>1, TrackerAssumption DEF Estimated, NoBoundary
<1>3. waiter \in [pc : {"check", "window", "changed", "sleep", "done"}, early : BOOLEAN,
                  unseen : BOOLEAN, deadline : Int]
  <2>1. PICK e \in BOOLEAN :
          waiter = [pc |-> "check", early |-> e, unseen |-> FALSE, deadline |-> 0]
    BY Zenon DEF TrackerInit
  <2> QED BY <2>1
<1> QED BY <1>1, <1>2, <1>3 DEF TrackerInit, Typed, Nothing

\* A window begins at a whole number.
LEMMA WindowType ==
  ASSUME Typed PROVE early_window(Target) # NoWindow => early_window(Target)[1] \in Int
<1> DEFINE t         == timing
           predicted == t.last_boundary.at + t.slot_duration * (Target - t.last_boundary.slot)
           slack     == early_send_lead(t.slot_duration)
           predictive_lead ==
             slack + IF t.slot_duration >= NON_ER_MIN_SLOT_DURATION
                      THEN t.predictive_lead_bonus ELSE 0
<1>1. predicted \in Int
  <2>1. /\ t.last_boundary.at \in Int /\ t.slot_duration \in Int
        /\ Target - t.last_boundary.slot \in Int
    BY TrackerAssumption DEF Typed, Timing
  <2>2. \A a, b, c \in Int : a + b * c \in Int OBVIOUS
  <2> QED BY <2>1, <2>2
<1>2. slack \in Int
  <2>1. t.slot_duration \in Int BY DEF Typed, Timing
  <2>2. \A a \in Int, b \in Nat \ {0} : (a \div b) \in Int OBVIOUS
  <2> QED BY <2>1, <2>2, TrackerAssumption DEF early_send_lead
<1>3. predictive_lead \in Int
  <2> HIDE DEF slack
  <2> QED BY <1>2 DEF Typed, Timing
<1>4. early_window(Target) \in {NoWindow, <<predicted - predictive_lead, predicted + slack>>}
  BY DEF early_window
<1> HIDE DEF predicted, predictive_lead, slack
<1> QED BY <1>1, <1>2, <1>3, <1>4 DEF NoWindow

\* Every step keeps them.
LEMMA NextTyped == Typed /\ Estimated /\ [TrackerNext]_tracker => Typed' /\ Estimated'
<1> SUFFICES ASSUME Typed, Estimated, [TrackerNext]_tracker PROVE Typed' /\ Estimated' OBVIOUS
<1>1. CASE NextSlot BY <1>1 DEF NextSlot, Typed, Estimated
<1>2. CASE Elapse BY <1>2 DEF Elapse, Typed, Estimated
<1>3. CASE PublishSlot BY <1>3, Zenon DEF PublishSlot, Send, Nothing, Typed, Estimated
<1>4. CASE Check BY <1>4, Zenon DEF Check, Typed, Estimated
<1>5. CASE ReadWindow
  <2> DEFINE window == early_window(Target)
  <2>1. window # NoWindow => window[1] \in Int BY WindowType
  <2>2. waiter' \in {[waiter EXCEPT !.pc = "changed"],
                     [waiter EXCEPT !.pc = "sleep", !.deadline = window[1]]}
        /\ (window = NoWindow => waiter' = [waiter EXCEPT !.pc = "changed"])
        /\ UNCHANGED <<instant, head, current, timing, publishing>>
    BY <1>5 DEF ReadWindow
  <2> HIDE DEF window
  <2> QED BY <2>1, <2>2, Zenon DEF Typed, Estimated
<1>6. CASE GoEarly BY <1>6 DEF GoEarly, Typed, Estimated
<1>7. CASE Changed BY <1>7 DEF Changed, Typed, Estimated
<1>8. ASSUME NEW slot \in 1 .. head, Update(slot) PROVE Typed' /\ Estimated'
  <2>1. slot \in Nat /\ current' = slot /\ waiter' = [waiter EXCEPT !.unseen = TRUE]
        /\ UNCHANGED <<instant, head, timing, publishing>>
    BY <1>8 DEF Update, Send, Typed
  <2> QED BY <2>1, Zenon DEF Typed, Estimated
<1>9. ASSUME NEW slot \in 1 .. head, ObserveSlot(slot) PROVE Typed' /\ Estimated'
  <2>1. slot \in Nat /\ UNCHANGED <<instant, head, current, waiter>>
    BY <1>9 DEF ObserveSlot, Typed
  <2>2. publishing' \in [slot : Nat, how : {"idle", "send_modify", "update"}]
    BY <1>9, <2>1 DEF ObserveSlot
  <2>3. CASE UNCHANGED timing BY <2>1, <2>2, <2>3 DEF Typed, Estimated
  <2>4. CASE timing' = [timing EXCEPT !.last_boundary = [slot |-> slot, at |-> instant]]
    BY <2>1, <2>2, <2>4 DEF Typed, Estimated, Timing
  <2>5. CASE slot > timing.last_boundary.slot /\ timing' = NewEstimate(slot)
    <3> DEFINE t == NewEstimate(slot)
    <3>1. /\ t \in Timing /\ t.last_boundary = [slot |-> slot, at |-> instant]
          /\ t.samples \in 0 .. SamplesMax /\ t.slot_duration \in Nat
          /\ t.slot_duration = 0 <=> t.samples = 0
          /\ t.samples > 0 => t.slot_duration >= MIN_SLOT_SAMPLE
      BY <2>1, <2>5, NewEstimateType
    <3>2. timing' = t BY <2>5
    <3> HIDE DEF t
    <3> QED BY <2>1, <2>2, <3>1, <3>2 DEF Typed, Estimated
  <2> QED BY <1>9, <2>3, <2>4, <2>5 DEF ObserveSlot
<1>10. CASE UNCHANGED tracker BY <1>10 DEF tracker, Typed, Estimated
<1> QED
  BY <1>1, <1>2, <1>3, <1>4, <1>5, <1>6, <1>7, <1>8, <1>9, <1>10 DEF TrackerNext

\* Every step keeps a sleeping task on the present estimate or wakes it.
LEMMA NextSleeps ==
  Typed /\ SleepsOnCurrentEstimate /\ [TrackerNext]_tracker => SleepsOnCurrentEstimate'
<1> SUFFICES ASSUME Typed, SleepsOnCurrentEstimate, [TrackerNext]_tracker,
                    waiter'.pc = "sleep", ~waiter'.unseen, publishing'.how # "send_modify"
             PROVE  /\ early_window(Target)' # NoWindow
                    /\ waiter'.deadline = early_window(Target)'[1]
  BY DEF SleepsOnCurrentEstimate, NoWindow
<1>1. ASSUME UNCHANGED timing PROVE early_window(Target)' = early_window(Target)
  BY <1>1 DEF early_window, early_send_lead
<1>2. ASSUME UNCHANGED <<timing, waiter>>, publishing.how # "send_modify"
      PROVE  /\ early_window(Target)' # NoWindow
             /\ waiter'.deadline = early_window(Target)'[1]
  BY <1>1, <1>2 DEF SleepsOnCurrentEstimate
<1>3. CASE NextSlot \/ Elapse \/ UNCHANGED tracker
  BY <1>2, <1>3 DEF NextSlot, Elapse, tracker
<1>4. CASE PublishSlot
  <2>1. UNCHANGED waiter \/ waiter' = [waiter EXCEPT !.unseen = TRUE]
    BY <1>4 DEF PublishSlot, Send
  <2>2. UNCHANGED waiter BY <2>1 DEF Typed
  <2>3. publishing.how # "send_modify"
    <3>1. waiter' # [waiter EXCEPT !.unseen = TRUE] BY DEF Typed
    <3> QED BY <1>4, <3>1 DEF PublishSlot, Send
  <2> QED BY <1>2, <1>4, <2>2, <2>3 DEF PublishSlot
<1>5. CASE Check \/ GoEarly \/ Changed
  BY <1>5, Zenon DEF Check, GoEarly, Changed, Typed
<1>6. CASE ReadWindow
  <2>1. UNCHANGED timing BY <1>6 DEF ReadWindow
  <2> DEFINE window == early_window(Target)
  <2>2. waiter' = IF window = NoWindow \/ instant > window[2]
                    THEN [waiter EXCEPT !.pc = "changed"]
                    ELSE [waiter EXCEPT !.pc = "sleep", !.deadline = window[1]]
    BY <1>6 DEF ReadWindow
  <2> HIDE DEF window
  <2>3. window # NoWindow /\ waiter'.deadline = window[1] BY <2>2 DEF Typed
  <2> QED BY <1>1, <2>1, <2>3 DEF window
<1>7. ASSUME NEW slot \in 1 .. head, Update(slot) PROVE FALSE
  BY <1>7 DEF Update, Send, Typed
<1>8. ASSUME NEW slot \in 1 .. head, ObserveSlot(slot)
      PROVE  UNCHANGED <<timing, waiter>> /\ publishing.how # "send_modify"
  BY <1>8 DEF ObserveSlot
<1> QED BY <1>2, <1>3, <1>4, <1>5, <1>6, <1>7, <1>8 DEF TrackerNext

\* No behaviour leaves the types, and no task asleep is forgotten.
LEMMA TrackerInvariant == TrackerSpec => [](Typed /\ Estimated /\ SleepsOnCurrentEstimate)
<1>1. TrackerInit => SleepsOnCurrentEstimate BY DEF TrackerInit, SleepsOnCurrentEstimate
<1> QED BY <1>1, InitTyped, NextTyped, NextSleeps, PTL DEF TrackerSpec

\* The estimate is absent exactly while there are no samples, never counts past the
\* u8 that holds them and is never below the shortest sample taken, so that 0 may
\* stand for NoBoundary and no prediction lies before the boundary (SlotTiming).
THEOREM EstimateGenuine == TrackerSpec => []Estimated
BY TrackerInvariant, PTL

\* wait_for_slot_early never sleeps on an estimate that observe_slot_at has replaced
\* without a wake-up under way, whatever the order in which they take the two locks.
THEOREM SleepsOnCurrentEstimateThm == TrackerSpec => []SleepsOnCurrentEstimate
BY TrackerInvariant, PTL

\* A task that goes ahead of its slot does so on MIN_SLOT_SAMPLES samples, or beats
\* the wake-up that would have told it they are lost (wait_for_slot_early).
THEOREM EarlyOnlyOnEvidenceThm == TrackerSpec => EarlyOnlyOnEvidence
<1> DEFINE Evidence == waiter.pc = "sleep" /\ waiter'.pc = "done"
                         => \/ timing.samples >= MIN_SLOT_SAMPLES
                            \/ waiter.unseen \/ publishing.how = "send_modify"
<1>1. Typed /\ SleepsOnCurrentEstimate => Evidence
  <2> SUFFICES ASSUME Typed, SleepsOnCurrentEstimate, waiter.pc = "sleep",
                      ~waiter.unseen, publishing.how # "send_modify"
               PROVE  timing.samples >= MIN_SLOT_SAMPLES
    OBVIOUS
  <2>1. early_window(Target) # NoWindow BY DEF SleepsOnCurrentEstimate
  <2>2. ~(timing.samples < MIN_SLOT_SAMPLES) BY <2>1 DEF early_window
  <2> QED BY <2>2, TrackerAssumption DEF Typed, Timing
<1> QED BY <1>1, TrackerInvariant, PTL DEF EarlyOnlyOnEvidence

-----------------------------------------------------------------------------
\* The stamp of a request, for every unit, modulus, TTL, skew and clock (StampClock),
\* and what follows for the task that answers it (FulfillTask).

Stamped ==
  /\ TypeOK
  /\ created_at = created_at_from(born) /\ born <= now /\ now + drift >= 0

\* The stamp stays that of the birth, and neither clock runs back before it.
LEMMA StampedAlways == Spec => [](Stamped /\ drift \in Drifts /\ born \in Births)
<1> DEFINE I == Stamped /\ drift \in Drifts /\ born \in Births
<1>1. Init => I
  <2> SUFFICES ASSUME Init PROVE I OBVIOUS
  <2>1. born \in Nat /\ drift \in Int BY ClockAssumption DEF Init
  <2>2. created_at_from(born) \in 0 .. (Modulus - 1)
    BY <2>1, DivMod, ModRange DEF created_at_from
  <2> QED BY <2>1, <2>2, ClockAssumption DEF Init, Stamped, TypeOK
<1>2. I /\ [Next]_vars => I'
  <2> SUFFICES ASSUME I, [Next]_vars PROVE I' OBVIOUS
  <2>0. /\ \A s \in Steps : s \in Nat /\ \A d \in Drifts : d \in Int
        /\ \A d \in Drifts : born + d >= 0
    BY ClockAssumption
  <2>1. ASSUME NEW step \in Steps, Advance(step) PROVE I'
    <3>1. step \in Nat /\ now' = now + step /\ UNCHANGED <<born, created_at, drift>>
      BY <2>0, <2>1 DEF Advance
    <3> QED BY <3>1 DEF Stamped, TypeOK
  <2>2. ASSUME NEW d \in Drifts, Resync(d) PROVE I'
    <3>1. d \in Int /\ drift' = d /\ born + d >= 0 /\ UNCHANGED <<born, created_at, now>>
      BY <2>2, ClockAssumption DEF Resync
    <3> QED BY <3>1 DEF Stamped, TypeOK
  <2>3. CASE UNCHANGED vars BY <2>3 DEF vars, Stamped, TypeOK
  <2> QED BY <2>1, <2>2, <2>3 DEF Next
<1> QED BY <1>1, <1>2, PTL DEF Spec

\* process_purge_expired_requests removes no request within its TTL.
THEOREM PurgeNeverEarlyAlways == Spec => []PurgeNeverEarly
<1>1. Stamped => PurgeNeverEarly
  BY PurgeNeverEarlyThm DEF Stamped, TypeOK, PurgeNeverEarly
<1> QED BY <1>1, StampedAlways, PTL

\* "An item that old reads as fresh for one TTL per cycle" (queue.rs:46), and at no other
\* time.
THEOREM FreshOnlyAfterWrapAlways == Spec => []FreshOnlyAfterWrap
<1>1. Stamped => FreshOnlyAfterWrap
  BY FreshOnlyAfterWrapThm DEF Stamped, TypeOK, FreshOnlyAfterWrap
<1> QED BY <1>1, StampedAlways, PTL

\* A host clock that trails by no more than CLOCK_SKEW_UNITS reads no request within its
\* TTL as expired.
LEMMA StampedGivesUpLate == Stamped => OracleNeverGivesUpEarly
<1> SUFFICES ASSUME Stamped, drift >= -(SkewUnits * Unit),
                    OracleExpired(created_at, host)
             PROVE  host - born > TTL
  BY DEF OracleNeverGivesUpEarly
<1>1. host \in Nat /\ born \in Nat /\ now \in Nat /\ drift \in Int
  BY DEF Stamped, TypeOK, host
<1>2. CASE born <= host
  <2>1. Expired(created_at_from(born), host)
    BY StampAssumption DEF Stamped, OracleExpired, oracle_age_secs, Expired
  <2> HIDE DEF host
  <2> QED BY <1>1, <1>2, <2>1, PurgeNeverEarlyThm
<1>3. CASE host < born
  <2>1. born - host <= SkewUnits * Unit
    BY <1>1, StampAssumption DEF Stamped, host
  <2>2. oracle_age_secs(created_at, host) = 0
    BY <1>1, <1>3, <2>1, SkewReadsZero DEF Stamped
  <2> QED BY <2>2, StampAssumption DEF OracleExpired
<1> QED BY <1>1, <1>2, <1>3

\* The oracle's age_secs sends no purge within the TTL as long as the host clock
\* trails the cluster by at most CLOCK_SKEW_UNITS.
THEOREM OracleNeverGivesUpEarlyAlways == Spec => []OracleNeverGivesUpEarly
BY StampedGivesUpLate, StampedAlways, PTL

-----------------------------------------------------------------------------
\* The delays of the task are whole numbers of slots.

\* A set of natural numbers has a least member.
LEMMA LeastElement ==
  ASSUME NEW T, T \subseteq Nat, T # {}
  PROVE  \E m \in T : \A k \in T : m <= k
<1> DEFINE R == OpToRel(<, Nat)
<1>1. \E m \in T : \A k \in T : ~(<<k, m>> \in R)
  <2>1. IsWellFoundedOn(R, Nat) BY NatLessThanWellFounded
  <2> HIDE DEF R
  <2> QED BY <2>1, WFMin, Zenon
<1>2. \A k, m \in T : ~(<<k, m>> \in R) => m <= k
  BY DEF OpToRel
<1> HIDE DEF R
<1> QED BY <1>1, <1>2, Zenon

\* The larger and the smaller of two numbers.
LEMMA PairMax == \A a, b \in Int : Max({a, b}) = IF a >= b THEN a ELSE b
<1> TAKE a, b \in Int
<1> DEFINE m == IF a >= b THEN a ELSE b
<1>1. m \in {a, b} /\ \A y \in {a, b} : m >= y OBVIOUS
<1>2. \A x \in {a, b} : (\A y \in {a, b} : x >= y) => x = m OBVIOUS
<1> QED BY <1>1, <1>2 DEF Max

\* The smaller of two numbers.
LEMMA PairMin == \A a, b \in Int : Min({a, b}) = IF a <= b THEN a ELSE b
<1> TAKE a, b \in Int
<1> DEFINE m == IF a <= b THEN a ELSE b
<1>1. m \in {a, b} /\ \A y \in {a, b} : m <= y OBVIOUS
<1>2. \A x \in {a, b} : (\A y \in {a, b} : x <= y) => x = m OBVIOUS
<1> QED BY <1>1, <1>2 DEF Min

\* Repeated doubling is defined up to any number of shifts ...
LEMMA ShiftExists ==
  \A n \in Nat : \E f : f = [i \in 0 .. n |-> IF i = 0 THEN 1 ELSE 2 * f[i - 1]]
<1> DEFINE Table(f, n) == f = [i \in 0 .. n |-> IF i = 0 THEN 1 ELSE 2 * f[i - 1]]
           T == {n \in Nat : ~ \E f : Table(f, n)}
<1> SUFFICES ASSUME T # {} PROVE FALSE BY Zenon
<1>1. PICK m \in T : \A k \in T : m <= k BY LeastElement, Zenon
<1>2. CASE m = 0
  <2>1. Table([i \in 0 .. 0 |-> 1], 0) OBVIOUS
  <2> QED BY <1>2, <2>1, Zenon
<1>3. CASE m # 0
  <2>1. m \in Nat /\ m - 1 \in Nat BY <1>3
  <2>2. ~(m - 1 \in T)
    <3> HIDE DEF T
    <3> QED BY <1>1, <2>1
  <2>3. PICK f : Table(f, m - 1) BY <2>1, <2>2
  <2> DEFINE g == [i \in 0 .. m |-> IF i = m THEN 2 * f[m - 1] ELSE f[i]]
  <2>4. ASSUME NEW i \in 0 .. m
        PROVE  g[i] = IF i = 0 THEN 1 ELSE 2 * g[i - 1]
    <3>1. CASE i = 0 BY <1>3, <2>1, <2>3, <3>1
    <3>2. CASE i # 0 /\ i # m BY <2>1, <2>3, <3>2
    <3>3. CASE i = m BY <1>3, <2>1, <3>3
    <3> QED BY <3>1, <3>2, <3>3
  <2>5. Table(g, m) BY <2>4
  <2> QED BY <2>1, <2>5, Zenon
<1> QED BY <1>2, <1>3

\* ... and gives positive numbers.
LEMMA ShiftType == ShiftMax \in Nat /\ \A n \in 0 .. ShiftMax : shl[n] \in Nat
<1>1. ShiftMax \in Nat BY PairMax, TaskAssumption DEF ShiftMax
<1>2. shl = [i \in 0 .. ShiftMax |-> IF i = 0 THEN 1 ELSE 2 * shl[i - 1]]
  BY <1>1, ShiftExists, Zenon DEF shl
<1> DEFINE T == {n \in 0 .. ShiftMax : ~(shl[n] \in Nat)}
<1>3. ASSUME T # {} PROVE FALSE
  <2>0. T \subseteq Nat BY <1>1
  <2>1. PICK m \in T : \A k \in T : m <= k
    <3> HIDE DEF T
    <3> QED BY <1>3, <2>0, LeastElement, Zenon
  <2>2. m \in 0 .. ShiftMax /\ shl[m] = IF m = 0 THEN 1 ELSE 2 * shl[m - 1] BY <1>2, Zenon
  <2>3. m # 0 => shl[m - 1] \in Nat BY <1>1, <2>1, <2>2
  <2> QED BY <2>2, <2>3
<1> QED BY <1>1, <1>3

\* The delays the task computes are numbers.
LEMMA DelayTypes ==
  ASSUME backoff_attempts \in Nat
  PROVE  /\ MaxDelay \in Nat
         /\ \A p \in Nat : purge_delay(p) \in Nat
         /\ \A b \in BOOLEAN : error_delay(b) \in Nat
<1>1. ShiftMax \in Nat /\ PURGE_SHIFT_MAX \in 0 .. ShiftMax /\ BACKOFF_SHIFT_MAX \in 0 .. ShiftMax
  BY PairMax, TaskAssumption DEF ShiftMax
<1>2. MaxDelay \in Nat
  <2>1. shl[BACKOFF_SHIFT_MAX] \in Nat BY <1>1, ShiftType
  <2> QED BY <2>1, PairMax, TaskAssumption DEF MaxDelay
<1>3. ASSUME NEW p \in Nat PROVE purge_delay(p) \in Nat
  <2>1. Min({p, PURGE_SHIFT_MAX}) \in 0 .. ShiftMax BY <1>1, PairMin
  <2>2. shl[Min({p, PURGE_SHIFT_MAX})] \in Nat BY <2>1, ShiftType
  <2> QED BY <2>2, PairMin, TaskAssumption DEF purge_delay
<1>4. ASSUME NEW b \in BOOLEAN PROVE error_delay(b) \in Nat
  <2>1. Min({backoff_attempts, BACKOFF_SHIFT_MAX}) \in 0 .. ShiftMax BY <1>1, PairMin
  <2>2. shl[Min({backoff_attempts, BACKOFF_SHIFT_MAX})] \in Nat BY <2>1, ShiftType
  <2> QED BY <2>2 DEF error_delay
<1> QED BY <1>2, <1>3, <1>4

-----------------------------------------------------------------------------
\* The task. Its request keeps its stamp, neither clock runs backwards, and no stamp comes
\* round again; a purge at hand or sent was justified when it was built.

Aged == Stamped /\ drift \in Drifts /\ born \in Births /\ now - born <= MaxAge

Justified ==
  \A t \in {prepared, tx} : t.kind = "purge" => OracleExpired(created_at, host)

Counted ==
  pc \in {"choose", "send", "nap", "rearm", "wait"} => attempts < MAX_ATTEMPTS

\* An attempt that begins past the TTL sends a purge; the one that may go uncounted is
\* that of the last attempt to begin before.
Tallied ==
  /\ PurgesPastTTL
  /\ purges_taken # purges_sent => OracleExpired(created_at, host)
  /\ pc \in {"choose", "send"} =>
       IF expired THEN OracleExpired(created_at, host) ELSE purges_taken = purges_sent

TaskInv == TaskTypeOK /\ Aged /\ Counted /\ Justified /\ Tallied

\* The invariant of the task holds when it is spawned.
LEMMA TaskStarts == TaskInit => TaskInv
<1> SUFFICES ASSUME TaskInit PROVE TaskInv OBVIOUS
<1>1. PICK d \in Delays : now = born + d BY DEF TaskInit
<1>2. born \in Nat /\ d \in Nat /\ d <= MaxAge /\ drift \in Int /\ born + drift >= 0
      /\ MaxAge \in Nat
  BY ClockAssumption, TaskAssumption DEF TaskInit
<1>3. Aged
  <2>1. created_at_from(born) \in 0 .. (Modulus - 1)
    BY <1>2, DivMod, ModRange DEF created_at_from
  <2> QED BY <1>1, <1>2, <2>1 DEF TaskInit, Aged, Stamped, TypeOK
<1>4. TaskTypeOK
  <2>1. lead \in Nat BY TaskAssumption DEF TaskInit
  <2>2. TypeOK BY <1>3 DEF Aged, Stamped
  <2>3. {prepared, tx} \subseteq Transaction BY DEF TaskInit, Transaction
  <2>4. attempts \in 0 .. MAX_ATTEMPTS BY TaskAssumption DEF TaskInit
  <2>5. {first_legal_attempt_pending, expired, sent_early, use_backoff, woken, preflight}
          \subseteq BOOLEAN
    BY Zenon DEF TaskInit
  <2> QED BY <2>1, <2>2, <2>3, <2>4, <2>5, SMTT(30) DEF TaskInit, TaskTypeOK
<1>5. Counted /\ Justified BY DEF TaskInit, Counted, Justified, None
<1>6. Tallied BY DEF TaskInit, Tallied, PurgesPastTTL
<1> QED BY <1>3, <1>4, <1>5, <1>6 DEF TaskInv

\* Only the passing of a second moves the clocks.
LEMMA TimeMoves == [TaskNext]_task => Advance(1) \/ UNCHANGED vars
BY Zenon DEF TaskNext, task, clock, Slot, Second, Step, Start, Gate, Exhausted, Choose, Reply,
       NotFound, AddressError, Accepted, DifferentSlot, SendError, Answer, Wake, Rearm,
       Retry

\* Every step of the task keeps the stamp that of the birth.
LEMMA AgedStep == Aged /\ [TaskNext]_task => Aged'
<1> SUFFICES ASSUME Aged, [TaskNext]_task PROVE Aged' OBVIOUS
<1>1. CASE Advance(1)
  BY <1>1, ClockAssumption DEF Advance, Aged, Stamped, TypeOK
<1>2. CASE UNCHANGED vars
  BY <1>2 DEF vars, Aged, Stamped, TypeOK
<1> QED BY <1>1, <1>2, TimeMoves

\* A request that prepare_transaction found expired is expired for the rest of the task.
LEMMA ExpiryStays ==
  ASSUME Aged, [TaskNext]_task, OracleExpired(created_at, host)
  PROVE  OracleExpired(created_at, host)'
<1>1. CASE UNCHANGED vars
  BY <1>1 DEF vars, host, OracleExpired, oracle_age_secs
<1>2. CASE Advance(1)
  <2>1. now' = now + 1 /\ drift' = drift /\ created_at' = created_at /\ born' = born
        /\ now + 1 - born <= MaxAge
    BY <1>2 DEF Advance
  <2>2. /\ born \in Nat /\ now \in Nat /\ drift \in Int /\ born <= now /\ MaxAge \in Nat
        /\ now + drift >= 0 /\ created_at = created_at_from(born)
    BY ClockAssumption DEF Aged, Stamped, TypeOK
  <2>3. /\ drift >= -(SkewUnits * Unit)
        /\ MaxAge + drift + (SkewUnits + 1) * Unit <= Cycle
    BY LifeAssumption DEF Aged
  <2>4. /\ SkewUnits * Unit \in Nat /\ (SkewUnits + 1) * Unit \in Nat /\ Cycle \in Nat
    BY StampAssumption DEF Cycle
  <2> DEFINE h == now + drift
             g == now + 1 + drift
  <2>5. /\ h \in Nat /\ g \in Nat /\ h <= g /\ born - h <= SkewUnits * Unit
        /\ g - born + (SkewUnits + 1) * Unit <= Cycle
    BY <2>1, <2>2, <2>3, <2>4
  <2>6. host = h /\ host' = g BY <2>1 DEF host
  <2>7. OracleExpired(created_at_from(born), h) BY <2>2, <2>6
  <2> HIDE DEF h, g
  <2>8. OracleExpired(created_at_from(born), g) BY <2>2, <2>5, <2>7, ExpiredStays
  <2>9. created_at' = created_at_from(born) BY <2>1, <2>2
  <2> QED BY <2>6, <2>8, <2>9 DEF OracleExpired, oracle_age_secs
<1> QED BY <1>1, <1>2, TimeMoves

\* What prepare_transaction builds.
LEMMA Prepared ==
  ASSUME NEW n \in 0 .. MAX_ATTEMPTS
  PROVE  /\ prepare_transaction(n) \in Transaction
         /\ prepare_transaction(n).kind = "purge" <=> OracleExpired(created_at, host)
BY DEF prepare_transaction, Transaction

\* Every step of the task keeps a purge justified by the age of the request.
LEMMA JustifiedStep == TaskInv /\ [TaskNext]_task => Justified'
<1> SUFFICES ASSUME TaskInv, [TaskNext]_task PROVE Justified' OBVIOUS
<1>1. OracleExpired(created_at, host) => OracleExpired(created_at, host)'
  BY ExpiryStays DEF TaskInv
<1>2. attempts \in 0 .. MAX_ATTEMPTS /\ MAX_ATTEMPTS \in Nat
  BY TaskAssumption DEF TaskInv, TaskTypeOK
<1>3. /\ prepared.kind = "purge" => OracleExpired(created_at, host)
      /\ tx.kind = "purge" => OracleExpired(created_at, host)
  BY DEF TaskInv, Justified
<1>4. SUFFICES /\ prepared'.kind = "purge" => OracleExpired(created_at, host)
               /\ tx'.kind = "purge" => OracleExpired(created_at, host)
  BY <1>1 DEF Justified
<1> HIDE DEF TaskInv
<1>5. prepare_transaction(attempts).kind = "purge" => OracleExpired(created_at, host)
  BY <1>2, Prepared
<1>6. CASE Start BY <1>3, <1>5, <1>6 DEF Start
<1>7. CASE Choose BY <1>3, <1>5, <1>7 DEF Choose, None
<1>8. CASE Rearm
  <2>1. attempts + 1 \in 0 .. MAX_ATTEMPTS BY <1>2, <1>8 DEF Rearm, TaskInv, Counted
  <2>2. prepare_transaction(attempts + 1).kind = "purge" => OracleExpired(created_at, host)
    BY <2>1, Prepared
  <2> QED BY <1>3, <1>8, <2>2 DEF Rearm
<1>9. CASE UNCHANGED <<prepared, tx>> BY <1>3, <1>9, Zenon
<1>10. Start \/ Choose \/ Rearm \/ UNCHANGED <<prepared, tx>>
  BY Zenon DEF TaskNext, task, Slot, Second, Step, Gate, Exhausted, Reply, NotFound,
         AddressError, Accepted, DifferentSlot, SendError, Answer, Wake, Retry
<1> QED BY <1>6, <1>7, <1>8, <1>9, <1>10

\* Every step of the task sends purges past the TTL and counts them all but one.
LEMMA TalliedStep == TaskInv /\ [TaskNext]_task => Tallied'
<1> SUFFICES ASSUME TaskInv, [TaskNext]_task PROVE Tallied' OBVIOUS
<1> DEFINE X == OracleExpired(created_at, host)
<1>1. X => X'
  BY ExpiryStays DEF TaskInv
<1>2. /\ attempts \in 0 .. MAX_ATTEMPTS /\ purges_sent \in Nat /\ purges_taken \in Nat
      /\ expired \in BOOLEAN
  BY DEF TaskInv, TaskTypeOK
<1>3. Tallied /\ (tx.kind = "purge" => X)
  BY DEF TaskInv, Justified
<1>4. prepare_transaction(attempts).kind = "purge" <=> X
  BY <1>2, Prepared
<1> HIDE DEF TaskInv, X
<1>5. /\ (pc = "send" /\ expired) => tx.kind = "purge"
      /\ purges_taken \in {purges_sent, purges_sent + 1}
      /\ purges_taken # purges_sent => X
      /\ (pc \in {"choose", "send"} /\ expired) => X
      /\ (pc \in {"choose", "send"} /\ ~expired) => purges_taken = purges_sent
  BY <1>3, Zenon DEF Tallied, PurgesPastTTL, X
<1>6. SUFFICES /\ (pc' = "send" /\ expired') => tx'.kind = "purge"
               /\ purges_taken' \in {purges_sent', purges_sent' + 1}
               /\ purges_taken' # purges_sent' => X
               /\ (pc' \in {"choose", "send"} /\ expired') => X
               /\ (pc' \in {"choose", "send"} /\ ~expired') => purges_taken' = purges_sent'
  BY <1>1 DEF Tallied, PurgesPastTTL, X
<1>7. CASE Gate
  <2>1. /\ pc' = "choose" /\ expired' = X
        /\ UNCHANGED <<purges_sent, purges_taken>>
    BY <1>7, Zenon DEF Gate, counters, X
  <2> QED BY <1>5, <2>1
<1>8. CASE Choose
  <2>1. /\ pc = "choose" /\ (expired => tx' = prepare_transaction(attempts))
        /\ UNCHANGED <<purges_sent, purges_taken, expired>>
    BY <1>8 DEF Choose, counters
  <2> QED BY <1>4, <1>5, <2>1
<1>9. ASSUME NEW a \in BOOLEAN, NEW b \in BOOLEAN, Answer(a, b)
      PROVE  /\ pc' \notin {"choose", "send"}
             /\ purges_taken' \in {purges_sent', purges_sent' + 1}
             /\ purges_taken' # purges_sent' => X
  <2>1. /\ pc = "send" /\ pc' = "rearm"
        /\ purges_sent' = IF a /\ expired THEN purges_sent + 1 ELSE purges_sent
        /\ purges_taken' = IF a /\ tx.kind = "purge" THEN purges_taken + 1 ELSE purges_taken
    BY <1>9 DEF Answer
  <2>2. CASE expired BY <1>2, <1>5, <2>1, <2>2
  <2>3. CASE ~expired BY <1>2, <1>3, <1>5, <2>1, <2>3
  <2> QED BY <2>2, <2>3
<1>10. CASE Accepted \/ DifferentSlot \/ SendError
  <2>1. \E a, b \in BOOLEAN : Answer(a, b)
    BY <1>10, Zenon DEF Accepted, DifferentSlot, SendError
  <2> QED BY <1>9, <2>1
<1>11. CASE UNCHANGED <<pc, purges_sent, purges_taken, expired, tx>> BY <1>5, <1>11
<1>12. CASE pc' \notin {"choose", "send"} /\ UNCHANGED <<purges_sent, purges_taken>>
  BY <1>5, <1>12
<1>13. CASE Slot \/ Second \/ UNCHANGED task
  BY <1>11, <1>13, Zenon DEF Slot, Second, task, counters
<1>14. CASE Start \/ Exhausted \/ Wake \/ Rearm \/ Retry \/ NotFound \/ AddressError
  <2>1. pc' \in {"gate", "stopped", "wait", "nap"} /\ UNCHANGED <<purges_sent, purges_taken>>
    BY <1>14, Zenon DEF Start, Exhausted, Wake, Rearm, Retry, NotFound, AddressError, counters
  <2> QED BY <1>12, <2>1
<1> QED BY <1>7, <1>8, <1>10, <1>13, <1>14, Zenon DEF TaskNext, Step, Reply

\* Every attempt is counted before the next one: the loop makes at most MAX_ATTEMPTS.
LEMMA CountedStep == TaskInv /\ [TaskNext]_task => Counted' /\ (attempts \in 0 .. MAX_ATTEMPTS)'
<1> SUFFICES ASSUME TaskTypeOK, Counted, [TaskNext]_task
             PROVE  Counted' /\ (attempts \in 0 .. MAX_ATTEMPTS)'
  BY DEF TaskInv
<1>1. attempts \in 0 .. MAX_ATTEMPTS /\ MAX_ATTEMPTS \in Nat
  BY TaskAssumption DEF TaskTypeOK
<1> USE <1>1 DEF Counted
<1>2. CASE Slot \/ Second BY <1>2 DEF Slot, Second, counters
<1>3. CASE Start \/ Gate \/ Exhausted BY <1>3 DEF Start, Gate, Exhausted, counters
<1>4. CASE Choose \/ Wake \/ Rearm BY <1>4, SMTT(30) DEF Choose, Wake, Rearm, counters
<1>5. CASE Reply
  BY <1>5 DEF Reply, NotFound, AddressError, Accepted, DifferentSlot, SendError, Answer,
              counters
<1>6. CASE Retry BY <1>6 DEF Retry
<1>7. CASE UNCHANGED task BY <1>7, Zenon DEF task, counters
<1> QED BY <1>2, <1>3, <1>4, <1>5, <1>6, <1>7 DEF TaskNext, Step

\* Every step of the task keeps its types.
LEMMA TypeStep == TaskInv /\ [TaskNext]_task => TaskTypeOK'
<1> SUFFICES ASSUME TaskInv, [TaskNext]_task PROVE TaskTypeOK' OBVIOUS
<1>0. TaskTypeOK BY DEF TaskInv
<1>1. TypeOK' BY AgedStep DEF TaskInv, Aged, Stamped
<1>2. Counted' /\ (attempts \in 0 .. MAX_ATTEMPTS)' BY CountedStep
<1>3. /\ lead \in Nat /\ since \in Nat /\ nap \in Nat /\ backoff_attempts \in Nat
      /\ purges_sent \in Nat /\ purges_taken \in Nat /\ retry_slots \in Nat
      /\ prepared \in Transaction /\ tx \in Transaction
      /\ attempts \in 0 .. MAX_ATTEMPTS /\ MAX_ATTEMPTS \in Nat
  BY <1>0, TaskAssumption DEF TaskTypeOK
<1>4. MaxDelay \in Nat /\ (\A p \in Nat : purge_delay(p) \in Nat)
      /\ (\A b \in BOOLEAN : error_delay(b) \in Nat)
  BY <1>3, DelayTypes
<1>5. until_expiry \in Nat
  <2>1. created_at \in 0 .. (Modulus - 1) /\ host \in Nat
    BY DEF TaskInv, Aged, Stamped, TypeOK, host
  <2>2. created_at_from(host) \in Int /\ created_at \in Int
    <3> HIDE DEF host
    <3> QED BY <2>1, DivMod, ModRange, StampAssumption DEF created_at_from
  <2>3. oracle_age_secs(created_at, host) \in Int
    BY <2>2, StampAssumption DEF oracle_age_secs, age_secs, wrapping_sub
  <2> HIDE DEF host
  <2> QED BY <2>3, PairMax, StampAssumption DEF until_expiry
<1>6. (lead \in Nat)' /\ (since \in Nat)' /\ (nap \in Nat)'
  <2> HIDE DEF TaskInv
  <2>1. /\ Max({lead - 1, 0}) \in Nat /\ Max({nap - 1, 0}) \in Nat
        /\ Min({since + 1, MaxDelay}) \in Nat
    BY <1>3, <1>4, PairMax, PairMin
  <2>2. CASE Slot BY <1>3, <2>1, <2>2 DEF Slot
  <2>3. CASE Second BY <1>3, <2>1, <2>3 DEF Second
  <2>4. CASE Gate BY <1>3, <2>4 DEF Gate
  <2>5. CASE AddressError BY <1>3, <1>5, <2>5 DEF AddressError
  <2>6. CASE UNCHANGED clock BY <1>3, <2>6, Zenon DEF clock
  <2>7. Slot \/ Second \/ Gate \/ AddressError \/ UNCHANGED clock
    BY Zenon DEF TaskNext, task, Step, Start, Exhausted, Choose, Reply, NotFound, Accepted,
           DifferentSlot, SendError, Answer, Wake, Rearm, Retry
  <2> QED BY <2>2, <2>3, <2>4, <2>5, <2>6, <2>7
<1>7. /\ (backoff_attempts \in Nat)' /\ (purges_sent \in Nat)' /\ (retry_slots \in Nat)'
      /\ (purges_taken \in Nat)'
  <2> HIDE DEF TaskInv
  <2>1. ASSUME NEW a \in BOOLEAN, NEW b \in BOOLEAN, Answer(a, b)
        PROVE  /\ (backoff_attempts \in Nat)' /\ (purges_sent \in Nat)' /\ (retry_slots \in Nat)'
               /\ (purges_taken \in Nat)'
    <3>1. purges_sent' \in Nat /\ purges_taken' \in Nat /\ backoff_attempts' \in Nat
      BY <1>3, <2>1 DEF Answer
    <3>2. purge_delay(purges_sent') \in Nat /\ error_delay(b) \in Nat BY <1>4, <3>1
    <3>3. retry_slots' = Max({purge_delay(purges_sent'), error_delay(b)}) BY <2>1 DEF Answer
    <3>4. retry_slots' \in Nat BY <3>2, <3>3, PairMax
    <3> QED BY <3>1, <3>4
  <2>2. CASE Retry BY <1>3, <2>2 DEF Retry
  <2>3. CASE UNCHANGED <<counters, retry_slots>> BY <1>3, <2>3, Zenon DEF counters
  <2>4. Accepted \/ DifferentSlot \/ SendError \/ Retry \/ UNCHANGED <<counters, retry_slots>>
    BY Zenon DEF TaskNext, task, Slot, Second, Step, Start, Gate, Exhausted, Choose, Reply,
           NotFound, AddressError, Wake, Rearm
  <2> QED BY <2>1, <2>2, <2>3, <2>4, Zenon DEF Accepted, DifferentSlot, SendError
<1>8. ({prepared, tx} \subseteq Transaction)'
  <2>0. None \in Transaction BY DEF Transaction
  <2>1. prepare_transaction(attempts) \in Transaction BY <1>3, Prepared
  <2>2. CASE Start BY <1>3, <2>1, <2>2 DEF Start
  <2>3. CASE Choose BY <1>3, <2>0, <2>1, <2>3 DEF Choose
  <2>4. CASE Rearm
    <3>1. attempts + 1 \in 0 .. MAX_ATTEMPTS BY <1>3, <2>4 DEF Rearm, TaskInv, Counted
    <3>2. prepare_transaction(attempts + 1) \in Transaction BY <3>1, Prepared
    <3> QED BY <1>3, <2>4, <3>2 DEF Rearm
  <2>5. CASE UNCHANGED <<prepared, tx>> BY <1>3, <2>5, Zenon
  <2>6. Start \/ Choose \/ Rearm \/ UNCHANGED <<prepared, tx>>
    BY Zenon DEF TaskNext, task, Slot, Second, Step, Gate, Exhausted, Reply, NotFound,
           AddressError, Accepted, DifferentSlot, SendError, Answer, Wake, Retry
  <2> QED BY <2>2, <2>3, <2>4, <2>5, <2>6
<1>9. (/\ pc \in {"start", "gate", "choose", "send", "nap", "rearm", "wait", "stopped"}
       /\ {first_legal_attempt_pending, expired, sent_early, use_backoff, woken, preflight}
            \subseteq BOOLEAN)'
  <2>0. /\ pc \in {"start", "gate", "choose", "send", "nap", "rearm", "wait", "stopped"}
        /\ first_legal_attempt_pending \in BOOLEAN /\ expired \in BOOLEAN
        /\ sent_early \in BOOLEAN /\ use_backoff \in BOOLEAN /\ woken \in BOOLEAN
        /\ preflight \in BOOLEAN
    BY <1>0 DEF TaskTypeOK
  <2> HIDE DEF TaskInv
  <2>1. CASE Slot \/ Second \/ Start BY <2>0, <2>1 DEF Slot, Second, Start
  <2>2. CASE Gate BY <2>0, <2>2 DEF Gate, OracleExpired
  <2>3. CASE Choose BY <2>0, <2>3 DEF Choose
  <2>4. CASE Exhausted \/ Wake \/ Rearm \/ Retry
    BY <2>0, <2>4 DEF Exhausted, Wake, Rearm, Retry
  <2>5. CASE NotFound \/ AddressError BY <2>0, <2>5, Zenon DEF NotFound, AddressError
  <2>6. CASE Accepted \/ DifferentSlot \/ SendError
    BY <2>0, <2>6, Zenon DEF Accepted, DifferentSlot, SendError, Answer
  <2>7. CASE UNCHANGED task BY <2>0, <2>7 DEF task
  <2> QED BY <2>1, <2>2, <2>3, <2>4, <2>5, <2>6, <2>7, SMTT(30) DEF TaskNext, Step, Reply
<1> HIDE DEF TaskInv
<1> QED BY <1>1, <1>2, <1>6, <1>7, <1>8, <1>9, Zenon DEF TaskTypeOK

\* The invariant of the task, always.
LEMMA TaskInvariant == TaskSpec => []TaskInv
<1>1. TaskInv /\ [TaskNext]_task => TaskInv'
  BY AgedStep, TypeStep, CountedStep, JustifiedStep, TalliedStep DEF TaskInv
<1> QED BY <1>1, TaskStarts, PTL DEF TaskSpec

\* Delays, counters and transactions stay in range: no task makes more than MAX_ATTEMPTS
\* attempts, whatever it is answered.
THEOREM TaskTypeOKThm == TaskSpec => []TaskTypeOK
<1>1. TaskInv => TaskTypeOK BY DEF TaskInv
<1> QED BY <1>1, TaskInvariant, PTL

\* An attempt that begins past the TTL sends a purge, never the fulfilment prepared
\* before, and at most one accepted purge escapes the count that spaces purges out.
THEOREM PurgesPastTTLThm == TaskSpec => []PurgesPastTTL
<1>1. TaskInv => PurgesPastTTL BY DEF TaskInv, Tallied
<1> QED BY <1>1, TaskInvariant, PTL

\* On a host whose clock is not ahead, a purge is sent only for a request that the
\* program, too, finds expired: a fulfilment is never given up for a purge that leaves
\* the request where it is.
THEOREM PurgeFindsExpiredThm == TaskSpec => []PurgeFindsExpired
<1>1. ASSUME TaskInv, tx.kind = "purge", drift <= 0 PROVE Expired(created_at, now)
  <2>1. /\ born \in Nat /\ now \in Nat /\ drift \in Int /\ now + drift >= 0
        /\ now - born <= MaxAge /\ created_at = created_at_from(born) /\ MaxAge \in Nat
    BY <1>1, ClockAssumption DEF TaskInv, Aged, Stamped, TypeOK
  <2>2. drift >= -(SkewUnits * Unit) /\ MaxAge + (SkewUnits + 1) * Unit <= Cycle
    BY <1>1, LifeAssumption DEF TaskInv, Aged
  <2>3. SkewUnits * Unit \in Nat /\ (SkewUnits + 1) * Unit \in Nat /\ Cycle \in Nat
    BY StampAssumption DEF Cycle
  <2> DEFINE h == now + drift
  <2>4. OracleExpired(created_at_from(born), h)
    BY <1>1, <2>1 DEF TaskInv, Justified, host
  <2>5. h \in Nat /\ h <= now BY <1>1, <2>1
  <2>6. CASE born <= now
    <3>1. born - h <= SkewUnits * Unit /\ now - born + (SkewUnits + 1) * Unit <= Cycle
      BY <2>1, <2>2, <2>3, <2>6
    <3> HIDE DEF h
    <3>2. OracleExpired(created_at_from(born), now)
      BY <2>1, <2>4, <2>5, <3>1, ExpiredStays
    <3> QED BY <2>1, <3>2, StampAssumption DEF OracleExpired, oracle_age_secs, Expired
  <2> QED BY <1>1, <2>6 DEF TaskInv, Aged, Stamped
<1>2. TaskInv => PurgeFindsExpired BY <1>1 DEF PurgeFindsExpired
<1> QED BY <1>2, TaskInvariant, PTL

=============================================================================
