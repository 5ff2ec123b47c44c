----------------------------- MODULE SlotTracker ------------------------------
(***************************************************************************)
(* SlotTracker: the newest slot the oracle has heard of, an estimate of    *)
(* when slots begin, and one task that waits for a slot, or for the moment *)
(* shortly before it is predicted to begin.  The update source is the only *)
(* writer; it changes the estimate under one lock and publishes the slot   *)
(* under another, and the waiter runs in between.                          *)
(***************************************************************************)
EXTENDS Integers

CONSTANTS EARLY_SEND_DIVISOR, EARLY_SEND_MAX, NON_ER_EARLY_SEND_BONUS,
          NON_ER_MIN_SLOT_DURATION, MIN_SLOT_SAMPLE, MIN_SLOT_SAMPLES,
          SamplesMax,      \* u8::MAX, where samples saturates
          Target,          \* the slot waited for
          MaxSlot,         \* bound on the cluster's slot
          MaxTime          \* bound on the clock

ASSUME TrackerAssumption ==
  /\ {EARLY_SEND_MAX, NON_ER_EARLY_SEND_BONUS, NON_ER_MIN_SLOT_DURATION,
      MIN_SLOT_SAMPLES, Target, MaxSlot, MaxTime} \subseteq Nat
  /\ {EARLY_SEND_DIVISOR, MIN_SLOT_SAMPLE} \subseteq Nat \ {0}
  /\ SamplesMax \in Nat \ {0} /\ MIN_SLOT_SAMPLES <= SamplesMax

VARIABLES
  instant,     \* the host's monotonic clock (Instant)
  head,        \* the cluster's slot, of which notifications are sent
  current,     \* the value of the watch channel
  timing,      \* SlotTiming
  publishing,  \* what the update source has still to publish
  waiter       \* the waiting task; unseen: the channel was written since it last read

tracker == <<instant, head, current, timing, publishing, waiter>>

NoBoundary == [slot |-> -1, at |-> 0]      \* no last_boundary
NoWindow == <<>>
Nothing == [slot |-> 0, how |-> "idle"]

-----------------------------------------------------------------------------
\* SlotTracker::early_send_lead.
early_send_lead(duration) ==
  LET part == duration \div EARLY_SEND_DIVISOR
  IN  IF part <= EARLY_SEND_MAX THEN part ELSE EARLY_SEND_MAX

\* Fault: samples are not required.
EagerWindow(target) ==
  LET t         == timing
      predicted == t.last_boundary.at + t.slot_duration * (target - t.last_boundary.slot)
      lead      == early_send_lead(t.slot_duration)
  IN  IF t.slot_duration = 0 \/ target < t.last_boundary.slot \/ predicted < lead
        THEN NoWindow
        ELSE <<predicted - lead, predicted + lead>>

\* SlotTracker::early_window: from when to when a send counts as early for target,
\* or NoWindow.  A slot_duration of 0 stands for None.
early_window(target) ==
  LET t         == timing
      predicted == t.last_boundary.at + t.slot_duration * (target - t.last_boundary.slot)
      lead      == early_send_lead(t.slot_duration)
      predictive_lead ==
        lead + IF t.slot_duration >= NON_ER_MIN_SLOT_DURATION
                 THEN t.predictive_lead_bonus ELSE 0
  IN  IF \/ t.samples < MIN_SLOT_SAMPLES
         \/ t.slot_duration = 0
         \/ target < t.last_boundary.slot
         \/ predicted < predictive_lead
        THEN NoWindow
        ELSE <<predicted - predictive_lead, predicted + lead>>

\* u8::saturating_add.
saturating_add(samples) == IF samples = SamplesMax THEN samples ELSE samples + 1

\* The estimate after a boundary at slot: a sample per slot, averaged 3 to 1, or
\* a fresh start when the boundaries came too close together.
NewEstimate(slot) ==
  LET t      == timing
      sample == (instant - t.last_boundary.at) \div (slot - t.last_boundary.slot)
  IN  IF sample >= MIN_SLOT_SAMPLE
        THEN [t EXCEPT !.slot_duration = IF @ = 0 THEN sample ELSE (@ * 3 + sample) \div 4,
                       !.samples       = saturating_add(@),
                       !.last_boundary = [slot |-> slot, at |-> instant]]
        ELSE [t EXCEPT !.slot_duration = 0, !.samples = 0,
                       !.last_boundary = [slot |-> slot, at |-> instant]]

-----------------------------------------------------------------------------
\* SlotTracker::new and set_is_er: no estimate, and a bonus unless the endpoint is
\* an ephemeral rollup.  The waiter has subscribed.
TrackerInit ==
  /\ instant = 0 /\ head = 1 /\ current = 0
  /\ timing \in [last_boundary : {NoBoundary}, slot_duration : {0}, samples : {0},
                 predictive_lead_bonus : {0, NON_ER_EARLY_SEND_BONUS}]
  /\ publishing = Nothing
  /\ waiter \in [pc : {"check"}, early : BOOLEAN, unseen : {FALSE}, deadline : {0}]

\* The cluster and the clock.
NextSlot ==
  /\ head < MaxSlot /\ head' = head + 1
  /\ UNCHANGED <<instant, current, timing, publishing, waiter>>

Elapse ==
  /\ instant < MaxTime /\ instant' = instant + 1
  /\ UNCHANGED <<head, current, timing, publishing, waiter>>

\* Fault: the value changes and no receiver is told (send_if_modified returns false).
SilentSend(slot) == current' = slot /\ UNCHANGED waiter

\* The channel takes the value and wakes its receivers.
Send(slot) ==
  /\ current' = slot
  /\ waiter' = [waiter EXCEPT !.unseen = TRUE]

\* update, for an account notification or a slot of any later status: only a
\* newer slot is taken, and only it wakes receivers.
Update(slot) ==
  /\ publishing.how = "idle" /\ slot > current /\ Send(slot)
  /\ UNCHANGED <<instant, head, timing, publishing>>

\* observe_slot_at, up to the release of the lock on timing.  A slot older than the
\* current one is ignored; only a boundary after the last one moves the estimate.
ObserveSlot(slot) ==
  /\ publishing.how = "idle" /\ slot >= current
  /\ IF slot > timing.last_boundary.slot
       THEN /\ timing' = IF timing.last_boundary = NoBoundary
                           THEN [timing EXCEPT !.last_boundary = [slot |-> slot, at |-> instant]]
                           ELSE NewEstimate(slot)
            /\ publishing' = [slot |-> slot, how |-> "send_modify"]
       ELSE /\ publishing' = [slot |-> slot, how |-> "update"]
            /\ UNCHANGED timing
  /\ UNCHANGED <<instant, head, current, waiter>>

\* Fault: a new estimate is published like any slot, without waking anybody when
\* the slot itself is not new.
QuietPublish ==
  /\ publishing.how # "idle" /\ publishing' = Nothing
  /\ IF publishing.slot > current THEN Send(publishing.slot) ELSE UNCHANGED <<current, waiter>>
  /\ UNCHANGED <<instant, head, timing>>

\* The rest of observe_slot_at: after a change of the estimate receivers wake even
\* if the slot is not new, so that they read the estimate again.
PublishSlot ==
  /\ publishing.how # "idle" /\ publishing' = Nothing
  /\ \/ publishing.how = "send_modify"
        /\ Send(IF publishing.slot > current THEN publishing.slot ELSE current)
     \/ publishing.how = "update" /\ publishing.slot > current /\ Send(publishing.slot)
     \/ publishing.how = "update" /\ publishing.slot <= current /\ UNCHANGED <<current, waiter>>
  /\ UNCHANGED <<instant, head, timing>>

-----------------------------------------------------------------------------
\* wait_for_slot and wait_for_slot_early: borrow_and_update marks the value seen.
Check ==
  /\ waiter.pc = "check"
  /\ waiter' = [waiter EXCEPT !.unseen = FALSE,
                  !.pc = IF current >= Target THEN "done"
                         ELSE IF waiter.early THEN "window" ELSE "changed"]
  /\ UNCHANGED <<instant, head, current, timing, publishing>>

\* The early window is read under the other lock; past it, only a slot helps.
ReadWindow ==
  /\ waiter.pc = "window"
  /\ LET window == early_window(Target)
     IN  waiter' = IF window = NoWindow \/ instant > window[2]
                     THEN [waiter EXCEPT !.pc = "changed"]
                     ELSE [waiter EXCEPT !.pc = "sleep", !.deadline = window[1]]
  /\ UNCHANGED <<instant, head, current, timing, publishing>>

\* sleep_until(deadline) ends first: the task goes ahead before the slot is known.
GoEarly ==
  /\ waiter.pc = "sleep" /\ instant >= waiter.deadline
  /\ waiter' = [waiter EXCEPT !.pc = "done"]
  /\ UNCHANGED <<instant, head, current, timing, publishing>>

\* receiver.changed() resolves.
Changed ==
  /\ waiter.pc \in {"sleep", "changed"} /\ waiter.unseen
  /\ waiter' = [waiter EXCEPT !.pc = "check"]
  /\ UNCHANGED <<instant, head, current, timing, publishing>>

Notify(slot) == Update(slot) \/ ObserveSlot(slot)
Waiter == Check \/ ReadWindow \/ GoEarly \/ Changed

TrackerNext ==
  \/ NextSlot \/ Elapse \/ PublishSlot \/ Check \/ ReadWindow \/ GoEarly \/ Changed
  \/ \E slot \in 1 .. head : Update(slot) \/ ObserveSlot(slot)

TrackerSpec == TrackerInit /\ [][TrackerNext]_tracker

\* Slots pass and are notified of sooner or later, between repeated notifications of
\* older ones; the source and the task run on.
FairTrackerSpec ==
  /\ TrackerSpec /\ WF_tracker(NextSlot) /\ WF_tracker(PublishSlot) /\ WF_tracker(Waiter)
  /\ SF_tracker(\E slot \in Target .. head : Notify(slot))

-----------------------------------------------------------------------------
\* A task asleep until a deadline sleeps on the estimate as it is now, or a wake-up
\* is on its way: observe_slot_at wakes receivers for every change of the estimate,
\* in whatever order it and the task take the two locks.
SleepsOnCurrentEstimate ==
  waiter.pc = "sleep" /\ ~waiter.unseen /\ publishing.how # "send_modify"
    => early_window(Target) # NoWindow /\ waiter.deadline = early_window(Target)[1]

\* A task goes ahead before its slot is published only on the strength of
\* MIN_SLOT_SAMPLES samples; losing them while it sleeps wakes it, and only a timer
\* that fires before the wake-up can still let it go (wait_for_slot_early).
EarlyOnlyOnEvidence ==
  [][waiter.pc = "sleep" /\ waiter'.pc = "done"
       => \/ timing.samples >= MIN_SLOT_SAMPLES
          \/ waiter.unseen \/ publishing.how = "send_modify"]_tracker

\* Every wait ends once slots reach the target and are notified of
\* (wait_for_slot, wait_for_slot_early).
WaitEnds == <>(waiter.pc = "done")
=============================================================================
