----------------------------- MODULE SlotTimeline -----------------------------
(***************************************************************************)
(* The timeline of the slot operation: which ASN each slot has, when it    *)
(* starts, and which link it runs, over a schedule that process context    *)
(* edits meanwhile (TschSchedule), a clock that wraps around               *)
(* (RtimerClock), corrections of the drift, bursts, and deadlines that are *)
(* missed because a slot took too long.                                    *)
(*                                                                         *)
(* What happens inside a slot is TschSlotOperation's; here it takes some   *)
(* time, may correct the drift, and may ask for a burst.  The adaptive     *)
(* compensation of the clock's own drift is left out.  Process context     *)
(* edits the schedule while the node sleeps, and in a slot; the end of the *)
(* slot runs as a whole in the interrupt, one action for each turn of its  *)
(* loop over missed deadlines.                                             *)
(***************************************************************************)
EXTENDS TschSchedule, RtimerClock

CONSTANTS
  SlotLength,       \* tsch_timing[tsch_ts_timeslot_length], in ticks
  RtimerGuard,      \* RTIMER_GUARD
  MaxDrift,         \* no correction is larger: SYNC_IE_BOUND for that of an
                    \* acknowledgement, and for that of a received frame,
                    \* how far from the expected time the node listens
  BurstMaxLen,      \* TSCH_BURST_MAX_LEN
  Elapsed,          \* bound: ticks from the start of a slot to its end
  MaxRepeats,       \* bound: repetitions of a link that the senders of its
                    \* frames, the lock or a refused timer cause
  JoinTimes,        \* bound: slot starts at which the node joins a network
  InitialSchedule   \* [slotframes, size, links]: of init_tsch_schedule

ASSUME TimelineAssumption ==
  /\ SlotLength \in Nat
  /\ RtimerGuard \in Nat
  /\ MaxDrift \in Nat
  /\ RtimerGuard + MaxDrift < SlotLength
  /\ 2 * (SlotLength + MaxDrift) <= ClockModulus
  /\ BurstMaxLen \in Nat
  /\ \A e \in Elapsed : e \in Nat /\ 2 * e < ClockModulus
  /\ MaxRepeats \in Nat
  /\ JoinTimes \subseteq Clock

(* The initial schedule: a list of slotframes, and links inside of them. *)
ASSUME InitialAssumption ==
  /\ InitialSchedule.slotframes \in Seq(Handle)
  /\ IsInjective(InitialSchedule.slotframes)
  /\ InitialSchedule.size \in [Handle -> Nat]
  /\ \A h \in Handle : InitialSchedule.size[h] # 0
                         <=> h \in Range(InitialSchedule.slotframes)
  /\ InitialSchedule.links \in Seq(LinkRecord)
  /\ \A i \in DOMAIN InitialSchedule.links :
       InitialSchedule.links[i].timeslot
         < InitialSchedule.size[InitialSchedule.links[i].slotframe_handle]

(* Every slotframe is shorter than half a turn of the clock, and the ASN   *)
(* can be counted modulo AsnCycle: neither timeslots nor clock tell.       *)
ASSUME CycleAssumption ==
  /\ \A n \in {InitialSchedule.size[h] : h \in Handle}
               \cup {call.size : call \in {c \in Call :
                         c.op \in {"add_slotframe", "create_minimal"}}} :
       n # 0 => /\ 2 * (n * SlotLength + MaxDrift) <= ClockModulus
                /\ AsnCycle % n = 0
  /\ (AsnCycle * SlotLength) % ClockModulus = 0

VARIABLES
  asn,                  \* tsch_current_asn, modulo AsnCycle
  current_slot_start,   \* a clock value
  slot,                 \* where the slot operation is
  elapsed,              \* ticks since current_slot_start: the clock shows
                        \* their sum, wrapped around
  drift_correction,
  burst_link_scheduled, tsch_current_burst_count,
  corrected,            \* history: the sum of all corrections, wrapped
  repeated,             \* history: slots since current_link was looked up
  burst_of,             \* history: what the last slot that ran asked to
                        \* repeat: "nothing", "current" for current_link, or
                        \* "another" link, which is gone
  overslept             \* history: ticks by which the timer of the next slot
                        \* fires later than it starts

timeVars == <<asn, current_slot_start, slot, elapsed, drift_correction,
              corrected, overslept>>
burstVars == <<burst_link_scheduled, tsch_current_burst_count, repeated,
               burst_of>>
vars == <<scheduleVars, timeVars, burstVars>>

TypeOK ==
  /\ ScheduleTypeOK
  /\ asn \in 0 .. AsnCycle - 1
  /\ current_slot_start \in Clock
  /\ slot \in {"out", "start", "sleep", "run", "end"}
  /\ elapsed \in Nat
  /\ drift_correction \in -MaxDrift .. MaxDrift
  /\ burst_link_scheduled \in BOOLEAN
  /\ tsch_current_burst_count \in 0 .. BurstMaxLen
  /\ repeated \in Nat
  /\ burst_of \in {"nothing", "current", "another"}
  /\ corrected \in Clock
  /\ overslept \in Nat

(* init_tsch_schedule has installed its links, in the order of the blocks. *)
Init ==
  /\ slotframe_list = InitialSchedule.slotframes
  /\ size = InitialSchedule.size
  /\ \E blocks \in [DOMAIN InitialSchedule.links -> Block] :
       /\ IsInjective(blocks)
       /\ link = [b \in Block |->
                    IF b \in Range(blocks)
                      THEN InitialSchedule.links[CHOOSE i \in DOMAIN blocks :
                                                   blocks[i] = b]
                      ELSE Free]
       /\ links_list = [h \in Handle |->
            Those(blocks, {b \in Installed : link[b].slotframe_handle = h})]
  /\ tx_links_count = [a \in Address |->
       Cardinality({b \in Installed : link[b].tx /\ link[b].addr = a})]
  /\ dedicated_tx_links_count = [a \in Address |->
       Cardinality({b \in Installed : /\ link[b].tx /\ link[b].addr = a
                                      /\ ~link[b].shared})]
  /\ missed = {}
  /\ current_link = NoLink
  /\ backup_link = NoLink
  /\ todo = <<>>
  /\ asn = 0
  /\ current_slot_start = 0
  /\ slot = "out"
  /\ elapsed = 0
  /\ drift_correction = 0
  /\ burst_link_scheduled = FALSE
  /\ tsch_current_burst_count = 0
  /\ corrected = 0
  /\ repeated = 0
  /\ burst_of = "nothing"
  /\ overslept = 0

-----------------------------------------------------------------------------
(* tsch_slot_operation_sync: the node joins a network at an ASN and a slot *)
(* start that it was told, a while ago.                                    *)
Associate ==
  /\ slot = "out"
  /\ todo = <<>>
  /\ slot' = "start"
  /\ asn' \in 0 .. AsnCycle - 1
  /\ current_slot_start' \in JoinTimes
  /\ elapsed' \in Elapsed
  /\ corrected' = Minus(current_slot_start', (asn' * SlotLength) % ClockModulus)
  /\ current_link' = NoLink
  /\ UNCHANGED <<poolVars, countVars, backup_link, todo, drift_correction,
                 overslept, burstVars>>

(* The timer fires.  Without a link, or while the lock is requested, the   *)
(* slot is skipped, and the link of a burst stays for the next one;        *)
(* otherwise it runs the link or its backup.                               *)
Skip ==
  /\ slot = "sleep"
  /\ \/ current_link = NoLink
     \/ todo # <<>> /\ (burst_link_scheduled => repeated < MaxRepeats)
  /\ slot' = "end"
  /\ UNCHANGED <<scheduleVars, asn, current_slot_start, elapsed,
                 drift_correction, corrected, overslept, burstVars>>

SkipsBestLink ==
  /\ backup_link # NoLink
  /\ \/ ~link[current_link].rx
     \/ link[backup_link].slotframe_handle < link[current_link].slotframe_handle

BurstAtStart_Kept == burst_link_scheduled
BurstAtStart == FALSE
StartSlot ==
  /\ slot = "sleep"
  /\ current_link # NoLink
  /\ slot' = "run"
  /\ \/ UNCHANGED current_link
     \/ SkipsBestLink /\ current_link' = backup_link
  /\ drift_correction' = 0
  /\ burst_link_scheduled' = BurstAtStart
  /\ UNCHANGED <<poolVars, countVars, backup_link, todo, asn,
                 current_slot_start, elapsed, corrected, overslept,
                 tsch_current_burst_count, repeated, burst_of>>

(* What the slot may ask for: one more slot, of a sender below the limit   *)
(* of a burst, or of a receiver when the frame pending bit says so, however*)
(* long the burst is by then.                                              *)
BurstContinues ==
  /\ current_link # NoLink
  /\ \/ /\ link[current_link].tx
        /\ tsch_current_burst_count + 1 < BurstMaxLen
     \/ link[current_link].rx /\ repeated < MaxRepeats

(* The slot has run: it may have corrected the drift, by an acknowledgement*)
(* or a frame of the time source, and may continue as a burst.  A slot     *)
(* whose link was removed has heard nothing: a frame would have stopped    *)
(* the node (TschSlotOperation).                                           *)
FinishSlot ==
  /\ slot = "run"
  /\ slot' = "end"
  /\ elapsed' \in Elapsed
  /\ drift_correction' \in IF current_link = NoLink THEN {0}
                          ELSE -MaxDrift .. MaxDrift
  /\ corrected' = (corrected + drift_correction') % ClockModulus
  /\ \/ /\ BurstContinues
        /\ burst_link_scheduled' = TRUE
        /\ burst_of' = "current"
     \/ /\ burst_of' = "nothing"
        /\ UNCHANGED burst_link_scheduled
  /\ UNCHANGED <<scheduleVars, asn, current_slot_start, overslept,
                 tsch_current_burst_count, repeated>>

(* The node has not heard its time source for too long: not in this slot,  *)
(* then, which has corrected nothing.                                      *)
Leave ==
  /\ slot = "end"
  /\ drift_correction = 0
  /\ slot' = "out"
  /\ burst_of' = IF burst_link_scheduled THEN "another" ELSE burst_of
  /\ UNCHANGED <<scheduleVars, asn, current_slot_start, elapsed,
                 drift_correction, corrected, overslept,
                 burst_link_scheduled, tsch_current_burst_count, repeated>>

-----------------------------------------------------------------------------
(* tsch_schedule_slot_operation: the next slot starts offset ticks after   *)
(* the current one.  Either a timer is set for it; or the deadline was     *)
(* missed, or the timer refused, and the loop goes on from there.          *)
Missed(offset) ==
  CheckTimerMiss(current_slot_start, offset - RtimerGuard,
                 Plus(current_slot_start, elapsed))

ScheduleSlot(offset) ==
  LET now == Plus(current_slot_start, elapsed)
      target == Plus(current_slot_start, offset)
  IN /\ current_slot_start' = target
     /\ \/ /\ ~Missed(offset)
           /\ elapsed' = 0
           /\ overslept' = elapsed + TimerWait(now, target) - offset
           /\ slot' = "sleep"
        \/ /\ Missed(offset) \/ repeated < MaxRepeats
           /\ elapsed' = elapsed + BusyWait(now, target) - offset
           /\ UNCHANGED <<slot, overslept>>

(* One turn of the loop: diff slots on, with the correction that is due.   *)
DriftAfter_Kept == drift_correction
DriftAfter == 0
Advance_OneSlot(diff) ==
  /\ asn' = (asn + 1) % AsnCycle
  /\ ScheduleSlot(diff * SlotLength + drift_correction)
  /\ drift_correction' = DriftAfter
  /\ UNCHANGED corrected
Advance(diff) ==
  /\ asn' = (asn + diff) % AsnCycle
  /\ ScheduleSlot(diff * SlotLength + drift_correction)
  /\ drift_correction' = DriftAfter
  /\ UNCHANGED corrected

InBurst == slot = "end" /\ burst_link_scheduled /\ current_link # NoLink

(* The link of a burst runs again in the next slot.  The count stops at    *)
(* BurstMaxLen here: beyond, the code does not tell its values apart.      *)
RepeatLink ==
  /\ InBurst
  /\ tsch_current_burst_count' =
       IF tsch_current_burst_count < BurstMaxLen
         THEN tsch_current_burst_count + 1 ELSE BurstMaxLen
  /\ repeated' = repeated + 1
  /\ backup_link' = NoLink
  /\ Advance(1)
  /\ UNCHANGED <<poolVars, countVars, current_link, todo,
                 burst_link_scheduled, burst_of>>

(* The next link of the schedule; the next slot when there is none, or the *)
(* lock is taken.  tsch_slot_operation_start does not reset the burst.     *)
NextLink ==
  /\ slot \in {"start", "end"}
  /\ ~InBurst
  /\ \E queued \in Queued :
       \E found \in {NextActiveLink(asn, queued)}
                      \cup (IF todo = <<>> THEN {} ELSE {NothingFound}) :
         /\ Find(found)
         /\ Advance(IF found.best = NoLink THEN 1 ELSE found.time)
         /\ tsch_current_burst_count' =
              IF slot = "end" /\ found.best # NoLink
                THEN 0 ELSE tsch_current_burst_count
  /\ repeated' = 0
  /\ burst_of' = IF burst_of = "current" THEN "nothing" ELSE burst_of
  /\ UNCHANGED <<poolVars, countVars, todo, burst_link_scheduled>>

(* Process context, where the interrupt leaves it the processor.  It may   *)
(* remove the link of a burst that goes on; no one resets the burst then.  *)
EditSchedule ==
  /\ slot \in {"out", "sleep", "run"}
  /\ Edit
  /\ burst_of' = IF burst_link_scheduled /\ current_link # NoLink
                     /\ current_link' = NoLink
                    THEN "another" ELSE burst_of
  /\ UNCHANGED <<timeVars, burst_link_scheduled, tsch_current_burst_count,
                 repeated>>

Next ==
  \/ EditSchedule
  \/ Associate \/ Skip \/ StartSlot \/ FinishSlot \/ Leave
  \/ RepeatLink \/ NextLink

Spec == Init /\ [][Next]_vars
=============================================================================
