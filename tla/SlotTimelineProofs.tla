-------------------------- MODULE SlotTimelineProofs --------------------------
(***************************************************************************)
(* The timeline keeps its time and its place, for every length of a slot,  *)
(* width of the clock, bound of the drift and lateness of a slot, every    *)
(* schedule a node starts with and every call that edits it later:         *)
(*   - the timer of a slot is set on time, and the start of a slot follows *)
(*     its ASN;                                                            *)
(*   - with the schedule of node.c, a slot runs a link of its timeslot.    *)
(* The invariant is built in layers, each of which assumes the ones before *)
(* it: ScheduleInv (the schedule under the slot operation), TimeInv (the   *)
(* clock), StartInv (the start and the ASN), QlInv (the schedule of node.c)*)
(* and PointerInv (the links of the slot operation).                       *)
(***************************************************************************)
EXTENDS SlotTimelineProperties, NextLinkProofs

(* check_timer_miss, "Assumes a single overflow and ref time prior to now":*)
(* under that assumption it answers exactly whether the time that passed   *)
(* has reached the offset, whichever of the sums overflowed.               *)
THEOREM TimerMissIsExact ==
  ASSUME NEW ref_time \in Clock, NEW offset \in Clock, NEW passed \in Clock
  PROVE  CheckTimerMiss(ref_time, offset, Plus(ref_time, passed))
           <=> offset <= passed
<1>1. ClockModulus \in Nat \ {0}  BY ClockAssumption
<1>2. CASE /\ ref_time + offset < ClockModulus
           /\ ref_time + passed < ClockModulus
  BY <1>1, <1>2 DEF Clock, Plus, CheckTimerMiss
<1>3. CASE /\ ref_time + offset < ClockModulus
           /\ ~(ref_time + passed < ClockModulus)
  BY <1>1, <1>3 DEF Clock, Plus, CheckTimerMiss
<1>4. CASE /\ ~(ref_time + offset < ClockModulus)
           /\ ref_time + passed < ClockModulus
  BY <1>1, <1>4 DEF Clock, Plus, CheckTimerMiss
<1>5. CASE /\ ~(ref_time + offset < ClockModulus)
           /\ ~(ref_time + passed < ClockModulus)
  BY <1>1, <1>5 DEF Clock, Plus, CheckTimerMiss
<1> QED  BY <1>2, <1>3, <1>4, <1>5

(* The deadline that check_timer_miss lets pass, RTIMER_GUARD before the   *)
(* start of a slot, leaves time to set the timer: it is for more than the  *)
(* guard ahead, and fires at the offset, not a turn of the clock later.    *)
THEOREM TimerFiresOnTime ==
  ASSUME NEW ref_time \in Clock, NEW offset \in Clock, NEW passed \in Clock,
         offset - RtimerGuard \in Clock,
         ~CheckTimerMiss(ref_time, offset - RtimerGuard, Plus(ref_time, passed))
  PROVE  LET wait == TimerWait(Plus(ref_time, passed), Plus(ref_time, offset))
         IN wait = offset - passed /\ RtimerGuard < wait
<1>1. ClockModulus \in Nat \ {0} /\ RtimerGuard \in Nat
  BY ClockAssumption, TimelineAssumption
<1>2. passed < offset - RtimerGuard
  <2>1. ~(offset - RtimerGuard <= passed)  BY TimerMissIsExact
  <2> QED  BY <1>1, <2>1 DEF Clock
<1> QED  BY <1>1, <1>2 DEF Clock, Plus, Minus, TimerWait

(* The busy wait that makes up for a missed deadline or a refused timer    *)
(* ends at the offset, or at once when that has passed, if neither is more *)
(* than half a turn away.                                                  *)
THEOREM BusyWaitEndsOnTime ==
  ASSUME NEW ref_time \in Clock, NEW offset \in Clock, NEW passed \in Clock,
         2 * (passed - offset) < ClockModulus,
         2 * (offset - passed) <= ClockModulus
  PROVE  BusyWait(Plus(ref_time, passed), Plus(ref_time, offset))
           = IF passed >= offset THEN 0 ELSE offset - passed
<1>1. ClockModulus \in Nat \ {0}  BY ClockAssumption
<1>2. Minus(Plus(ref_time, passed), Plus(ref_time, offset))
        = IF passed >= offset THEN passed - offset
                              ELSE passed - offset + ClockModulus
  BY <1>1 DEF Clock, Plus, Minus
<1>3. passed < offset =>
        Minus(Plus(ref_time, offset), Plus(ref_time, passed)) = offset - passed
  BY <1>1 DEF Clock, Plus, Minus
<1> QED  BY <1>1, <1>2, <1>3 DEF Clock, BusyWait

-----------------------------------------------------------------------------
(* The schedule under the slot operation: what process context keeps, and  *)
(* slotframes of no other lengths than those the program gives them.       *)
Lengths == ({InitialSchedule.size[h] : h \in Handle} \cup CallSizes) \ {0}
LengthsInv == \A h \in Handle : size[h] # 0 => size[h] \in Lengths

(* Such a length is half a turn of the clock at most, and divides AsnCycle.*)
LEMMA LengthsAreShort ==
  \A n \in Lengths : /\ n \in Nat \ {0}
                     /\ 2 * (n * SlotLength + MaxDrift) <= ClockModulus
                     /\ AsnCycle % n = 0
<1>1. Lengths \subseteq Nat \ {0}
  BY InitialAssumption, CallSizesArePositive DEF Lengths
<1>2. \A n \in Lengths : /\ 2 * (n * SlotLength + MaxDrift) <= ClockModulus
                         /\ AsnCycle % n = 0
  BY CycleAssumption DEF Lengths, CallSizes
<1> QED  BY <1>1, <1>2

(* Each link of the initial schedule is in a block of its own. *)
LEMMA InitialLinks ==
  ASSUME Init
  PROVE  \E blocks \in [DOMAIN InitialSchedule.links -> Block] :
           /\ blocks \in Seq(Block) /\ IsInjective(blocks)
           /\ Range(blocks) = Installed
           /\ \A b \in Installed : \E i \in DOMAIN InitialSchedule.links :
                blocks[i] = b /\ link[b] = InitialSchedule.links[i]
           /\ link = [b \in Block |-> link[b]]
           /\ \A b \in Block \ Installed : link[b] = Free
           /\ links_list = [h \in Handle |-> Those(blocks, LinksOf(h))]
<1> DEFINE given == InitialSchedule.links
<1>1. /\ DOMAIN given = 1 .. Len(given) /\ Len(given) \in Nat
      /\ \A i \in DOMAIN given : given[i] # Free
  BY InitialAssumption, ScheduleAssumption
<1>2. PICK blocks \in [DOMAIN given -> Block] :
        /\ IsInjective(blocks)
        /\ link = [b \in Block |->
                     IF b \in Range(blocks)
                       THEN given[CHOOSE i \in DOMAIN blocks : blocks[i] = b]
                       ELSE Free]
        /\ links_list = [h \in Handle |->
             Those(blocks, {b \in Installed : link[b].slotframe_handle = h})]
  BY DEF Init
<1> HIDE DEF given
<1>3. /\ DOMAIN blocks = DOMAIN given /\ blocks \in Seq(Block)
      /\ Range(blocks) \subseteq Block
  BY <1>1, <1>2 DEF Range
<1>4. \A b \in Range(blocks) : \E i \in DOMAIN given :
        blocks[i] = b /\ link[b] = given[i]
  <2> SUFFICES ASSUME NEW b \in Range(blocks)
               PROVE  \E i \in DOMAIN given :
                        blocks[i] = b /\ link[b] = given[i]
    OBVIOUS
  <2>1. \E i \in DOMAIN blocks : blocks[i] = b  BY DEF Range
  <2> QED  BY <1>2, <1>3, <2>1
<1>5. \A b \in Block : b \notin Range(blocks) => link[b] = Free
  BY <1>2
<1>6. Installed = Range(blocks)
  BY <1>1, <1>3, <1>4, <1>5 DEF Installed
<1>7. link = [b \in Block |-> link[b]]  BY <1>2
<1>8. links_list = [h \in Handle |-> Those(blocks, LinksOf(h))]
  BY <1>2 DEF LinksOf
<1> QED  BY <1>2, <1>3, <1>4, <1>5, <1>6, <1>7, <1>8 DEF given

(* init_tsch_schedule leaves the schedule in order. *)
LEMMA InitialScheduleOK == ASSUME Init PROVE EditInv /\ LengthsInv
<1> DEFINE given == InitialSchedule.links
<1>1. \A i \in DOMAIN given :
        /\ given[i] \in LinkRecord
        /\ given[i].timeslot < InitialSchedule.size[given[i].slotframe_handle]
  BY InitialAssumption
<1>2. PICK blocks \in [DOMAIN given -> Block] :
        /\ blocks \in Seq(Block) /\ IsInjective(blocks)
        /\ Range(blocks) = Installed
        /\ \A b \in Installed : \E i \in DOMAIN given :
             blocks[i] = b /\ link[b] = given[i]
        /\ link = [b \in Block |-> link[b]]
        /\ \A b \in Block \ Installed : link[b] = Free
        /\ links_list = [h \in Handle |-> Those(blocks, LinksOf(h))]
  BY InitialLinks
<1>3. size = InitialSchedule.size /\ slotframe_list = InitialSchedule.slotframes
  BY DEF Init
<1> HIDE DEF given
<1>4. /\ \A b \in Installed : /\ link[b] \in LinkRecord
                              /\ link[b].timeslot
                                   < size[link[b].slotframe_handle]
      /\ link \in [Block -> LinkRecord \cup {Free}]
  <2>1. \A b \in Installed : /\ link[b] \in LinkRecord
                             /\ link[b].timeslot
                                  < size[link[b].slotframe_handle]
    BY <1>1, <1>2, <1>3
  <2>2. \A b \in Block : link[b] \in LinkRecord \cup {Free}
    BY <1>2, <2>1
  <2> QED  BY <1>2, <2>1, <2>2
<1>5. \A h \in Handle :
        /\ links_list[h] \in Seq(Block)
        /\ Range(links_list[h]) = LinksOf(h)
        /\ IsInjective(links_list[h])
  <2> SUFFICES ASSUME NEW h \in Handle
               PROVE  /\ links_list[h] \in Seq(Block)
                      /\ Range(links_list[h]) = LinksOf(h)
                      /\ IsInjective(links_list[h])
    OBVIOUS
  <2>1. links_list[h] = Those(blocks, LinksOf(h))  BY <1>2
  <2>2. LinksOf(h) \subseteq Range(blocks)  BY <1>2 DEF LinksOf
  <2>3. /\ Those(blocks, LinksOf(h)) \in Seq(Block)
        /\ Range(Those(blocks, LinksOf(h))) = Range(blocks) \cap LinksOf(h)
        /\ IsInjective(blocks) => IsInjective(Those(blocks, LinksOf(h)))
    BY <1>2, ThoseElements
  <2> QED  BY <1>2, <2>1, <2>2, <2>3
<1>6. links_list \in [Handle -> Seq(Block)]
  <2>1. DOMAIN links_list = Handle /\ links_list = [h \in Handle |-> links_list[h]]
    BY <1>2
  <2> QED  BY <1>5, <2>1
<1>7. PoolTypeOK
  BY <1>3, <1>4, <1>6, InitialAssumption DEF PoolTypeOK
<1>8. PoolInv
  BY <1>3, <1>4, <1>5, InitialAssumption DEF PoolInv
<1>9. TodoOK(todo)  BY NothingIsRemoval, RemovalIsOK DEF Init
<1>10. CountInv
  <2>1. \A a : /\ Cardinality(TxLinks(a)) \in Nat
               /\ Cardinality(DedicatedLinks(a)) \in Nat
    BY CountedLinks
  <2>2. /\ tx_links_count = [a \in Address |-> Cardinality(TxLinks(a))]
        /\ dedicated_tx_links_count =
             [a \in Address |-> Cardinality(DedicatedLinks(a))]
        /\ missed = {}
    BY DEF Init, TxLinks, DedicatedLinks
  <2>3. CountTypeOK  BY <2>1, <2>2 DEF CountTypeOK
  <2>4. \A a \in Address : Counted(a)  BY <2>2 DEF Counted
  <2> QED  BY <2>3, <2>4 DEF CountInv
<1>11. LengthsInv  BY <1>3 DEF LengthsInv, Lengths
<1> QED  BY <1>7, <1>8, <1>9, <1>10, <1>11 DEF EditInv

(* The sizes that a call leaves are those it was given. *)
LEMMA EditKeepsLengths ==
  ASSUME EditInv, LengthsInv, Edit PROVE LengthsInv'
<1>1. CASE size' = size  BY <1>1 DEF LengthsInv
<1>2. CASE AddSlotframe /\ size' # size
  <2>1. /\ Head(todo) \in SectionRecord /\ Head(todo).op = "add_slotframe"
    BY <1>2, SectionRuns DEF EditInv, AddSlotframe
  <2>2. Head(todo).handle \in Handle /\ Head(todo).size \in CallSizes
    BY <2>1 DEF SectionRecord, RemovalRecord
  <2>3. size' = [size EXCEPT ![Head(todo).handle] = Head(todo).size]
    BY <1>2 DEF AddSlotframe
  <2>4. size \in [Handle -> Nat]  BY DEF EditInv, PoolTypeOK
  <2>5. CallSizes \subseteq Lengths  BY CallSizesArePositive DEF Lengths
  <2> QED  BY <2>2, <2>3, <2>4, <2>5 DEF LengthsInv
<1>3. CASE RemoveSlotframe
  <2>1. size' = [size EXCEPT ![Head(todo).handle] = 0]
    BY <1>3 DEF RemoveSlotframe
  <2>2. size \in [Handle -> Nat]  BY DEF EditInv, PoolTypeOK
  <2>3. \A h \in Handle : size'[h] = size[h] \/ size'[h] = 0  BY <2>1, <2>2
  <2> QED  BY <2>3 DEF LengthsInv
<1> QED
  BY <1>1, <1>2, <1>3 DEF Edit, Start, AddLink, RemoveLink, poolVars

(* Only process context changes the schedule. *)
LEMMA OthersKeepSchedule ==
  ASSUME [Next]_vars
  PROVE  EditSchedule \/ UNCHANGED <<poolVars, countVars, todo>>
BY DEF Next, vars, scheduleVars, Associate, Skip, StartSlot, FinishSlot, Leave,
       RepeatLink, NextLink

ScheduleInv == EditInv /\ LengthsInv

(* The interrupt leaves the schedule alone; an edit keeps it in order. *)
LEMMA ScheduleInvStep ==
  ASSUME ScheduleInv, [Next]_vars PROVE ScheduleInv'
<1>1. CASE EditSchedule
  BY <1>1, EditKeeps, EditKeepsLengths DEF ScheduleInv, EditSchedule
<1>2. CASE UNCHANGED <<poolVars, countVars, todo>>
  <2>1. LengthsInv'  BY <1>2 DEF ScheduleInv, LengthsInv, poolVars
  <2> QED  BY <1>2, <2>1, EditInvStable DEF ScheduleInv
<1> QED  BY <1>1, <1>2, OthersKeepSchedule

(* So the schedule is in order under the slot operation. *)
LEMMA ScheduleInvariant == Spec => []ScheduleInv
<1>1. Init => ScheduleInv  BY InitialScheduleOK DEF ScheduleInv
<1>2. ScheduleInv /\ [Next]_vars => ScheduleInv'  BY ScheduleInvStep
<1> QED  BY <1>1, <1>2, PTL DEF Spec

(* What the search finds is a link that is installed, at the distance of   *)
(* its timeslot.                                                           *)
LEMMA WhatIsFound ==
  ASSUME ScheduleInv, NEW n \in 0 .. AsnCycle - 1, NEW queued \in Queued
  PROVE  LET found == NextActiveLink(n, queued)
             Meets(b) == /\ b \in Installed
                       /\ size[link[b].slotframe_handle] \in Lengths
                       /\ (n + found.time) % size[link[b].slotframe_handle]
                            = link[b].timeslot
         IN /\ found \in Found
            /\ found.best # NoLink =>
                 /\ Meets(found.best)
                 /\ found.time \in 1 .. size[link[found.best].slotframe_handle]
            /\ found.backup # NoLink => found.best # NoLink /\ Meets(found.backup)
<1> DEFINE found == NextActiveLink(n, queued)
           length(b) == size[link[b].slotframe_handle]
<1>1. /\ n \in Nat /\ queued \in [Address -> Nat]
      /\ PoolTypeOK /\ PoolInv /\ WellFormed
  BY ScheduleIsWellFormed, ScheduleAssumption DEF ScheduleInv, EditInv, Queued
<1>2. /\ found \in Found
      /\ FoundFirst(found, Installed, n, queued)
      /\ FoundListener(found, Installed, n)
  BY <1>1, SearchFindsFirst
<1> HIDE DEF found
<1>3. \A b \in Installed :
        /\ length(b) \in Lengths
        /\ TimeToLink(n, b) \in 1 .. length(b)
        /\ (n + TimeToLink(n, b)) % length(b) = link[b].timeslot
        /\ b # NoLink
  <2> SUFFICES ASSUME NEW b \in Installed
               PROVE  /\ length(b) \in Lengths
                      /\ TimeToLink(n, b) \in 1 .. length(b)
                      /\ (n + TimeToLink(n, b)) % length(b) = link[b].timeslot
                      /\ b # NoLink
    OBVIOUS
  <2>1. /\ length(b) \in Nat \ {0} /\ TimeToLink(n, b) \in 1 .. length(b)
        /\ (n + TimeToLink(n, b)) % length(b) = link[b].timeslot
    BY <1>1, DistanceOfLink
  <2>2. link[b].slotframe_handle \in Handle /\ b # NoLink
    BY <1>1, ScheduleAssumption DEF Installed, PoolTypeOK, LinkRecord
  <2> QED  BY <2>1, <2>2 DEF ScheduleInv, LengthsInv
<1> HIDE DEF length
<1>4. ASSUME found.best # NoLink
      PROVE  found.best \in Installed /\ found.time = TimeToLink(n, found.best)
  BY <1>2, <1>4 DEF FoundFirst, NothingFound
<1>5. ASSUME found.backup # NoLink
      PROVE  /\ found.best # NoLink /\ found.backup \in Installed
             /\ found.time = TimeToLink(n, found.backup)
  <2>1. /\ found.backup \in Installed
        /\ found.time = TimeToLink(n, found.backup)
    BY <1>2, <1>5 DEF FoundListener
  <2>2. found.best \in Installed  BY <1>2, <2>1 DEF FoundFirst
  <2> QED  BY <1>3, <2>1, <2>2
<1> QED  BY <1>2, <1>3, <1>4, <1>5 DEF found, length

(* So the next slot is half a turn of the clock away at most.              *)
LEMMA SlotsAreNear ==
  ASSUME ScheduleInv, NEW n \in 0 .. AsnCycle - 1, NEW queued \in Queued,
         NextActiveLink(n, queued).best # NoLink
  PROVE  /\ NextActiveLink(n, queued).time \in Nat \ {0}
         /\ 2 * (NextActiveLink(n, queued).time * SlotLength + MaxDrift)
              <= ClockModulus
<1> DEFINE time == NextActiveLink(n, queued).time
           length == size[link[NextActiveLink(n, queued).best].slotframe_handle]
<1>1. length \in Lengths /\ time \in 1 .. length  BY WhatIsFound
<1> HIDE DEF time, length
<1>2. length \in Nat /\ 2 * (length * SlotLength + MaxDrift) <= ClockModulus
  BY <1>1, LengthsAreShort
<1>3. /\ SlotLength \in Nat /\ MaxDrift \in Nat /\ ClockModulus \in Nat
  BY TimelineAssumption, ClockAssumption
<1>4. PICK k \in Nat : length = time + k
  <2>1. length - time \in Nat /\ length = time + (length - time)
    BY <1>1, <1>2
  <2> QED  BY <2>1
<1>5. length * SlotLength = time * SlotLength + k * SlotLength
      /\ k * SlotLength \in Nat /\ time * SlotLength \in Nat
      /\ length * SlotLength \in Nat
  BY <1>1, <1>2, <1>3, <1>4
<1>6. time * SlotLength <= length * SlotLength  BY <1>5
<1>7. 2 * (time * SlotLength + MaxDrift) <= ClockModulus
  BY <1>2, <1>3, <1>5, <1>6
<1> QED  BY <1>1, <1>7 DEF time

TimeInv ==
  /\ asn \in 0 .. AsnCycle - 1
  /\ current_slot_start \in Clock
  /\ elapsed \in Nat
  /\ 2 * elapsed < ClockModulus
  /\ drift_correction \in -MaxDrift .. MaxDrift
  /\ corrected \in Clock
  /\ overslept = 0

(* The sum of two clock values is one. *)
LEMMA PlusType ==
  ASSUME NEW t \in Clock, NEW d \in Clock PROVE Plus(t, d) \in Clock
BY ClockAssumption DEF Clock, Plus

(* The offset of a slot diff slots ahead, corrected, is longer than the    *)
(* guard and at most half a turn of the clock.                             *)
LEMMA OffsetInRange ==
  ASSUME NEW diff \in Nat \ {0}, NEW drift \in -MaxDrift .. MaxDrift,
         2 * (diff * SlotLength + MaxDrift) <= ClockModulus
  PROVE  /\ diff * SlotLength + drift \in Clock
         /\ RtimerGuard < diff * SlotLength + drift
         /\ 2 * (diff * SlotLength + drift) <= ClockModulus
<1>1. /\ SlotLength \in Nat /\ RtimerGuard \in Nat /\ MaxDrift \in Nat
      /\ RtimerGuard + MaxDrift < SlotLength /\ ClockModulus \in Nat \ {0}
  BY TimelineAssumption, ClockAssumption
<1>2. diff * SlotLength \in Nat /\ diff * SlotLength >= SlotLength
  BY <1>1
<1> DEFINE p == diff * SlotLength
<1>3. p \in Nat /\ p >= SlotLength /\ 2 * (p + MaxDrift) <= ClockModulus
  BY <1>2
<1> HIDE DEF p
<1>4. /\ p + drift \in Clock /\ RtimerGuard < p + drift
      /\ 2 * (p + drift) <= ClockModulus
  BY <1>1, <1>3 DEF Clock
<1> QED  BY <1>4 DEF p

(* Scheduling a slot sets its timer on time, or is late by less than it    *)
(* was.                                                                    *)
LEMMA ScheduleSlotOnTime ==
  ASSUME TimeInv, NEW offset \in Clock, RtimerGuard < offset,
         2 * offset <= ClockModulus, ScheduleSlot(offset)
  PROVE  /\ current_slot_start' \in Clock
         /\ elapsed' \in Nat
         /\ 2 * elapsed' < ClockModulus
         /\ overslept' = 0
<1> DEFINE now == Plus(current_slot_start, elapsed)
           target == Plus(current_slot_start, offset)
<1>1. ClockModulus \in Nat \ {0} /\ RtimerGuard \in Nat
  BY ClockAssumption, TimelineAssumption
<1>2. /\ current_slot_start \in Clock /\ elapsed \in Clock
      /\ 2 * elapsed < ClockModulus /\ overslept = 0
  BY <1>1 DEF TimeInv, Clock
<1>3. current_slot_start' = target /\ target \in Clock
  BY <1>2, PlusType DEF ScheduleSlot
<1>4. offset - RtimerGuard \in Clock  BY <1>1 DEF Clock
<1>5. CASE /\ elapsed' = elapsed + BusyWait(now, target) - offset
           /\ overslept' = overslept
  <2>1. 2 * (elapsed - offset) < ClockModulus
        /\ 2 * (offset - elapsed) <= ClockModulus
    BY <1>1, <1>2 DEF Clock
  <2>2. BusyWait(now, target) = IF elapsed >= offset THEN 0
                                                     ELSE offset - elapsed
    BY <1>2, <2>1, BusyWaitEndsOnTime
  <2> HIDE DEF now, target
  <2>3. elapsed' = IF elapsed >= offset THEN elapsed - offset ELSE 0
    BY <1>2, <1>5, <2>2 DEF Clock
  <2> QED  BY <1>1, <1>2, <1>3, <1>5, <2>3 DEF Clock
<1>6. CASE /\ ~Missed(offset)
           /\ elapsed' = 0
           /\ overslept' = elapsed + TimerWait(now, target) - offset
  <2>1. ~CheckTimerMiss(current_slot_start, offset - RtimerGuard, now)
    BY <1>6 DEF Missed
  <2>2. TimerWait(now, target) = offset - elapsed
    BY <1>2, <1>4, <2>1, TimerFiresOnTime
  <2> HIDE DEF now, target
  <2>3. overslept' = 0  BY <1>2, <1>6, <2>2 DEF Clock
  <2> QED  BY <1>1, <1>3, <1>6, <2>3
<1> QED  BY <1>5, <1>6 DEF ScheduleSlot

(* One turn of the loop keeps the time. *)
LEMMA AdvanceKeepsTime ==
  ASSUME TimeInv, NEW diff \in Nat \ {0},
         2 * (diff * SlotLength + MaxDrift) <= ClockModulus, Advance(diff)
  PROVE  TimeInv'
<1>1. drift_correction \in -MaxDrift .. MaxDrift /\ MaxDrift \in Nat
  BY TimelineAssumption DEF TimeInv
<1>2. ScheduleSlot(diff * SlotLength + drift_correction)  BY DEF Advance
<1>3. /\ current_slot_start' \in Clock /\ elapsed' \in Nat
      /\ 2 * elapsed' < ClockModulus /\ overslept' = 0
  BY <1>1, <1>2, OffsetInRange, ScheduleSlotOnTime
<1>4. asn' \in 0 .. AsnCycle - 1
  BY ScheduleAssumption DEF Advance, TimeInv
<1>5. drift_correction' \in -MaxDrift .. MaxDrift
  BY <1>1 DEF Advance, DriftAfter
<1>6. corrected' \in Clock  BY DEF Advance, TimeInv
<1> QED  BY <1>3, <1>4, <1>5, <1>6 DEF TimeInv

(* The slot operation goes on to what the search found, or by one slot.    *)
LEMMA NextLinkAdvances ==
  ASSUME ScheduleInv, TimeInv, NextLink
  PROVE  \E queued \in Queued, found \in Found, diff \in Nat \ {0} :
           /\ found \in {NextActiveLink(asn, queued), NothingFound}
           /\ Find(found)
           /\ Advance(diff)
           /\ 2 * (diff * SlotLength + MaxDrift) <= ClockModulus
           /\ found.best # NoLink =>
                diff = found.time /\ found = NextActiveLink(asn, queued)
<1>1. PICK queued \in Queued :
        \E found \in {NextActiveLink(asn, queued)}
                       \cup (IF todo = <<>> THEN {} ELSE {NothingFound}) :
          /\ Find(found)
          /\ Advance(IF found.best = NoLink THEN 1 ELSE found.time)
  BY DEF NextLink
<1>2. PICK found \in {NextActiveLink(asn, queued), NothingFound} :
        /\ Find(found)
        /\ Advance(IF found.best = NoLink THEN 1 ELSE found.time)
  BY <1>1
<1>3. NothingFound \in Found /\ NothingFound.best = NoLink
  BY DEF NothingFound, Found, Pointer
<1>4. asn \in 0 .. AsnCycle - 1  BY DEF TimeInv
<1>5. NextActiveLink(asn, queued) \in Found  BY <1>4, WhatIsFound
<1>6. CASE found.best = NoLink
  <2>1. 2 * (1 * SlotLength + MaxDrift) <= ClockModulus /\ 1 \in Nat \ {0}
    BY TimelineAssumption
  <2> QED  BY <1>2, <1>3, <1>5, <1>6, <2>1
<1>7. CASE found.best # NoLink
  <2>1. found = NextActiveLink(asn, queued)  BY <1>2, <1>3, <1>7
  <2>2. /\ found.time \in Nat \ {0}
        /\ 2 * (found.time * SlotLength + MaxDrift) <= ClockModulus
    BY <1>4, <1>7, <2>1, SlotsAreNear
  <2> QED  BY <1>2, <1>5, <1>7, <2>1, <2>2
<1> QED  BY <1>6, <1>7

(* A product is a number: for the provers, which do not multiply. *)
LEMMA ProductOfInts == ASSUME NEW m \in Int, NEW n \in Int PROVE m * n \in Int
OBVIOUS

(* A number of ticks, wrapped around. *)
LEMMA RemainderOfClock == ASSUME NEW n \in Int PROVE n % ClockModulus \in Clock
BY ClockAssumption DEF Clock

(* Every step keeps the time. *)
LEMMA TimeInvStep ==
  ASSUME TimeInv, ScheduleInv, [Next]_vars
  PROVE  TimeInv'
<1> USE DEF TimeInv
<1>1. CASE EditSchedule  BY <1>1 DEF EditSchedule, timeVars
<1>2. CASE Associate
  <2>1. (asn' * SlotLength) % ClockModulus \in Clock
    <3>1. asn' \in Int /\ SlotLength \in Int
      BY <1>2, ScheduleAssumption, TimelineAssumption DEF Associate
    <3> QED  BY <3>1, ProductOfInts, RemainderOfClock
  <2>2. current_slot_start' \in Clock  BY <1>2, TimelineAssumption DEF Associate
  <2>3. corrected' \in Clock
    BY <1>2, <2>1, <2>2, ClockAssumption DEF Associate, Minus, Clock
  <2> QED  BY <1>2, <2>2, <2>3, TimelineAssumption DEF Associate
<1>3. CASE Skip  BY <1>3 DEF Skip
<1>4. CASE StartSlot
  BY <1>4, TimelineAssumption DEF StartSlot
<1>5. CASE FinishSlot
  <2>1. corrected + drift_correction' \in Int
    BY <1>5, ClockAssumption, TimelineAssumption DEF FinishSlot, Clock
  <2>2. corrected' \in Clock  BY <1>5, <2>1, RemainderOfClock DEF FinishSlot
  <2> QED  BY <1>5, <2>2, TimelineAssumption DEF FinishSlot
<1>6. CASE Leave  BY <1>6 DEF Leave
<1>7. CASE RepeatLink
  <2>1. 2 * (1 * SlotLength + MaxDrift) <= ClockModulus  BY TimelineAssumption
  <2> QED  BY <1>7, <2>1, AdvanceKeepsTime DEF RepeatLink
<1>8. CASE NextLink  BY <1>8, NextLinkAdvances, AdvanceKeepsTime
<1>9. CASE UNCHANGED vars  BY <1>9 DEF vars, timeVars
<1> QED
  BY <1>1, <1>2, <1>3, <1>4, <1>5, <1>6, <1>7, <1>8, <1>9 DEF Next

(* So times stay in their ranges, and no timer is late. *)
LEMMA TimeInvariant == Spec => []TimeInv
<1>1. Init => TimeInv
  BY ScheduleAssumption, ClockAssumption, TimelineAssumption
  DEF Init, TimeInv, Clock
<1>2. TimeInv /\ ScheduleInv /\ [Next]_vars => TimeInv'
  BY TimeInvStep
<1> QED  BY <1>1, <1>2, ScheduleInvariant, PTL DEF Spec

(* "A single overflow": in any schedule that the program can make, from    *)
(* any ASN, the next link is at most half a turn of the clock away.        *)
THEOREM NextSlotIsNear == Spec => []NextSlotWithinHalfATurn
<1>1. ScheduleInv /\ TimeInv => NextSlotWithinHalfATurn
  BY SlotsAreNear DEF TimeInv, NextSlotWithinHalfATurn
<1> QED  BY <1>1, ScheduleInvariant, TimeInvariant, PTL

(* The slot operation sets its timer for the start of the next slot, never *)
(* for one that has passed, which would come a turn of the clock later.    *)
THEOREM OnTime == Spec => []NeverOversleeps
<1>1. TimeInv => NeverOversleeps  BY DEF TimeInv, NeverOversleeps
<1> QED  BY <1>1, TimeInvariant, PTL


-----------------------------------------------------------------------------
(* The rest of the state has its type too. *)
PlaceTypeOK ==
  /\ current_link \in Pointer
  /\ backup_link \in Pointer
  /\ slot \in {"out", "start", "sleep", "run", "end"}
  /\ burst_link_scheduled \in BOOLEAN
  /\ tsch_current_burst_count \in 0 .. BurstMaxLen
  /\ repeated \in Nat
  /\ burst_of \in {"nothing", "current", "another"}

(* Every step keeps these types. *)
LEMMA PlaceTypeStep ==
  ASSUME ScheduleInv, TimeInv, PlaceTypeOK, [Next]_vars PROVE PlaceTypeOK'
<1>1. CASE EditSchedule
  <2>1. /\ UNCHANGED <<slot, backup_link, burst_link_scheduled,
                        tsch_current_burst_count, repeated>>
        /\ burst_of' \in {burst_of, "another"}
    BY <1>1 DEF EditSchedule, timeVars, Edit, Start, AddSlotframe,
                RemoveSlotframe, AddLink, RemoveLink, pointerVars
  <2>2. current_link' \in {current_link, NoLink}
    BY <1>1 DEF EditSchedule, Edit, Start, AddSlotframe, RemoveSlotframe,
                AddLink, RemoveLink, Forget, pointerVars
  <2> QED  BY <2>1, <2>2 DEF PlaceTypeOK, Pointer
<1>2. CASE Associate  BY <1>2 DEF Associate, PlaceTypeOK, burstVars, Pointer
<1>3. CASE Skip \/ Leave
  BY <1>3 DEF Skip, Leave, PlaceTypeOK, scheduleVars, pointerVars, burstVars
<1>4. CASE StartSlot
  BY <1>4 DEF StartSlot, BurstAtStart, SkipsBestLink, PlaceTypeOK
<1>5. CASE FinishSlot
  BY <1>5 DEF FinishSlot, PlaceTypeOK, scheduleVars, pointerVars
<1>6. ASSUME NEW diff, Advance(diff), slot \in {"start", "end"}
      PROVE  slot' \in {"start", "end", "sleep"}
  BY <1>6 DEF Advance, ScheduleSlot
<1>7. CASE RepeatLink
  <2>1. slot' \in {"start", "end", "sleep"}
    BY <1>6, <1>7 DEF RepeatLink, InBurst
  <2> QED
    BY <1>7, <2>1, TimelineAssumption DEF RepeatLink, PlaceTypeOK, Pointer
<1>8. CASE NextLink
  <2>1. PICK found \in Found, diff \in Nat \ {0} : Find(found) /\ Advance(diff)
    BY <1>8, NextLinkAdvances
  <2>2. slot' \in {"start", "end", "sleep"}
    BY <1>6, <1>8, <2>1 DEF NextLink
  <2>3. /\ tsch_current_burst_count' \in {0, tsch_current_burst_count}
        /\ repeated' = 0 /\ burst_link_scheduled' = burst_link_scheduled
        /\ burst_of' \in {burst_of, "nothing"}
    BY <1>8 DEF NextLink
  <2> QED  BY <2>1, <2>2, <2>3, TimelineAssumption DEF PlaceTypeOK, Find, Found
<1>9. CASE UNCHANGED vars
  BY <1>9 DEF vars, scheduleVars, pointerVars, timeVars, burstVars, PlaceTypeOK
<1> QED
  BY <1>1, <1>2, <1>3, <1>4, <1>5, <1>7, <1>8, <1>9 DEF Next

(* The state of the timeline, and of the schedule under it, has its type:  *)
(* ticks and corrections stay in their range, and the pointers of the slot *)
(* operation are blocks or NULL.                                           *)
THEOREM TimelineTypeCorrect == Spec => []TypeOK
<1>1. Init => PlaceTypeOK
  <2> SUFFICES ASSUME Init PROVE PlaceTypeOK
    OBVIOUS
  <2>1. burst_link_scheduled \in BOOLEAN  BY DEF Init
  <2>2. /\ current_link \in Pointer /\ backup_link \in Pointer
        /\ slot \in {"out", "start", "sleep", "run", "end"}
        /\ tsch_current_burst_count \in 0 .. BurstMaxLen /\ repeated \in Nat
        /\ burst_of \in {"nothing", "current", "another"}
    BY TimelineAssumption DEF Init, Pointer
  <2> QED  BY <2>1, <2>2 DEF PlaceTypeOK
<1>2. ScheduleInv /\ TimeInv /\ PlaceTypeOK /\ [Next]_vars => PlaceTypeOK'
  BY PlaceTypeStep
<1>3. ScheduleInv /\ TimeInv /\ PlaceTypeOK => TypeOK
  <2> SUFFICES ASSUME ScheduleInv, TimeInv, PlaceTypeOK PROVE TypeOK
    OBVIOUS
  <2>1. CountInv  BY DEF ScheduleInv, EditInv
  <2>2. \A a \in Address \ missed :
          tx_links_count[a] >= 0 /\ dedicated_tx_links_count[a] >= 0
    BY <2>1, CountersAreNat
  <2>3. ScheduleTypeOK
    BY <2>1, <2>2 DEF ScheduleInv, EditInv, PoolTypeOK, CountInv, CountTypeOK,
                      PlaceTypeOK, ScheduleTypeOK, Pointer
  <2>4. overslept \in Nat  BY DEF TimeInv
  <2> QED  BY <2>3, <2>4 DEF TimeInv, PlaceTypeOK, TypeOK
<1> QED
  BY <1>1, <1>2, <1>3, ScheduleInvariant, TimeInvariant, PTL DEF Spec

-----------------------------------------------------------------------------
(* The slot starts where the ASN says, except for the correction that the  *)
(* end of a slot is still to apply.                                        *)
StartInv ==
  /\ slot # "end" => drift_correction = 0
  /\ slot # "out" =>
       (current_slot_start + drift_correction - asn * SlotLength - corrected)
         % ClockModulus = 0

(* A number leaves nothing if it is a multiple. *)
LEMMA MultipleOf ==
  ASSUME NEW d \in Nat \ {0}, NEW n \in Int
  PROVE  n % d = 0 <=> \E q \in Int : n = d * q
<1>1. ASSUME n % d = 0 PROVE \E q \in Int : n = d * q
  <2>1. n \div d \in Int /\ n = d * (n \div d) + (n % d)  OBVIOUS
  <2>2. n = d * (n \div d)  BY <1>1, <2>1
  <2> QED  BY <2>1, <2>2
<1>2. ASSUME NEW q \in Int, n = d * q PROVE n % d = 0
  <2>1. n = d * q + 0 /\ 0 \in 0 .. d - 1  BY <1>2
  <2> QED  BY <2>1, RemainderOf
<1> QED  BY <1>1, <1>2

(* A number and what is left of it differ by a multiple. *)
LEMMA QuotientOf ==
  ASSUME NEW d \in Nat \ {0}, NEW n \in Int
  PROVE  \E q \in Int : n % d = n - d * q
<1>1. n \div d \in Int /\ n = d * (n \div d) + (n % d) /\ n % d \in Int
  OBVIOUS
<1> DEFINE q == n \div d
           r == n % d
           p == d * q
<1>2. q \in Int /\ n = p + r /\ r \in Int  BY <1>1
<1>3. p \in Int  BY <1>2, ProductOfInts
<1>4. r = n - p
  <2> HIDE DEF p, r
  <2> QED  BY <1>2, <1>3
<1> QED  BY <1>2, <1>4

(* What counts the ASN modulo AsnCycle leaves out are turns of the clock.  *)
LEMMA CycleOfClock ==
  ASSUME NEW c \in Int
  PROVE  \E k \in Int : c * AsnCycle * SlotLength = ClockModulus * k
<1>1. /\ AsnCycle \in Int /\ SlotLength \in Int /\ ClockModulus \in Nat \ {0}
      /\ AsnCycle * SlotLength \in Int
  BY ScheduleAssumption, TimelineAssumption, ClockAssumption, ProductOfInts
<1>2. PICK k \in Int : AsnCycle * SlotLength = ClockModulus * k
  BY <1>1, CycleAssumption, MultipleOf
<1>3. c * (ClockModulus * k) = ClockModulus * (c * k) /\ c * k \in Int
  BY <1>1
<1>4. c * AsnCycle * SlotLength = c * (AsnCycle * SlotLength)  BY <1>1
<1> QED  BY <1>2, <1>3, <1>4

(* The start of a slot and the ASN are advanced by the same slots, and the *)
(* correction that was due is then part of the start.                      *)
LEMMA AdvanceKeepsStart ==
  ASSUME TimeInv, NEW diff \in Nat \ {0},
         2 * (diff * SlotLength + MaxDrift) <= ClockModulus, Advance(diff),
         (current_slot_start + drift_correction - asn * SlotLength - corrected)
           % ClockModulus = 0
  PROVE  (current_slot_start' + drift_correction' - asn' * SlotLength
            - corrected') % ClockModulus = 0
<1> DEFINE M == ClockModulus
           S == SlotLength
           A == AsnCycle
           offset == diff * S + drift_correction
           sum == current_slot_start + drift_correction - asn * S - corrected
           sum1 == current_slot_start' + drift_correction' - asn' * S - corrected'
<1>1. /\ M \in Nat \ {0} /\ S \in Int /\ A \in Nat \ {0}
      /\ drift_correction \in Int /\ current_slot_start \in Int
      /\ asn \in Int /\ corrected \in Int /\ diff \in Int
  BY ClockAssumption, TimelineAssumption, ScheduleAssumption
  DEF TimeInv, Clock
<1>2. /\ current_slot_start' = Plus(current_slot_start, offset)
      /\ asn' = (asn + diff) % A
      /\ drift_correction' = 0 /\ corrected' = corrected
  BY DEF Advance, ScheduleSlot, DriftAfter
<1>3. offset \in Int  BY <1>1, ProductOfInts
<1> HIDE DEF M, S, A, offset
<1>4. PICK e \in Int : current_slot_start' = current_slot_start + offset - M * e
  <2>1. M * 0 = 0 /\ M * 1 = M  BY <1>1
  <2>2. \/ current_slot_start' = current_slot_start + offset - 0
        \/ current_slot_start' = current_slot_start + offset - M
    BY <1>1, <1>2, <1>3 DEF Plus, M
  <2> QED  BY <2>1, <2>2
<1>5. PICK c \in Int : asn' = asn + diff - A * c
  <2>1. asn + diff \in Int  BY <1>1
  <2>2. PICK c \in Int : (asn + diff) % A = (asn + diff) - A * c
    BY <1>1, <2>1, QuotientOf, Zenon
  <2> QED  BY <1>1, <1>2, <2>2
<1>6. PICK k \in Int : c * A * S = M * k  BY CycleOfClock DEF A, S, M
<1>7. PICK q \in Int : sum = M * q
  <2>1. sum \in Int  BY <1>1, ProductOfInts
  <2>2. sum % M = 0  BY DEF M, S
  <2> HIDE DEF sum
  <2> QED  BY <1>1, <2>1, <2>2, MultipleOf
<1>8. asn' * S = asn * S + diff * S - M * k
  <2>1. (asn + diff - A * c) * S = asn * S + diff * S - c * A * S  BY <1>1
  <2> QED  BY <1>5, <1>6, <2>1
<1>9. sum1 = M * (q - e + k)
  <2> DEFINE x == asn * S
             y == diff * S
             mq == M * q
             me == M * e
             mk == M * k
  <2>1. /\ x \in Int /\ y \in Int /\ mq \in Int /\ me \in Int /\ mk \in Int
        /\ M * (q - e + k) = mq - me + mk
    BY <1>1, ProductOfInts
  <2>2. offset = y + drift_correction  BY DEF offset
  <2>3. sum = current_slot_start + drift_correction - x - corrected  OBVIOUS
  <2>4. asn' * S = x + y - mk  BY <1>8
  <2>5. current_slot_start' = current_slot_start + offset - me  BY <1>4
  <2> HIDE DEF x, y, mq, me, mk, sum
  <2>6. sum1 = current_slot_start' + 0 - (x + y - mk) - corrected
    BY <1>2, <2>4
  <2> HIDE DEF sum1
  <2>7. sum1 = mq - me + mk
    BY <1>1, <1>7, <2>1, <2>2, <2>3, <2>5, <2>6 DEF mq
  <2> QED  BY <2>1, <2>7
<1>10. sum1 \in Int /\ q - e + k \in Int
  <2>1. q - e + k \in Int  OBVIOUS
  <2> HIDE DEF sum1
  <2> QED  BY <1>1, <1>9, <2>1, ProductOfInts
<1>11. sum1 % M = 0
  <2> HIDE DEF sum1
  <2> QED  BY <1>1, <1>9, <1>10, MultipleOf
<1> QED  BY <1>11 DEF M, S

(* A node that joins takes its ASN and its start together.                 *)
LEMMA AssociateStarts ==
  ASSUME TimeInv, TimeInv', Associate
  PROVE  (current_slot_start' + 0 - asn' * SlotLength - corrected')
           % ClockModulus = 0
<1> DEFINE M == ClockModulus
           x == asn' * SlotLength
           s == current_slot_start'
<1>1. /\ M \in Nat \ {0} /\ x \in Int /\ s \in Clock
  <2>1. asn' \in Int /\ SlotLength \in Int
    BY ScheduleAssumption, TimelineAssumption DEF TimeInv
  <2> QED  BY <2>1, ClockAssumption, ProductOfInts DEF TimeInv
<1>2. corrected' = Minus(s, x % M)  BY DEF Associate
<1> HIDE DEF x, s
<1>3. x % M \in Clock  BY <1>1, RemainderOfClock DEF M
<1>4. PICK q \in Int : x % M = x - M * q  BY <1>1, QuotientOf
<1>5. s \in Int /\ x % M \in Int /\ M * q \in Int
  BY <1>1, <1>3, ProductOfInts DEF Clock
<1>6. corrected' = s - (x - M * q) \/ corrected' = s - (x - M * q) + M
  BY <1>1, <1>2, <1>4, <1>5 DEF Minus, M
<1> DEFINE mq == M * q
           sum == s + 0 - x - corrected'
<1>7. sum = 0 - mq \/ sum = 0 - mq - M
  <2> HIDE DEF mq
  <2>1. corrected' = s - (x - mq) \/ corrected' = s - (x - mq) + M
    BY <1>6 DEF mq
  <2>2. mq \in Int  BY <1>5 DEF mq
  <2> QED  BY <1>1, <1>5, <2>1, <2>2
<1>8. M * (0 - q) = 0 - mq /\ M * (0 - q - 1) = 0 - mq - M  BY <1>1
<1>9. sum \in Int /\ \E p \in Int : sum = M * p
  <2> HIDE DEF sum, mq
  <2>1. 0 - q \in Int /\ 0 - q - 1 \in Int  OBVIOUS
  <2>2. \E p \in Int : sum = M * p  BY <1>7, <1>8, <2>1
  <2> QED  BY <1>1, <2>2, ProductOfInts
<1>10. sum % M = 0
  <2> HIDE DEF sum
  <2> QED  BY <1>1, <1>9, MultipleOf
<1> QED  BY <1>10 DEF s, x

(* A slot that has run applies its correction once: to what is due, and to *)
(* the sum of the corrections.                                             *)
LEMMA FinishSlotCorrects ==
  ASSUME TimeInv, TimeInv', FinishSlot, drift_correction = 0,
         (current_slot_start + drift_correction - asn * SlotLength - corrected)
           % ClockModulus = 0
  PROVE  (current_slot_start' + drift_correction' - asn' * SlotLength
            - corrected') % ClockModulus = 0
<1> DEFINE M == ClockModulus
           x == asn * SlotLength
           d == drift_correction'
           sum == current_slot_start + drift_correction - x - corrected
           sum1 == current_slot_start' + d - asn' * SlotLength - corrected'
<1>1. /\ M \in Nat \ {0} /\ x \in Int /\ d \in Int
      /\ current_slot_start \in Int /\ corrected \in Int
  <2>1. asn \in Int /\ SlotLength \in Int
    BY ScheduleAssumption, TimelineAssumption DEF TimeInv
  <2>2. d \in Int  BY TimelineAssumption DEF TimeInv
  <2> QED  BY <2>1, <2>2, ClockAssumption, ProductOfInts DEF TimeInv, Clock
<1>2. /\ current_slot_start' = current_slot_start /\ asn' = asn
      /\ corrected' = (corrected + d) % M
  BY DEF FinishSlot
<1> HIDE DEF x, d
<1>3. PICK q \in Int : corrected' = corrected + d - M * q
  <2>1. corrected + d \in Int  BY <1>1
  <2>2. PICK q \in Int : (corrected + d) % M = (corrected + d) - M * q
    BY <1>1, <2>1, QuotientOf, Zenon
  <2>3. M * q \in Int  BY <1>1, ProductOfInts
  <2> HIDE DEF M
  <2>4. corrected' = corrected + d - M * q  BY <1>1, <1>2, <2>2, <2>3
  <2> QED  BY <2>4
<1>4. sum \in Int  BY <1>1
<1>5. PICK p \in Int : sum = M * p
  <2>1. sum % M = 0  BY DEF x
  <2> HIDE DEF sum
  <2> QED  BY <1>1, <1>4, <2>1, MultipleOf
<1>6. sum1 = M * (p + q)
  <2> DEFINE mp == M * p
             mq == M * q
  <2>1. mp \in Int /\ mq \in Int /\ M * (p + q) = mp + mq
    BY <1>1, ProductOfInts
  <2>2. sum = current_slot_start + 0 - x - corrected  OBVIOUS
  <2>3. sum1 = current_slot_start + d - x - (corrected + d - mq)
    BY <1>2, <1>3 DEF x
  <2>4. sum = mp  BY <1>5
  <2> HIDE DEF mp, mq, sum, sum1
  <2>5. sum1 = mp + mq  BY <1>1, <2>1, <2>2, <2>3, <2>4
  <2> QED  BY <2>1, <2>5
<1>7. sum1 \in Int /\ p + q \in Int
  <2>1. p + q \in Int  OBVIOUS
  <2> HIDE DEF sum1
  <2> QED  BY <1>1, <1>6, <2>1, ProductOfInts
<1>8. sum1 % M = 0
  <2> HIDE DEF sum1
  <2> QED  BY <1>1, <1>6, <1>7, MultipleOf
<1> QED  BY <1>8 DEF d

(* Every step keeps the start of the slot where the ASN says. *)
LEMMA StartInvStep ==
  ASSUME TimeInv, TimeInv', ScheduleInv, StartInv, [Next]_vars
  PROVE  StartInv'
<1> DEFINE Meets == (current_slot_start + drift_correction - asn * SlotLength
                       - corrected) % ClockModulus = 0
<1>1. CASE \/ EditSchedule \/ Skip \/ UNCHANGED vars
  <2>1. UNCHANGED <<current_slot_start, drift_correction, asn, corrected>>
    BY <1>1 DEF EditSchedule, Skip, vars, timeVars
  <2>2. Meets' <=> Meets  BY <2>1
  <2>3. /\ slot' # "end" => drift_correction' = 0
        /\ slot' # "out" => Meets'
    BY <1>1, <2>1, <2>2
    DEF StartInv, EditSchedule, Skip, vars, timeVars
  <2> QED  BY <2>3 DEF StartInv
<1>2. CASE Associate
  <2>1. drift_correction' = 0  BY <1>2 DEF Associate, StartInv
  <2> QED  BY <1>2, <2>1, AssociateStarts DEF StartInv
<1>3. CASE StartSlot
  <2>1. /\ UNCHANGED <<current_slot_start, asn, corrected>>
        /\ drift_correction = 0 /\ drift_correction' = 0
    BY <1>3 DEF StartSlot, StartInv
  <2> QED  BY <1>3, <2>1 DEF StartInv, StartSlot
<1>4. CASE FinishSlot
  BY <1>4, FinishSlotCorrects DEF StartInv, FinishSlot
<1>5. CASE Leave  BY <1>5 DEF Leave, StartInv
<1>6. CASE RepeatLink \/ NextLink
  <2>1. slot # "out"  BY <1>6 DEF RepeatLink, InBurst, NextLink
  <2>2. PICK diff \in Nat \ {0} :
          Advance(diff) /\ 2 * (diff * SlotLength + MaxDrift) <= ClockModulus
    <3>1. CASE RepeatLink
      <4>1. 2 * (1 * SlotLength + MaxDrift) <= ClockModulus  BY TimelineAssumption
      <4> QED  BY <3>1, <4>1 DEF RepeatLink
    <3>2. CASE NextLink  BY <3>2, NextLinkAdvances
    <3> QED  BY <1>6, <3>1, <3>2
  <2>3. Meets'  BY <2>1, <2>2, AdvanceKeepsStart DEF StartInv
  <2>4. drift_correction' = 0  BY <2>2 DEF Advance, DriftAfter
  <2> QED  BY <2>3, <2>4 DEF StartInv
<1> QED  BY <1>1, <1>2, <1>3, <1>4, <1>5, <1>6 DEF Next

(* However many deadlines are missed, and whatever is corrected, the start *)
(* of a slot is its ASN times the length of a slot, plus each correction   *)
(* exactly once.                                                           *)
THEOREM StartFollowsAsn == Spec => []SlotStartFollowsAsn
<1>1. Init => StartInv  BY DEF Init, StartInv
<1>2. TimeInv /\ TimeInv' /\ ScheduleInv /\ StartInv /\ [Next]_vars => StartInv'
  BY StartInvStep
<1>3. StartInv => SlotStartFollowsAsn
  <2>1. CASE slot = "end"  BY <2>1 DEF StartInv, SlotStartFollowsAsn
  <2>2. CASE slot # "end"
    BY <2>2 DEF StartInv, SlotStartFollowsAsn
  <2> QED  BY <2>1, <2>2
<1> QED  BY <1>1, <1>2, <1>3, TimeInvariant, ScheduleInvariant, PTL DEF Spec

-----------------------------------------------------------------------------
(* The schedule of node.c.  Slotframe 0 keeps its link, a timeslot of      *)
(* slotframe 1 has one link at most, and what a call has left only removes *)
(* and adds such links; so the backup, which is of slotframe 0, is never   *)
(* removed under the slot operation.                                       *)
OneLinkEach ==
  \A b, c \in Installed :
    /\ link[b].slotframe_handle = link[c].slotframe_handle
    /\ link[b].timeslot = link[c].timeslot
    => b = c
UnicastOnly(s) ==
  \A i \in 1 .. Len(s) :
    \/ /\ s[i].op = "remove_link"
       /\ s[i].block \in Installed => UnicastLink(link[s[i].block])
    \/ s[i].op = "add_link" /\ s[i].do_remove /\ UnicastLink(s[i].link)
QlInv ==
  /\ slotframe_list = <<0, 1>>
  /\ size = InitialSchedule.size
  /\ \A b \in Installed : BroadcastLink(link[b]) \/ UnicastLink(link[b])
  /\ OneLinkEach
  /\ UnicastOnly(todo)
  /\ backup_link # NoLink =>
       backup_link \in Installed /\ BroadcastLink(link[backup_link])

(* No link is of both kinds: their slotframes differ. *)
LEMMA EitherLink ==
  \A l : ~(BroadcastLink(l) /\ UnicastLink(l))
BY DEF BroadcastLink, UnicastLink

(* The search goes through the broadcast slotframe first. *)
LEMMA BroadcastFirst ==
  ASSUME PoolTypeOK, PoolInv, slotframe_list = <<0, 1>>,
         NEW i \in 1 .. Len(AllLinks), NEW j \in 1 .. Len(AllLinks), i < j,
         link[AllLinks[i]].slotframe_handle # 0
  PROVE  link[AllLinks[j]].slotframe_handle # 0
<1> DEFINE s == links_list[0]
           t == links_list[1]
           seqs == [k \in DOMAIN slotframe_list |-> links_list[slotframe_list[k]]]
<1>1. 0 \in Handle /\ 1 \in Handle
  <2>1. /\ <<0, 1>> \in Seq(Handle) /\ Len(<<0, 1>>) = 2
        /\ <<0, 1>>[1] = 0 /\ <<0, 1>>[2] = 1
    BY DEF PoolTypeOK
  <2> QED  BY <2>1
<1>2. /\ s \in Seq(Block) /\ t \in Seq(Block)
      /\ Range(s) = LinksOf(0) /\ Range(t) = LinksOf(1)
  BY <1>1 DEF PoolTypeOK, PoolInv
<1>3. /\ seqs \in Seq(Seq(Block)) /\ Len(seqs) = 2
      /\ seqs[1] = s /\ seqs[2] = t
  <2>1. DOMAIN slotframe_list = 1 .. 2 /\ slotframe_list[1] = 0
        /\ slotframe_list[2] = 1
    OBVIOUS
  <2>2. seqs = [k \in 1 .. 2 |-> links_list[slotframe_list[k]]]  BY <2>1
  <2>3. \A k \in 1 .. 2 : links_list[slotframe_list[k]] \in Seq(Block)
    <3>1. \A k \in 1 .. 2 : k = 1 \/ k = 2  OBVIOUS
    <3> QED  BY <1>2, <2>1, <3>1
  <2> HIDE DEF seqs
  <2>4. seqs \in [1 .. 2 -> Seq(Block)]  BY <2>2, <2>3
  <2> QED  BY <2>1, <2>2, <2>4
<1>4. AllLinks = FlattenSeq(seqs)  BY DEF AllLinks
<1> HIDE DEF seqs, s, t
<1>5. AllLinks = s \o t
  <2>1. PICK flat \in [0 .. Len(seqs) -> Seq(Block)] :
          /\ flat[0] = <<>>
          /\ flat[Len(seqs)] = FlattenSeq(seqs)
          /\ \A k \in 1 .. Len(seqs) : flat[k] = flat[k - 1] \o seqs[k]
    BY <1>3, FlattenRecursion
  <2>2. flat[1] = flat[1 - 1] \o seqs[1] /\ flat[2] = flat[2 - 1] \o seqs[2]
    <3>1. 1 \in 1 .. 2 /\ 2 \in 1 .. 2  OBVIOUS
    <3> QED  BY <1>3, <2>1, <3>1
  <2>3. flat[1] = <<>> \o s /\ flat[2] = flat[1] \o t
    <3>1. 1 - 1 = 0 /\ 2 - 1 = 1  OBVIOUS
    <3> QED  BY <1>3, <2>1, <2>2, <3>1
  <2> QED  BY <1>2, <1>3, <1>4, <2>1, <2>3, ConcatEmptySeq
<1>6. /\ Len(s) \in Nat /\ Len(t) \in Nat /\ Len(s \o t) = Len(s) + Len(t)
      /\ \A k \in 1 .. Len(s) + Len(t) :
           (s \o t)[k] = IF k <= Len(s) THEN s[k] ELSE t[k - Len(s)]
      /\ DOMAIN s = 1 .. Len(s) /\ DOMAIN t = 1 .. Len(t)
  BY <1>2, ConcatProperties
<1>7. \A k \in 1 .. Len(s) : link[s[k]].slotframe_handle = 0
  BY <1>2, <1>6 DEF Range, LinksOf
<1>8. \A k \in 1 .. Len(t) : link[t[k]].slotframe_handle = 1
  BY <1>2, <1>6 DEF Range, LinksOf
<1>9. i \in 1 .. Len(s) + Len(t) /\ j \in 1 .. Len(s) + Len(t)
  BY <1>5, <1>6
<1>10. ~(i <= Len(s))
  <2>1. ASSUME i <= Len(s) PROVE FALSE
    <3>1. i \in 1 .. Len(s)  BY <1>6, <1>9, <2>1
    <3>2. AllLinks[i] = s[i]  BY <1>5, <1>6, <1>9, <2>1
    <3> QED  BY <1>7, <3>1, <3>2
  <2> QED  BY <2>1
<1>11. ~(j <= Len(s)) /\ j - Len(s) \in 1 .. Len(t)
  BY <1>6, <1>9, <1>10
<1>12. AllLinks[j] = t[j - Len(s)]  BY <1>5, <1>6, <1>9, <1>11
<1> QED  BY <1>8, <1>11, <1>12

(* When a broadcast and a unicast link fall on the same slot, the search   *)
(* keeps the broadcast link, and makes it its own backup.                  *)
OwnBackup(found) ==
  found.backup # NoLink =>
    /\ found.backup = found.best
    /\ BroadcastLink(link[found.best])
    /\ \E b \in Installed : UnicastLink(link[b])

(* One comparison of the two: neither is selected, and both are losers. *)
LEMMA BackupOfBroadcast ==
  ASSUME WellFormed, NEW best \in Installed, NEW l \in Installed,
         BroadcastLink(link[best]), UnicastLink(link[l]),
         NEW backup \in {NoLink, best}, NEW queued
  PROVE  /\ NewBest(best, l, queued) = NoLink
         /\ BackupAmong(BackupAmong(backup, l), best) = best
<1>1. NewBest(best, l, queued) = NoLink
  <2>1. /\ link[best].slotframe_handle = 0 /\ link[best].tx = TRUE
        /\ link[l].slotframe_handle = 1
        /\ link[l].tx = TRUE \/ link[l].tx = FALSE
    <3>1. 0 \in Nat  OBVIOUS
    <3>2. link[best].tx \in BOOLEAN /\ link[l].tx \in BOOLEAN
      BY <3>1, LinkFields
    <3> QED  BY <3>2 DEF BroadcastLink, UnicastLink
  <2>2. CASE link[l].tx = FALSE
    <3>1. link[l].tx # link[best].tx /\ ~link[l].tx  BY <2>1, <2>2
    <3> QED  BY <3>1 DEF NewBest
  <2>3. CASE link[l].tx = TRUE
    <3>1. link[l].tx = link[best].tx  BY <2>1, <2>3, Zenon
    <3>2. /\ link[l].slotframe_handle # link[best].slotframe_handle
          /\ ~(link[l].slotframe_handle < link[best].slotframe_handle)
      <4>1. 1 # 0 /\ ~(1 < 0)  OBVIOUS
      <4> QED  BY <2>1, <4>1, Zenon
    <3> QED  BY <3>1, <3>2 DEF NewBest
  <2> QED  BY <2>1, <2>2, <2>3
<1>2. BackupAmong(backup, l) \in {NoLink, best, l}  BY DEF BackupAmong
<1>3. \A x \in {NoLink, best, l} : BackupAmong(x, best) = best
  BY DEF BackupAmong, BroadcastLink, UnicastLink
<1> QED  BY <1>1, <1>2, <1>3

(* A step of the search keeps the backup of that form. *)
LEMMA SearchStepOfQl ==
  ASSUME ScheduleInv, QlInv, NEW n \in Nat, NEW queued,
         NEW seen \in SUBSET Installed, NEW l \in Installed, l \notin seen,
         \A b \in seen : link[b].slotframe_handle # 0
                           => link[l].slotframe_handle # 0,
         NEW found, FoundFirst(found, seen, n, queued), OwnBackup(found)
  PROVE  OwnBackup(Consider(found, l, n, queued))
<1> DEFINE best == found.best
           next == Consider(found, l, n, queued)
           time == TimeToLink(n, l)
           new == NewBest(best, l, queued)
           backup == IF new # l THEN BackupAmong(found.backup, l)
                                ELSE found.backup
<1>1. next = CASE best = NoLink \/ time < found.time ->
                    [best |-> l, time |-> time, backup |-> NoLink]
               [] best # NoLink /\ time = found.time ->
                    [best |-> IF new = NoLink THEN best ELSE new,
                     time |-> time,
                     backup |-> IF new # best THEN BackupAmong(backup, best)
                                              ELSE backup]
               [] OTHER -> found
  BY DEF Consider
<1> HIDE DEF next
<1>2. WellFormed /\ NoLink \notin Installed
  BY ScheduleIsWellFormed, ScheduleAssumption
  DEF ScheduleInv, EditInv, Installed
<1>3. best # NoLink => time \in Nat /\ found.time \in Nat
  <2>1. best # NoLink => best \in Installed /\ found.time = TimeToLink(n, best)
    BY DEF FoundFirst, NothingFound
  <2> QED  BY <1>2, <2>1, LinkFields
<1>4. CASE best = NoLink \/ time < found.time
  <2>1. ~(best # NoLink /\ time = found.time)
    <3> HIDE DEF time, best
    <3> QED  BY <1>4, <1>3
  <2>2. next = [best |-> l, time |-> time, backup |-> NoLink]
    <3> HIDE DEF time, best, new, backup
    <3> QED  BY <1>1, <1>4, <2>1
  <2>3. next.backup = NoLink  BY <2>2
  <2> QED  BY <2>3 DEF OwnBackup, next
<1>5. CASE best # NoLink /\ ~(time < found.time) /\ time = found.time
  <2>1. best \in seen /\ best \in Installed /\ best # l
        /\ TimeToLink(n, best) = time
    BY <1>5 DEF FoundFirst, NothingFound
  <2>2. link[best].slotframe_handle # link[l].slotframe_handle
    <3>1. ASSUME link[best].slotframe_handle = link[l].slotframe_handle
          PROVE  FALSE
      <4> DEFINE length == size[link[l].slotframe_handle]
      <4>1. /\ (n + TimeToLink(n, best)) % length = link[best].timeslot
            /\ (n + TimeToLink(n, l)) % length = link[l].timeslot
        BY <1>2, <2>1, <3>1, DistanceOfLink
      <4>2. link[best].timeslot = link[l].timeslot  BY <2>1, <4>1
      <4> QED  BY <2>1, <3>1, <4>2 DEF QlInv, OneLinkEach
    <3> QED  BY <3>1
  <2>3. BroadcastLink(link[best]) /\ UnicastLink(link[l])
    BY <2>1, <2>2 DEF QlInv, BroadcastLink, UnicastLink
  <2>4. found.backup \in {NoLink, best}  BY DEF OwnBackup
  <2>5. new = NoLink /\ BackupAmong(BackupAmong(found.backup, l), best) = best
    BY <1>2, <2>1, <2>3, <2>4, BackupOfBroadcast
  <2>6. new # l /\ new # best  BY <1>2, <2>1, <2>5
  <2>7. next.best = best /\ next.backup = best
    <3>1. backup = BackupAmong(found.backup, l)  BY <2>6
    <3>2. next = [best |-> best, time |-> time, backup |-> best]
      BY <1>1, <1>5, <2>5, <2>6, <3>1
    <3> QED  BY <3>2
  <2> QED  BY <2>3, <2>7 DEF OwnBackup, next
<1>6. CASE ~(best = NoLink \/ time < found.time) /\ time # found.time
  <2>1. next = found  BY <1>1, <1>6
  <2> QED  BY <2>1 DEF next
<1> QED  BY <1>4, <1>5, <1>6

(* So what the search returns has a backup of that form. *)
LEMMA SearchOfQl ==
  ASSUME ScheduleInv, QlInv, NEW n \in Nat,
         NEW queued \in [Address -> Nat]
  PROVE  OwnBackup(NextActiveLink(n, queued))
<1> DEFINE list == AllLinks
           N == Len(list)
           Seen(k) == {list[i] : i \in 1 .. k}
<1>1. PoolTypeOK /\ PoolInv /\ slotframe_list = <<0, 1>> /\ WellFormed
  BY ScheduleIsWellFormed DEF ScheduleInv, EditInv, QlInv
<1>2. /\ N \in Nat
      /\ \A k \in 1 .. N : list[k] \in Installed
      /\ \A i, j \in 1 .. N : list[i] = list[j] => i = j
  <2>1. list \in Seq(Block) /\ Range(list) = Installed /\ IsInjective(list)
    BY <1>1, AllLinksOnce
  <2> HIDE DEF list
  <2>2. DOMAIN list = 1 .. N /\ N \in Nat  BY <2>1
  <2> QED  BY <2>1, <2>2 DEF Range, IsInjective
<1>3. \A i, j \in 1 .. N :
        i < j /\ link[list[i]].slotframe_handle # 0
          => link[list[j]].slotframe_handle # 0
  BY <1>1, BroadcastFirst
<1>4. PICK found :
        /\ found[0] = NothingFound
        /\ found[N] = NextActiveLink(n, queued)
        /\ \A k \in 1 .. N :
             /\ found[k] = Consider(found[k - 1], list[k], n, queued)
             /\ found[k - 1] \in Found => found[k] \in Found
  BY <1>1, SearchRecursion
<1> HIDE DEF list
<1> DEFINE Right(k) == /\ FoundFirst(found[k], Seen(k), n, queued)
                       /\ OwnBackup(found[k])
           K == {k \in Nat : k <= N => Right(k)}
<1>5. Right(0)
  <2>1. Seen(0) = {}  OBVIOUS
  <2> HIDE DEF Seen
  <2> QED  BY <1>4, <2>1 DEF FoundFirst, OwnBackup, NothingFound
<1>6. ASSUME NEW k \in Nat, k + 1 <= N, Right(k) PROVE Right(k + 1)
  <2>1. k + 1 \in 1 .. N /\ (k + 1) - 1 = k
        /\ 1 .. k + 1 = (1 .. k) \cup {k + 1}
        /\ \A i \in 1 .. k : i \in 1 .. N /\ i < k + 1
    BY <1>2, <1>6
  <2>2. found[k + 1] = Consider(found[(k + 1) - 1], list[k + 1], n, queued)
    BY <1>4, <2>1
  <2>3. found[k + 1] = Consider(found[k], list[k + 1], n, queued)
    BY <2>1, <2>2
  <2>4. Seen(k + 1) = Seen(k) \cup {list[k + 1]}  BY <2>1
  <2>5. Seen(k) \in SUBSET Installed /\ list[k + 1] \in Installed
    BY <1>2, <2>1
  <2>6. /\ list[k + 1] \notin Seen(k)
        /\ \A b \in Seen(k) : link[b].slotframe_handle # 0
                                => link[list[k + 1]].slotframe_handle # 0
    <3>1. ASSUME NEW i \in 1 .. k PROVE list[i] # list[k + 1]
      <4>1. i # k + 1  BY <2>1
      <4> QED  BY <1>2, <2>1, <4>1
    <3> QED  BY <1>3, <2>1, <3>1
  <2> HIDE DEF Seen
  <2>7. FoundFirst(found[k + 1], Seen(k + 1), n, queued)
    BY <1>1, <1>6, <2>3, <2>4, <2>5, SearchKeepsFirst
  <2>8. OwnBackup(found[k + 1])
    BY <1>6, <2>3, <2>5, <2>6, SearchStepOfQl
  <2> QED  BY <2>7, <2>8
<1>7. Right(N)
  <2> HIDE DEF Right
  <2>1. 0 \in K /\ \A k \in Nat : k \in K => k + 1 \in K  BY <1>5, <1>6
  <2> HIDE DEF K
  <2>2. N \in K  BY <1>2, <2>1, InductionOnNat
  <2> QED  BY <1>2, <2>2 DEF K
<1> QED  BY <1>4, <1>7

(* An edit keeps every link but the one it removes, in a slotframe of the  *)
(* same length.                                                            *)
LEMMA EditKeepsLink ==
  ASSUME EditInv, Edit, NEW b \in Installed,
         ~(RemoveLink /\ Head(todo).block = b)
  PROVE  /\ b \in Installed'
         /\ link'[b] = link[b]
         /\ size'[link[b].slotframe_handle] = size[link[b].slotframe_handle]
<1> DEFINE h == link[b].slotframe_handle
<1>1. /\ b \in Block /\ link[b] # Free /\ h \in Handle /\ b \in LinksOf(h)
      /\ link \in [Block -> LinkRecord \cup {Free}] /\ size \in [Handle -> Nat]
      /\ TodoOK(todo)
  BY DEF EditInv, PoolTypeOK, Installed, LinkRecord, LinksOf
<1>2. size[h] # 0
  <2>1. link[b].timeslot < size[h] /\ link[b].timeslot \in Nat
    BY <1>1 DEF EditInv, PoolInv, PoolTypeOK, Installed, LinkRecord
  <2> QED  BY <1>1, <2>1
<1> SUFFICES link'[b] = link[b] /\ size'[h] = size[h]
  BY <1>1 DEF Installed
<1> HIDE DEF h
<1>3. CASE Start  BY <1>3 DEF Start, poolVars
<1>4. CASE AddSlotframe
  <2>1. /\ Head(todo) = todo[1] /\ todo[1].op = "add_slotframe"
        /\ 1 \in 1 .. Len(todo) /\ \A r : ~Before(r, 1, todo)
    BY <1>1, <1>4, SectionRuns DEF AddSlotframe
  <2>2. size[Head(todo).handle] = 0
    BY <1>1, <2>1 DEF TodoOK, AddSlotframeOK
  <2> QED  BY <1>1, <1>2, <1>4, <2>2 DEF AddSlotframe
<1>5. CASE RemoveSlotframe
  <2>1. /\ Head(todo) = todo[1] /\ todo[1].op = "remove_slotframe"
        /\ 1 \in 1 .. Len(todo) /\ \A r : ~Before(r, 1, todo)
    BY <1>1, <1>5, SectionRuns DEF RemoveSlotframe
  <2>2. Head(todo).handle # h
    BY <1>1, <2>1 DEF TodoOK, RemovalOK
  <2> QED  BY <1>1, <1>5, <2>2 DEF RemoveSlotframe
<1>6. CASE AddLink
  <2>1. size' = size  BY <1>6 DEF AddLink
  <2>2. link' = link \/ \E x \in Block \ Installed :
                          link' = [link EXCEPT ![x] = Head(todo).link]
    BY <1>6 DEF AddLink
  <2> QED  BY <1>1, <2>1, <2>2
<1>7. CASE RemoveLink
  <2>1. size' = size /\ link' = [link EXCEPT ![Head(todo).block] = Free]
    BY <1>7 DEF RemoveLink
  <2> QED  BY <1>1, <1>7, <2>1
<1> QED  BY <1>3, <1>4, <1>5, <1>6, <1>7 DEF Edit

(* init_tsch_schedule makes such a schedule. *)
LEMMA QlInit == ASSUME Init PROVE QlInv
<1>1. PICK blocks \in [DOMAIN InitialSchedule.links -> Block] :
        \A b \in Installed : \E i \in DOMAIN InitialSchedule.links :
          blocks[i] = b /\ link[b] = InitialSchedule.links[i]
  BY InitialLinks
<1>2. \A b \in Installed : BroadcastLink(link[b]) \/ UnicastLink(link[b])
  BY <1>1, QlAssumption
<1>3. OneLinkEach
  <2> SUFFICES ASSUME NEW b \in Installed, NEW c \in Installed,
                      link[b].slotframe_handle = link[c].slotframe_handle,
                      link[b].timeslot = link[c].timeslot
               PROVE  b = c
    BY DEF OneLinkEach
  <2>1. PICK i \in DOMAIN InitialSchedule.links :
          blocks[i] = b /\ link[b] = InitialSchedule.links[i]
    BY <1>1
  <2>2. PICK j \in DOMAIN InitialSchedule.links :
          blocks[j] = c /\ link[c] = InitialSchedule.links[j]
    BY <1>1
  <2>3. i = j  BY <2>1, <2>2, QlAssumption
  <2> QED  BY <2>1, <2>2, <2>3
<1>4. UnicastOnly(todo)
  <2>1. todo = <<>> /\ Len(<<>>) = 0  BY DEF Init
  <2> QED  BY <2>1 DEF UnicastOnly
<1> QED  BY <1>2, <1>3, <1>4, QlAssumption DEF QlInv, Init

(* A call of node.c removes what is at the timeslot of its unicast link,   *)
(* and adds the link.                                                      *)
LEMMA StartOfQl ==
  ASSUME EditInv, QlInv, Start PROVE UnicastOnly(todo')
<1>1. PICK call \in Call : todo' = Sections(call) /\ todo' # <<>>
  BY DEF Start
<1>2. /\ call.op = "add_link" /\ call.do_remove /\ UnicastLink(call.link)
      /\ call \in [op : {"add_link"}, link : LinkRecord, do_remove : BOOLEAN]
  <2>1. call.op = "add_link" /\ call.do_remove /\ UnicastLink(call.link)
    BY QlAssumption
  <2> QED  BY <2>1, ScheduleAssumption DEF CallRecord
<1> DEFINE l == call.link
           list == LinksAt(l.slotframe_handle, l.timeslot, l.channel_offset)
           s == Removals(list)
           n == Len(list)
<1>3. todo' = Append(s, Insertion(call))
  BY <1>1, <1>2 DEF Sections, Addition, Replaced
<1>4. /\ list \in Seq(Block)
      /\ \A i \in 1 .. n : list[i] \in Block /\ UnicastLink(link[list[i]])
  <2>1. l.slotframe_handle \in Handle /\ l.slotframe_handle = 1
    BY <1>2 DEF LinkRecord, UnicastLink
  <2>2. /\ list \in Seq(Block)
        /\ Range(list) = {b \in LinksOf(l.slotframe_handle) :
                            /\ link[b].timeslot = l.timeslot
                            /\ link[b].channel_offset = l.channel_offset}
    BY <2>1, LinksAtPlace DEF EditInv
  <2> HIDE DEF list
  <2>3. \A i \in 1 .. n : list[i] \in LinksOf(1)
    BY <2>1, <2>2 DEF Range
  <2>4. \A b \in LinksOf(1) : b \in Block /\ UnicastLink(link[b])
    BY DEF LinksOf, Installed, QlInv, BroadcastLink
  <2> QED  BY <2>2, <2>3, <2>4
<1> HIDE DEF list
<1>5. /\ n \in Nat
      /\ s = [i \in 1 .. n |-> Unlink(list[i])]
  <2>1. DOMAIN list = 1 .. n /\ n \in Nat  BY <1>4
  <2> QED  BY <2>1 DEF Removals, Unlink
<1> HIDE DEF s, n
<1>6. /\ s \in Seq(RemovalRecord) /\ Len(s) = n
      /\ \A i \in 1 .. n : s[i] = Unlink(list[i])
  <2>1. \A i \in 1 .. n : Unlink(list[i]) \in RemovalRecord
    BY <1>4, SectionFields
  <2> QED  BY <1>5, <2>1
<1> DEFINE x == Insertion(call)
<1>7. x.op = "add_link" /\ x.do_remove /\ UnicastLink(x.link)
  BY <1>2 DEF Insertion
<1> HIDE DEF x
<1>8. /\ Len(Append(s, x)) = n + 1
      /\ \A i \in 1 .. n + 1 : Append(s, x)[i] = IF i = n + 1 THEN x ELSE s[i]
  BY <1>5, <1>6
<1>9. \A i \in 1 .. n + 1 : i = n + 1 \/ i \in 1 .. n  BY <1>5
<1>10. UnicastOnly(Append(s, x))
  BY <1>4, <1>6, <1>7, <1>8, <1>9, SectionFields DEF UnicastOnly
<1> QED  BY <1>3, <1>10 DEF x

(* What is left of it, after an edit. *)
LEMMA UnicastOnlyRest ==
  ASSUME EditInv, QlInv, todo # <<>>, todo' = Tail(todo),
         \A b \in Installed' \cap Installed : link'[b] = link[b],
         \A b \in Block : b \in Installed' /\ b \notin Installed
           => UnicastLink(link'[b])
  PROVE  UnicastOnly(todo)'
<1>1. todo \in Seq(SectionRecord) /\ IsInjective(todo)
  BY DEF EditInv, TodoOK
<1>2. /\ Len(todo') \in Nat
      /\ \A i \in 1 .. Len(todo') :
           i + 1 \in 1 .. Len(todo) /\ todo'[i] = todo[i + 1]
           /\ todo'[i] \in SectionRecord
  <2>1. /\ Tail(todo) \in Seq(SectionRecord)
        /\ \A i \in 1 .. Len(Tail(todo)) :
             i + 1 \in 1 .. Len(todo) /\ Tail(todo)[i] = todo[i + 1]
    BY <1>1, NextSection
  <2> QED  BY <2>1
<1> SUFFICES ASSUME NEW i \in 1 .. Len(todo')
             PROVE  \/ /\ todo'[i].op = "remove_link"
                       /\ todo'[i].block \in Installed'
                            => UnicastLink(link'[todo'[i].block])
                    \/ /\ todo'[i].op = "add_link"
                       /\ todo'[i].do_remove /\ UnicastLink(todo'[i].link)
  BY DEF UnicastOnly
<1> DEFINE r == todo'[i]
<1>3. \/ r.op = "remove_link"
         /\ (r.block \in Installed => UnicastLink(link[r.block]))
      \/ r.op = "add_link" /\ r.do_remove /\ UnicastLink(r.link)
  BY <1>2 DEF QlInv, UnicastOnly
<1>4. r \in SectionRecord  BY <1>2
<1> HIDE DEF r
<1>5. CASE r.op = "remove_link"
           /\ (r.block \in Installed => UnicastLink(link[r.block]))
  <2>1. r.block \in Installed' => UnicastLink(link'[r.block])
    <3>1. CASE r.block \in Installed  BY <1>5, <3>1
    <3>2. CASE r.block \notin Installed
      <4>1. r.block \in Block
        BY <1>4, <1>5 DEF SectionRecord, RemovalRecord
      <4> QED  BY <3>2, <4>1
    <3> QED  BY <3>1, <3>2
  <2> QED  BY <1>5, <2>1 DEF r
<1>6. CASE r.op = "add_link" /\ r.do_remove /\ UnicastLink(r.link)
  BY <1>6 DEF r
<1> QED  BY <1>3, <1>5, <1>6

(* The link that is added finds its timeslot empty. *)
LEMMA AddLinkOfQl ==
  ASSUME EditInv, QlInv, AddLink PROVE QlInv'
<1> DEFINE l == Head(todo).link
<1>1. /\ todo # <<>> /\ todo' = Tail(todo) /\ Head(todo) = todo[1]
      /\ todo[1].op = "add_link" /\ 1 \in 1 .. Len(todo)
      /\ \A r : ~Before(r, 1, todo) /\ TodoOK(todo)
  BY SectionRuns DEF AddLink, EditInv
<1>2. UnicastLink(l) /\ Head(todo).do_remove
  BY <1>1 DEF QlInv, UnicastOnly
<1>3. \A b \in Installed : ~At(link[b], l)
  BY <1>1, <1>2 DEF TodoOK, AddLinkOK
<1>4. /\ slotframe_list' = slotframe_list /\ size' = size
      /\ backup_link' = backup_link
  BY DEF AddLink, pointerVars
<1>5. link \in [Block -> LinkRecord \cup {Free}]
  BY DEF EditInv, PoolTypeOK
<1>6. CASE link' = link
  <2>1. Installed' = Installed  BY <1>6 DEF Installed
  <2>2. UnicastOnly(todo)'  BY <1>1, <1>6, <2>1, UnicastOnlyRest
  <2>3. OneLinkEach'  BY <1>6, <2>1 DEF QlInv, OneLinkEach
  <2> QED  BY <1>4, <1>6, <2>1, <2>2, <2>3 DEF QlInv
<1>7. CASE \E x \in Block \ Installed : link' = [link EXCEPT ![x] = l]
  <2>1. PICK x \in Block \ Installed : link' = [link EXCEPT ![x] = l]
    BY <1>7
  <2> HIDE DEF l
  <2>2. link'[x] = l /\ \A b \in Block : b # x => link'[b] = link[b]
    BY <1>5, <2>1
  <2>3. /\ \A b \in Installed : b \in Installed' /\ link'[b] = link[b]
        /\ \A b \in Installed' : b \in Installed \/ b = x
    BY <2>2 DEF Installed
  <2>4. UnicastOnly(todo)'
    BY <1>1, <1>2, <2>2, <2>3, UnicastOnlyRest
  <2>5. \A b \in Installed' : BroadcastLink(link'[b]) \/ UnicastLink(link'[b])
    BY <1>2, <2>2, <2>3 DEF QlInv
  <2>6. \A b \in Installed : ~(/\ link[b].slotframe_handle = l.slotframe_handle
                               /\ link[b].timeslot = l.timeslot)
    <3> SUFFICES ASSUME NEW b \in Installed,
                        link[b].slotframe_handle = l.slotframe_handle,
                        link[b].timeslot = l.timeslot
                 PROVE  FALSE
      OBVIOUS
    <3>1. UnicastLink(link[b])
      BY <1>2 DEF QlInv, BroadcastLink, UnicastLink
    <3> QED  BY <1>2, <1>3, <3>1 DEF At, UnicastLink
  <2>7. OneLinkEach'
    <3> SUFFICES ASSUME NEW b \in Installed', NEW c \in Installed',
                        link'[b].slotframe_handle = link'[c].slotframe_handle,
                        link'[b].timeslot = link'[c].timeslot
                 PROVE  b = c
      BY DEF OneLinkEach
    <3>1. CASE b \in Installed /\ c \in Installed
      BY <2>3, <3>1 DEF QlInv, OneLinkEach
    <3>2. CASE b \in Installed /\ c = x  BY <2>2, <2>3, <2>6, <3>2
    <3>3. CASE b = x /\ c \in Installed  BY <2>2, <2>3, <2>6, <3>3
    <3> QED  BY <2>3, <3>1, <3>2, <3>3
  <2>8. backup_link' # NoLink =>
          backup_link' \in Installed' /\ BroadcastLink(link'[backup_link'])
    BY <1>4, <2>3 DEF QlInv
  <2> QED  BY <1>4, <2>4, <2>5, <2>7, <2>8 DEF QlInv
<1> QED  BY <1>6, <1>7 DEF AddLink

(* The sections of a policy update keep the schedule of this form. *)
LEMMA EditOfQl ==
  ASSUME EditInv, QlInv, Edit PROVE QlInv'
<1>1. CASE Start
  <2>1. UNCHANGED <<poolVars, pointerVars>>  BY <1>1 DEF Start
  <2>2. UnicastOnly(todo')  BY <1>1, StartOfQl
  <2>3. Installed' = Installed  BY <2>1 DEF Installed, poolVars
  <2>4. UnicastOnly(todo)'  BY <2>1, <2>2, <2>3 DEF UnicastOnly, poolVars
  <2>5. OneLinkEach'  BY <2>1, <2>3 DEF QlInv, OneLinkEach, poolVars
  <2> QED  BY <2>1, <2>3, <2>4, <2>5 DEF QlInv, poolVars, pointerVars
<1>2. ASSUME NEW op, Section(op)
      PROVE  /\ op \in {"remove_link", "add_link"}
             /\ todo # <<>> /\ todo' = Tail(todo)
             /\ op = "remove_link" =>
                  /\ Head(todo).block \in Installed
                  /\ UnicastLink(link[Head(todo).block])
  <2>1. /\ todo # <<>> /\ todo' = Tail(todo) /\ Head(todo) = todo[1]
        /\ Head(todo).op = op /\ 1 \in 1 .. Len(todo) /\ TodoOK(todo)
    BY <1>2, SectionRuns DEF EditInv
  <2>2. \/ /\ todo[1].op = "remove_link"
           /\ todo[1].block \in Installed => UnicastLink(link[todo[1].block])
        \/ todo[1].op = "add_link"
    BY <2>1 DEF QlInv, UnicastOnly
  <2>3. todo[1].op = "remove_link" => todo[1].block \in Installed
    BY <2>1 DEF TodoOK, RemovalOK
  <2> QED  BY <2>1, <2>2, <2>3
<1>3. CASE AddSlotframe
  <2>1. Section("add_slotframe")  BY <1>3 DEF AddSlotframe
  <2> QED  BY <1>2, <2>1
<1>4. CASE RemoveSlotframe
  <2>1. Section("remove_slotframe")  BY <1>4 DEF RemoveSlotframe
  <2> QED  BY <1>2, <2>1
<1>5. CASE AddLink  BY <1>5, AddLinkOfQl
<1>6. CASE RemoveLink
  <2> DEFINE x == Head(todo).block
  <2>1. /\ todo # <<>> /\ todo' = Tail(todo)
        /\ x \in Installed /\ UnicastLink(link[x])
    <3>1. Section("remove_link")  BY <1>6 DEF RemoveLink
    <3> QED  BY <1>2, <3>1
  <2>2. /\ link' = [link EXCEPT ![x] = Free] /\ size' = size
        /\ slotframe_list' = slotframe_list /\ backup_link' = backup_link
    BY <1>6 DEF RemoveLink
  <2>3. link \in [Block -> LinkRecord \cup {Free}]
    BY DEF EditInv, PoolTypeOK
  <2> HIDE DEF x
  <2>4. /\ \A b \in Installed' : b \in Installed /\ link'[b] = link[b]
        /\ \A b \in Installed : b # x => b \in Installed'
    BY <2>2, <2>3 DEF Installed
  <2>5. UnicastOnly(todo)'  BY <2>1, <2>4, UnicastOnlyRest
  <2>6. OneLinkEach'  BY <2>4 DEF QlInv, OneLinkEach
  <2>7. \A b \in Installed' : BroadcastLink(link'[b]) \/ UnicastLink(link'[b])
    BY <2>4 DEF QlInv
  <2>8. backup_link' # NoLink =>
          backup_link' \in Installed' /\ BroadcastLink(link'[backup_link'])
    BY <2>1, <2>2, <2>4, EitherLink DEF QlInv
  <2> QED  BY <2>2, <2>5, <2>6, <2>7, <2>8 DEF QlInv
<1> QED  BY <1>1, <1>3, <1>4, <1>5, <1>6 DEF Edit

(* So does every step, and the backup is a broadcast link. *)
LEMMA QlInvStep ==
  ASSUME ScheduleInv, TimeInv, QlInv, [Next]_vars PROVE QlInv'
<1>1. CASE EditSchedule
  BY <1>1, EditOfQl DEF ScheduleInv, EditSchedule
<1>2. ASSUME UNCHANGED <<poolVars, todo>>,
             backup_link' # NoLink => /\ backup_link' \in Installed
                                      /\ BroadcastLink(link[backup_link'])
      PROVE  QlInv'
  <2>1. UNCHANGED <<slotframe_list, size, link, todo>>  BY <1>2 DEF poolVars
  <2>2. Installed' = Installed  BY <2>1 DEF Installed
  <2>3. OneLinkEach' /\ UnicastOnly(todo)'
    BY <2>1, <2>2 DEF QlInv, OneLinkEach, UnicastOnly
  <2> QED  BY <1>2, <2>1, <2>2, <2>3 DEF QlInv
<1>3. CASE \/ Associate \/ Skip \/ StartSlot \/ FinishSlot \/ Leave
           \/ UNCHANGED vars
  <2>1. UNCHANGED <<poolVars, todo, backup_link>>
    BY <1>3 DEF Associate, Skip, StartSlot, FinishSlot, Leave, vars,
                scheduleVars, pointerVars
  <2> QED  BY <1>2, <2>1 DEF QlInv
<1>4. CASE RepeatLink  BY <1>2, <1>4 DEF RepeatLink
<1>5. CASE NextLink
  <2>1. UNCHANGED <<poolVars, todo>>  BY <1>5 DEF NextLink
  <2>2. PICK queued \in Queued, found \in Found :
          /\ found \in {NextActiveLink(asn, queued), NothingFound}
          /\ Find(found)
    BY <1>5, NextLinkAdvances
  <2>3. asn \in 0 .. AsnCycle - 1 /\ asn \in Nat
        /\ queued \in [Address -> Nat]
    BY ScheduleAssumption DEF TimeInv, Queued
  <2>4. CASE found = NothingFound
    BY <1>2, <2>1, <2>2, <2>4 DEF Find, NothingFound
  <2>5. CASE found = NextActiveLink(asn, queued)
    <3>1. OwnBackup(found)  BY <2>3, <2>5, SearchOfQl
    <3>2. found.backup # NoLink => found.backup \in Installed
      BY <2>3, <2>5, WhatIsFound
    <3> QED  BY <1>2, <2>1, <2>2, <3>1, <3>2 DEF Find, OwnBackup
  <2> QED  BY <2>2, <2>4, <2>5
<1> QED  BY <1>1, <1>3, <1>4, <1>5 DEF Next

(* So the schedule of a node keeps its form. *)
LEMMA QlInvariant == Spec => []QlInv
<1>1. Init => QlInv  BY QlInit
<1>2. ScheduleInv /\ TimeInv /\ QlInv /\ [Next]_vars => QlInv'
  BY QlInvStep
<1> QED  BY <1>1, <1>2, ScheduleInvariant, TimeInvariant, PTL DEF Spec


-----------------------------------------------------------------------------
(* The link of the slot, and its backup, belong to its timeslot, wherever  *)
(* the slot operation is; a burst has no backup after its first slot.      *)
BeganAt == asn + AsnCycle * repeated - repeated
PointerInv ==
  /\ repeated \in Nat
  /\ current_link # NoLink =>
       current_link \in Installed /\ FallsOn(current_link, BeganAt)
  /\ current_link # NoLink /\ backup_link # NoLink =>
       repeated = 0 /\ FallsOn(backup_link, asn)

(* Numbers that differ by a multiple leave the same.                       *)
LEMMA SameRemainder ==
  ASSUME NEW d \in Nat \ {0}, NEW n \in Int, NEW q \in Int
  PROVE  (n + d * q) % d = n % d
<1> DEFINE r == n % d
<1>1. PICK p \in Int : r = n - d * p  BY QuotientOf
<1>2. r \in 0 .. d - 1  OBVIOUS
<1>3. d * p \in Int /\ d * q \in Int /\ p + q \in Int
      /\ d * (p + q) = d * p + d * q
  BY ProductOfInts
<1> DEFINE x == d * p
           y == d * q
           z == d * (p + q)
<1>4. n + y = z + r
  <2>1. x \in Int /\ y \in Int /\ z = x + y /\ r = n - x  BY <1>1, <1>3
  <2> HIDE DEF x, y, z, r
  <2> QED  BY <1>2, <2>1
<1>5. n + y \in Int  BY <1>3
<1> HIDE DEF r, y
<1>6. (n + y) % d = r  BY <1>2, <1>3, <1>4, <1>5, RemainderOf
<1> QED  BY <1>6 DEF r, y

(* Timeslots do not tell the ASN from its count modulo AsnCycle.           *)
LEMMA SameTimeslot ==
  ASSUME ScheduleInv, NEW b \in Installed, NEW n \in Int, NEW q \in Int,
         FallsOn(b, n)
  PROVE  FallsOn(b, n + AsnCycle * q)
<1> DEFINE d == size[link[b].slotframe_handle]
<1>1. d \in Lengths
  <2>1. /\ link[b].slotframe_handle \in Handle
        /\ link[b].timeslot \in Nat /\ link[b].timeslot < d /\ d \in Nat
    BY DEF ScheduleInv, EditInv, PoolTypeOK, PoolInv, Installed, LinkRecord
  <2> QED  BY <2>1 DEF ScheduleInv, LengthsInv
<1> HIDE DEF d
<1>2. d \in Nat \ {0} /\ AsnCycle % d = 0  BY <1>1, LengthsAreShort
<1>3. PICK k \in Int : AsnCycle = d * k
  BY <1>2, ScheduleAssumption, MultipleOf
<1>4. AsnCycle * q = d * (k * q) /\ k * q \in Int  BY <1>2, <1>3
<1>5. (n + d * (k * q)) % d = n % d  BY <1>2, <1>4, SameRemainder
<1> QED  BY <1>4, <1>5 DEF FallsOn, d

(* One slot on, a burst began at the same ASN.                             *)
LEMMA BurstBeganThere ==
  ASSUME TimeInv, repeated \in Nat,
         asn' = (asn + 1) % AsnCycle, repeated' = repeated + 1
  PROVE  /\ BeganAt \in Int
         /\ \E q \in Int : BeganAt' = BeganAt + AsnCycle * q
<1> DEFINE A == AsnCycle
<1>1. A \in Nat \ {0} /\ asn \in Int  BY ScheduleAssumption DEF TimeInv
<1> HIDE DEF A
<1>2. PICK c \in Int : (asn + 1) % A = (asn + 1) - A * c
  <2>1. asn + 1 \in Int  BY <1>1
  <2> QED  BY <1>1, <2>1, QuotientOf, Zenon
<1> DEFINE x == A * repeated
           y == A * c
<1>3. /\ x \in Int /\ y \in Int
      /\ A * (repeated + 1) = x + A /\ A * (1 - c) = A - y
  BY <1>1, ProductOfInts
<1>4. BeganAt = asn + x - repeated  BY DEF BeganAt, A
<1>5. BeganAt' = asn' + A * repeated' - repeated'  BY DEF BeganAt, A
<1>6. asn' = (asn + 1) - y  BY <1>2 DEF A
<1>7. A * repeated' = x + A /\ repeated' = repeated + 1  BY <1>3
<1> HIDE DEF x, y
<1>8. BeganAt \in Int /\ BeganAt' = BeganAt + (A - y)
  BY <1>1, <1>3, <1>4, <1>5, <1>6, <1>7
<1>9. BeganAt' = BeganAt + A * (1 - c) /\ 1 - c \in Int  BY <1>3, <1>8
<1> QED  BY <1>8, <1>9 DEF A

(* At the first slot of a burst, or outside of one.                        *)
LEMMA BeganHere ==
  ASSUME TimeInv, repeated = 0 PROVE BeganAt = asn
<1>1. asn \in Int /\ AsnCycle * 0 = 0
  BY ScheduleAssumption DEF TimeInv
<1> QED  BY <1>1 DEF BeganAt

(* An edit forgets the link it removes, keeps the others in their timeslots, *)
(* and never removes the backup.                                           *)
LEMMA EditKeepsPointers ==
  ASSUME EditInv, QlInv, PointerInv, EditSchedule PROVE PointerInv'
<1>1. UNCHANGED <<asn, repeated, backup_link>> /\ Edit
  BY DEF EditSchedule, timeVars, burstVars, Edit, Start, AddSlotframe,
         RemoveSlotframe, AddLink, RemoveLink, pointerVars
<1>2. BeganAt' = BeganAt  BY <1>1 DEF BeganAt
<1>3. \A b \in Installed : \A n :
        ~(RemoveLink /\ Head(todo).block = b) /\ FallsOn(b, n)
          => /\ b \in Installed'
             /\ n % size'[link'[b].slotframe_handle] = link'[b].timeslot
  <2> SUFFICES ASSUME NEW b \in Installed, NEW n,
                      ~(RemoveLink /\ Head(todo).block = b), FallsOn(b, n)
               PROVE  /\ b \in Installed'
                      /\ n % size'[link'[b].slotframe_handle]
                           = link'[b].timeslot
    OBVIOUS
  <2>1. /\ b \in Installed' /\ link'[b] = link[b]
        /\ size'[link[b].slotframe_handle] = size[link[b].slotframe_handle]
    BY <1>1, EditKeepsLink
  <2> QED  BY <2>1 DEF FallsOn
<1>4. RemoveLink => UnicastLink(link[Head(todo).block])
  <2> SUFFICES ASSUME RemoveLink PROVE UnicastLink(link[Head(todo).block])
    OBVIOUS
  <2>1. Section("remove_link")  BY DEF RemoveLink
  <2>2. /\ Head(todo) = todo[1] /\ todo[1].op = "remove_link"
        /\ 1 \in 1 .. Len(todo) /\ TodoOK(todo)
    BY <2>1, SectionRuns DEF EditInv
  <2>3. todo[1].block \in Installed  BY <2>2 DEF TodoOK, RemovalOK
  <2>4. \/ /\ todo[1].op = "remove_link"
           /\ todo[1].block \in Installed => UnicastLink(link[todo[1].block])
        \/ todo[1].op = "add_link"
    BY <2>2 DEF QlInv, UnicastOnly
  <2> QED  BY <2>2, <2>3, <2>4
<1>5. current_link' # NoLink =>
        /\ current_link' = current_link
        /\ ~(RemoveLink /\ Head(todo).block = current_link)
  BY <1>1 DEF Edit, Start, AddSlotframe, RemoveSlotframe, AddLink,
              RemoveLink, Forget, pointerVars
<1>6. backup_link # NoLink =>
        /\ backup_link \in Installed
        /\ ~(RemoveLink /\ Head(todo).block = backup_link)
  BY <1>4, EitherLink DEF QlInv
<1>7. current_link' # NoLink =>
        /\ current_link' \in Installed'
        /\ BeganAt % size'[link'[current_link'].slotframe_handle]
             = link'[current_link'].timeslot
  BY <1>3, <1>5 DEF PointerInv
<1>8. current_link' # NoLink /\ backup_link' # NoLink =>
        /\ repeated' = 0
        /\ asn' % size'[link'[backup_link'].slotframe_handle]
             = link'[backup_link'].timeslot
  BY <1>1, <1>3, <1>5, <1>6 DEF PointerInv
<1> QED  BY <1>1, <1>2, <1>7, <1>8 DEF PointerInv, FallsOn

(* The slot operation goes on to the timeslot of the link it found. *)
LEMMA NextLinkFallsOnAsn ==
  ASSUME ScheduleInv, TimeInv, NextLink PROVE PointerInv'
<1>1. UNCHANGED <<poolVars, todo>> /\ repeated' = 0  BY DEF NextLink
<1>2. UNCHANGED <<size, link>> /\ Installed' = Installed
  BY <1>1 DEF poolVars, Installed
<1>3. PICK queued \in Queued, found \in Found, diff \in Nat \ {0} :
        /\ found \in {NextActiveLink(asn, queued), NothingFound}
        /\ Find(found)
        /\ Advance(diff)
        /\ found.best # NoLink =>
             diff = found.time /\ found = NextActiveLink(asn, queued)
  BY NextLinkAdvances
<1>4. asn \in 0 .. AsnCycle - 1 /\ AsnCycle \in Nat \ {0}
  BY ScheduleAssumption DEF TimeInv
<1>5. ASSUME NEW b \in Installed,
             (asn + diff) % size[link[b].slotframe_handle] = link[b].timeslot
      PROVE  asn' % size[link[b].slotframe_handle] = link[b].timeslot
  <2>1. asn + diff \in Int /\ FallsOn(b, asn + diff)
    BY <1>4, <1>5 DEF FallsOn
  <2>2. PICK c \in Int : (asn + diff) % AsnCycle = (asn + diff) - AsnCycle * c
    BY <1>4, <2>1, QuotientOf, Zenon
  <2>3. 0 - c \in Int /\ AsnCycle * (0 - c) = 0 - AsnCycle * c
        /\ AsnCycle * c \in Int
    BY <1>4, ProductOfInts
  <2>4. asn' = (asn + diff) + AsnCycle * (0 - c)
    <3> DEFINE x == AsnCycle * c
               y == AsnCycle * (0 - c)
    <3>1. asn' = (asn + diff) - x /\ y = 0 - x /\ x \in Int
      BY <1>3, <2>2, <2>3 DEF Advance
    <3> HIDE DEF x, y
    <3>2. asn' = (asn + diff) + y  BY <1>4, <3>1
    <3> QED  BY <3>2 DEF y
  <2>5. FallsOn(b, (asn + diff) + AsnCycle * (0 - c))
    BY <2>1, <2>3, SameTimeslot
  <2> QED  BY <2>4, <2>5 DEF FallsOn
<1>6. CASE found.best = NoLink
  BY <1>1, <1>3, <1>6 DEF PointerInv, Find
<1>7. CASE found.best # NoLink
  <2>1. diff = found.time /\ found = NextActiveLink(asn, queued)
    BY <1>3, <1>7
  <2>2. /\ found.best \in Installed
        /\ (asn + found.time) % size[link[found.best].slotframe_handle]
             = link[found.best].timeslot
        /\ found.backup # NoLink =>
             /\ found.backup \in Installed
             /\ (asn + found.time) % size[link[found.backup].slotframe_handle]
                  = link[found.backup].timeslot
    BY <1>4, <1>7, <2>1, WhatIsFound
  <2>3. /\ found.best \in Installed
        /\ asn' % size[link[found.best].slotframe_handle]
             = link[found.best].timeslot
        /\ found.backup # NoLink =>
             asn' % size[link[found.backup].slotframe_handle]
               = link[found.backup].timeslot
    BY <1>5, <2>1, <2>2
  <2>4. BeganAt' = asn'
    <3>1. asn' \in Int  BY <1>3, <1>4 DEF Advance
    <3>2. AsnCycle * 0 = 0  BY <1>4
    <3> QED  BY <1>1, <3>1, <3>2 DEF BeganAt
  <2> QED  BY <1>1, <1>2, <1>3, <2>3, <2>4 DEF PointerInv, Find, FallsOn
<1> QED  BY <1>6, <1>7

(* Every step keeps the links in their timeslots. *)
LEMMA PointerInvStep ==
  ASSUME ScheduleInv, TimeInv, QlInv, PointerInv, [Next]_vars
  PROVE  PointerInv'
<1>1. CASE EditSchedule
  BY <1>1, EditKeepsPointers DEF ScheduleInv
<1>2. ASSUME UNCHANGED <<size, link, asn, repeated, backup_link>>,
             \/ current_link' = current_link
             \/ /\ current_link # NoLink /\ backup_link # NoLink
                /\ current_link' = backup_link
      PROVE  PointerInv'
  <2>1. Installed' = Installed /\ BeganAt' = BeganAt
    BY <1>2 DEF Installed, BeganAt
  <2>2. CASE current_link' = current_link
    BY <1>2, <2>1, <2>2 DEF PointerInv, FallsOn
  <2>3. CASE /\ current_link # NoLink /\ backup_link # NoLink
             /\ current_link' = backup_link
    <3>1. /\ repeated = 0 /\ FallsOn(backup_link, asn)
          /\ backup_link \in Installed /\ BeganAt = asn
      BY <2>3, BeganHere DEF PointerInv, QlInv
    <3> QED  BY <1>2, <2>1, <2>3, <3>1 DEF PointerInv, FallsOn
  <2> QED  BY <1>2, <2>2, <2>3
<1>3. CASE Skip \/ FinishSlot \/ Leave \/ UNCHANGED vars
  <2>1. UNCHANGED <<size, link, asn, repeated, current_link, backup_link>>
    BY <1>3 DEF Skip, FinishSlot, Leave, vars, scheduleVars, pointerVars,
                poolVars, timeVars, burstVars
  <2> QED  BY <1>2, <2>1
<1>4. CASE StartSlot
  <2>1. UNCHANGED <<size, link, asn, repeated, backup_link>>
    BY <1>4 DEF StartSlot, poolVars
  <2>2. \/ current_link' = current_link
        \/ /\ current_link # NoLink /\ backup_link # NoLink
           /\ current_link' = backup_link
    BY <1>4 DEF StartSlot, SkipsBestLink
  <2> QED  BY <1>2, <2>1, <2>2
<1>5. CASE Associate
  BY <1>5 DEF Associate, burstVars, PointerInv
<1>6. CASE RepeatLink
  <2>1. /\ UNCHANGED <<poolVars, current_link>> /\ backup_link' = NoLink
        /\ repeated' = repeated + 1 /\ asn' = (asn + 1) % AsnCycle
        /\ current_link # NoLink /\ repeated \in Nat
    BY <1>6 DEF RepeatLink, InBurst, Advance, PointerInv
  <2>2. UNCHANGED <<size, link>> /\ Installed' = Installed
    BY <2>1 DEF poolVars, Installed
  <2>3. /\ BeganAt \in Int
        /\ \E q \in Int : BeganAt' = BeganAt + AsnCycle * q
    BY <2>1, BurstBeganThere
  <2>4. PICK q \in Int : BeganAt' = BeganAt + AsnCycle * q  BY <2>3
  <2>5. current_link \in Installed /\ FallsOn(current_link, BeganAt)
    BY <2>1 DEF PointerInv
  <2>6. FallsOn(current_link, BeganAt + AsnCycle * q)
    BY <2>3, <2>5, SameTimeslot
  <2>7. BeganAt' % size[link[current_link].slotframe_handle]
          = link[current_link].timeslot
    BY <2>4, <2>6 DEF FallsOn
  <2> QED  BY <2>1, <2>2, <2>5, <2>7 DEF PointerInv, FallsOn
<1>7. CASE NextLink  BY <1>7, NextLinkFallsOnAsn
<1> QED  BY <1>1, <1>3, <1>4, <1>5, <1>6, <1>7 DEF Next

(* The flag of a burst is set for a reason.  While it is for the current   *)
(* link, that link is repeated, not looked up; a slot takes the flag down. *)
BurstInv ==
  /\ burst_link_scheduled => burst_of # "nothing" /\ slot # "run"
  /\ burst_link_scheduled /\ burst_of = "current" =>
       slot \in {"sleep", "end"} /\ current_link # NoLink
  /\ slot \in {"sleep", "run"} /\ repeated > 0 => burst_of # "nothing"

(* Every step keeps that.                                                  *)
LEMMA BurstInvStep ==
  ASSUME BurstInv, [Next]_vars PROVE BurstInv'
<1>1. CASE EditSchedule
  <2>1. current_link' \in {current_link, NoLink}
    BY <1>1 DEF EditSchedule, Edit, Start, AddSlotframe, RemoveSlotframe,
                AddLink, RemoveLink, Forget, pointerVars
  <2>2. /\ UNCHANGED <<slot, burst_link_scheduled, repeated>>
        /\ burst_of' = IF burst_link_scheduled /\ current_link # NoLink
                           /\ current_link' = NoLink
                          THEN "another" ELSE burst_of
    BY <1>1 DEF EditSchedule, timeVars
  <2> QED  BY <2>1, <2>2 DEF BurstInv
<1>2. CASE Associate  BY <1>2 DEF Associate, burstVars, BurstInv
<1>3. CASE Skip \/ UNCHANGED vars
  BY <1>3 DEF Skip, vars, scheduleVars, pointerVars, timeVars, burstVars,
              BurstInv
<1>4. CASE StartSlot  BY <1>4 DEF StartSlot, BurstAtStart, BurstInv
<1>5. CASE FinishSlot
  BY <1>5 DEF FinishSlot, BurstContinues, scheduleVars, pointerVars, BurstInv
<1>6. CASE Leave
  BY <1>6 DEF Leave, scheduleVars, pointerVars, BurstInv
<1>7. CASE RepeatLink
  <2>1. slot' \in {"end", "sleep"}
    BY <1>7 DEF RepeatLink, InBurst, Advance, ScheduleSlot
  <2> QED  BY <1>7, <2>1 DEF RepeatLink, InBurst, BurstInv
<1>8. CASE NextLink
  <2>1. ~(burst_link_scheduled /\ burst_of = "current")
    BY <1>8 DEF NextLink, InBurst, BurstInv
  <2>2. slot' # "run"
    BY <1>8 DEF NextLink, Advance, ScheduleSlot
  <2> QED  BY <1>8, <2>1, <2>2 DEF NextLink, BurstInv
<1> QED
  BY <1>1, <1>2, <1>3, <1>4, <1>5, <1>6, <1>7, <1>8 DEF Next

(* In the schedule of node.c, whatever is edited, missed or skipped, a slot*)
(* runs a link of the timeslot its ASN falls on, or repeats one slot by    *)
(* slot for a burst that was asked for; it repeats one that did not ask    *)
(* only for the flag of a burst whose link or network is gone.             *)
THEOREM LinkIsOnItsTimeslot == Spec => []LinkFallsOnAsn
<1>1. Init => PointerInv /\ BurstInv  BY DEF Init, PointerInv, BurstInv
<1>2. ScheduleInv /\ TimeInv /\ QlInv /\ PointerInv /\ [Next]_vars => PointerInv'
  BY PointerInvStep
<1>3. BurstInv /\ [Next]_vars => BurstInv'  BY BurstInvStep
<1>4. PointerInv /\ BurstInv => LinkFallsOnAsn
  BY DEF PointerInv, BurstInv, LinkFallsOnAsn, BeganAt
<1> QED
  BY <1>1, <1>2, <1>3, <1>4, ScheduleInvariant, TimeInvariant, QlInvariant,
     PTL DEF Spec

-----------------------------------------------------------------------------
(* The links that are installed, as TschSlotOperation knows them.          *)
LEMMA LinksAreAbstracted ==
  ASSUME ScheduleInv, QlInv, NEW b \in Installed
  PROVE  /\ AbstractLink(b) \in Abstract!Link
         /\ BroadcastLink(link[b]) => AbstractLink(b) = Abstract!BroadcastLink
         /\ UnicastLink(link[b]) =>
              \E ts \in Abstract!Timeslots :
                \/ AbstractLink(b) = Abstract!TxLink(ts)
                \/ AbstractLink(b) = Abstract!RxLink(ts)
<1>1. /\ b # NoLink /\ link[b] \in LinkRecord
      /\ link[b].timeslot < InitialSchedule.size[link[b].slotframe_handle]
      /\ InitialSchedule.size[link[b].slotframe_handle] \in Nat
  BY ScheduleAssumption
  DEF ScheduleInv, EditInv, PoolTypeOK, PoolInv, QlInv, Installed, LinkRecord
<1>2. AbstractLink(b) =
        [slotframe_handle |-> link[b].slotframe_handle,
         timeslot |-> link[b].timeslot, tx |-> link[b].tx, rx |-> link[b].rx]
  BY <1>1 DEF AbstractLink
<1>3. /\ link[b].tx \in BOOLEAN /\ link[b].rx \in BOOLEAN
      /\ link[b].timeslot \in Nat
  BY <1>1 DEF LinkRecord
<1>4. BroadcastLink(link[b]) => AbstractLink(b) = Abstract!BroadcastLink
  <2> SUFFICES ASSUME BroadcastLink(link[b])
               PROVE  AbstractLink(b) = Abstract!BroadcastLink
    OBVIOUS
  <2>1. /\ link[b].slotframe_handle = 0 /\ link[b].timeslot = 0
        /\ link[b].tx = TRUE /\ link[b].rx = TRUE
    BY <1>3 DEF BroadcastLink
  <2> QED  BY <1>2, <2>1 DEF Abstract!BroadcastLink
<1>5. UnicastLink(link[b]) =>
        \E ts \in Abstract!Timeslots :
          \/ AbstractLink(b) = Abstract!TxLink(ts)
          \/ AbstractLink(b) = Abstract!RxLink(ts)
  <2> SUFFICES ASSUME UnicastLink(link[b])
               PROVE  \E ts \in Abstract!Timeslots :
                        \/ AbstractLink(b) = Abstract!TxLink(ts)
                        \/ AbstractLink(b) = Abstract!RxLink(ts)
    OBVIOUS
  <2> DEFINE ts == link[b].timeslot
  <2>1. link[b].slotframe_handle = 1  BY DEF UnicastLink
  <2>2. ts \in Abstract!Timeslots
    BY <1>1, <1>3, <2>1 DEF Abstract!Timeslots
  <2>3. CASE link[b].tx = TRUE
    <3>1. link[b].rx = FALSE  BY <1>3, <2>3 DEF UnicastLink
    <3>2. AbstractLink(b) = Abstract!TxLink(ts)
      BY <1>2, <2>1, <2>3, <3>1 DEF Abstract!TxLink
    <3> QED  BY <2>2, <3>2
  <2>4. CASE link[b].tx = FALSE
    <3>1. link[b].rx = TRUE  BY <1>3, <2>4 DEF UnicastLink
    <3>2. AbstractLink(b) = Abstract!RxLink(ts)
      BY <1>2, <2>1, <2>4, <3>1 DEF Abstract!RxLink
    <3> QED  BY <2>2, <3>2
  <2> QED  BY <1>3, <2>3, <2>4
<1>6. AbstractLink(b) \in Abstract!Link
  BY <1>4, <1>5 DEF QlInv, Abstract!Link
<1> QED  BY <1>4, <1>5, <1>6

(* A broadcast link that meets a unicast link wins, and is its own backup. *)
LEMMA OverlapOfBroadcast ==
  ASSUME NEW ts, NEW l \in {Abstract!TxLink(ts), Abstract!RxLink(ts)}
  PROVE  Abstract!Overlap(Abstract!BroadcastLink, l)
           = <<Abstract!BroadcastLink, Abstract!BroadcastLink>>
<1> DEFINE a == Abstract!BroadcastLink
<1>1. a.slotframe_handle = 0 /\ a.tx = TRUE /\ a.rx = TRUE
  BY DEF Abstract!BroadcastLink
<1>2. l.slotframe_handle = 1
  BY DEF Abstract!TxLink, Abstract!RxLink
<1> HIDE DEF a
<1>3. ~Abstract!WinsOver(l, a)
  <2>1. ~(1 < 0)  OBVIOUS
  <2>2. ~(l.slotframe_handle < a.slotframe_handle)  BY <1>1, <1>2, <2>1
  <2> QED  BY <1>1, <2>2 DEF Abstract!WinsOver
<1>4. Abstract!BackupOf(a, l) = a
  <2>1. a.slotframe_handle < l.slotframe_handle
    <3>1. 0 < 1  OBVIOUS
    <3> QED  BY <1>1, <1>2, <3>1
  <2> QED  BY <1>1, <2>1 DEF Abstract!BackupOf
<1> QED  BY <1>3, <1>4 DEF Abstract!Overlap, a

(* So each result of the search is one the abstraction allows. *)
LEMMA SearchAbstracted ==
  ASSUME ScheduleInv, TimeInv, QlInv PROVE SearchIsAbstracted
<1> DEFINE known == {AbstractLink(b) : b \in Installed}
<1>1. known \subseteq Abstract!Link  BY LinksAreAbstracted
<1>2. ASSUME NEW queued \in Queued
      PROVE  LET found == NextActiveLink(asn, queued)
             IN <<AbstractLink(found.best), AbstractLink(found.backup)>>
                  \in Abstract!NextActiveLinks
  <2> DEFINE n == asn
             found == NextActiveLink(n, queued)
             pair == <<AbstractLink(found.best), AbstractLink(found.backup)>>
  <2>0. n \in 0 .. AsnCycle - 1  BY DEF TimeInv
  <2> HIDE DEF n
  <2>1. /\ n \in Nat /\ queued \in [Address -> Nat]
        /\ PoolTypeOK /\ PoolInv /\ WellFormed
    BY <2>0, ScheduleIsWellFormed, ScheduleAssumption
    DEF ScheduleInv, EditInv, Queued
  <2>2. FoundFirst(found, Installed, n, queued)
    BY <2>1, SearchFindsFirst
  <2>3. OwnBackup(found)  BY <2>1, SearchOfQl
  <2>4. found.backup # NoLink => found.best # NoLink
    BY <2>0, WhatIsFound
  <2> HIDE DEF found
  <2>5. AbstractLink(NoLink) = NoLink  BY DEF AbstractLink
  <2>6. Abstract!NextActiveLinks =
          IF known = {} THEN {<<NoLink, NoLink>>} ELSE Abstract!FoundLinks
    BY DEF Abstract!NextActiveLinks
  <2>7. CASE Installed = {}
    <3>1. found.best = NoLink /\ found.backup = NoLink
      BY <2>2, <2>7 DEF FoundFirst, NothingFound
    <3>2. known = {}  BY <2>7
    <3> QED  BY <2>5, <2>6, <3>1, <3>2 DEF found, n
  <2>8. CASE Installed # {}
    <3>1. found.best \in Installed /\ known # {}
      BY <2>2, <2>8 DEF FoundFirst
    <3>2. AbstractLink(found.best) \in known  BY <3>1
    <3>3. CASE found.backup = NoLink
      <4>1. pair = <<AbstractLink(found.best), NoLink>>  BY <2>5, <3>3
      <4>2. pair \in Abstract!FoundLinks
        BY <3>2, <4>1 DEF Abstract!FoundLinks
      <4> QED  BY <2>6, <3>1, <4>2 DEF found, n
    <3>4. CASE found.backup # NoLink
      <4>1. /\ found.backup = found.best /\ BroadcastLink(link[found.best])
            /\ \E b \in Installed : UnicastLink(link[b])
        BY <2>3, <3>4 DEF OwnBackup
      <4>2. AbstractLink(found.best) = Abstract!BroadcastLink
        BY <3>1, <4>1, LinksAreAbstracted
      <4>3. PICK b \in Installed : UnicastLink(link[b])  BY <4>1
      <4>4. PICK ts \in Abstract!Timeslots :
              AbstractLink(b) \in {Abstract!TxLink(ts), Abstract!RxLink(ts)}
        BY <4>3, LinksAreAbstracted
      <4>5. AbstractLink(b).slotframe_handle = 1
        BY <4>4 DEF Abstract!TxLink, Abstract!RxLink
      <4>6. AbstractLink(found.best).slotframe_handle = 0
        BY <4>2 DEF Abstract!BroadcastLink
      <4>7. pair = Abstract!Overlap(AbstractLink(found.best), AbstractLink(b))
        BY <4>1, <4>2, <4>4, OverlapOfBroadcast
      <4>8. AbstractLink(b) \in known  BY <4>3
      <4>9. pair \in Abstract!FoundLinks
        BY <3>2, <4>5, <4>6, <4>7, <4>8 DEF Abstract!FoundLinks
      <4> QED  BY <2>6, <3>1, <4>9 DEF found, n
    <3> QED  BY <3>3, <3>4
  <2> QED  BY <2>7, <2>8
<1> QED  BY <1>1, <1>2 DEF SearchIsAbstracted

(* What the search returns in the schedule of node.c, whatever the ASN, is *)
(* one of the pairs that TschSlotOperation takes it to return.             *)
THEOREM SearchOfTheAbstraction == Spec => []SearchIsAbstracted
<1>1. ScheduleInv /\ TimeInv /\ QlInv => SearchIsAbstracted
  BY SearchAbstracted
<1> QED  BY <1>1, ScheduleInvariant, TimeInvariant, QlInvariant, PTL
=============================================================================
