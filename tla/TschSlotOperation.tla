-------------------------- MODULE TschSlotOperation --------------------------
(***************************************************************************)
(* The slot operation of tsch-slot-operation.c: the protothread that the   *)
(* rtimer interrupt resumes.  The code between two PT_YIELDs runs with     *)
(* interrupt priority, so it is one action here; while the protothread is  *)
(* yielded inside a slot, process context runs with the slot still open.   *)
(*                                                                         *)
(* Time is abstracted: any link of the schedule may be the next active one *)
(* and any link that overlaps it the backup.  The packet queues are        *)
(* abstracted to whether a queue offers a packet for a link; the radio to  *)
(* every outcome it may report.                                            *)
(***************************************************************************)
EXTENDS Naturals, FiniteSets

CONSTANTS
  UnicastLength,     \* UNICAST_SLOTFRAME_LENGTH
  BurstMaxLen,       \* TSCH_BURST_MAX_LEN
  IsCoordinator,     \* tsch_is_coordinator: the root never leaves its network
  NoLink             \* the NULL link pointer

Timeslots == 0 .. UnicastLength - 1

(* A link of either slotframe.  All of them are LINK_OPTION_SHARED, at     *)
(* channel offset 0 and addressed to tsch_broadcast_address.               *)
BroadcastLink ==
  [slotframe_handle |-> 0, timeslot |-> 0, tx |-> TRUE, rx |-> TRUE]
TxLink(ts) ==
  [slotframe_handle |-> 1, timeslot |-> ts, tx |-> TRUE, rx |-> FALSE]
RxLink(ts) ==
  [slotframe_handle |-> 1, timeslot |-> ts, tx |-> FALSE, rx |-> TRUE]
Link == {BroadcastLink} \cup {TxLink(ts) : ts \in Timeslots}
                        \cup {RxLink(ts) : ts \in Timeslots}

ASSUME ConstantsAssumption ==
  /\ UnicastLength \in Nat \ {0}
  /\ BurstMaxLen \in Nat \ {0}
  /\ IsCoordinator \in BOOLEAN
  /\ NoLink \notin Link

VARIABLES
  tsch_locked, tsch_lock_requested, tsch_in_slot_operation,
  slot,                 \* where the protothread yielded
  links,                \* the links in the lists of the two slotframes
  current_link, backup_link,
  burst_link_scheduled, tsch_current_burst_count,
  tsch_is_associated,
  trans_status,         \* result of the last Tx in the unicast slotframe
  status_timeslot       \* history: the timeslot trans_status was recorded in

lockVars == <<tsch_locked, tsch_lock_requested>>
statusVars == <<trans_status, status_timeslot>>
slotVars == <<tsch_in_slot_operation, slot, current_link, backup_link,
              burst_link_scheduled, tsch_current_burst_count,
              tsch_is_associated>>

SlotPlaces == {"sleep", "tx", "ack", "rx", "rxAck", "fault"}
Transmitting == slot \in {"tx", "ack"}
Receiving == slot \in {"rx", "rxAck"}

SlotTypeOK ==
  /\ tsch_locked \in BOOLEAN
  /\ tsch_lock_requested \in BOOLEAN
  /\ tsch_in_slot_operation \in BOOLEAN
  /\ slot \in SlotPlaces
  /\ links \subseteq Link
  /\ current_link \in Link \cup {NoLink}
  /\ backup_link \in Link \cup {NoLink}
  /\ burst_link_scheduled \in BOOLEAN
  /\ tsch_current_burst_count \in 0 .. BurstMaxLen
  /\ tsch_is_associated \in BOOLEAN
  /\ trans_status \in 0 .. 2
  /\ status_timeslot \in Timeslots

SlotInit ==
  /\ tsch_locked = FALSE
  /\ tsch_lock_requested = FALSE
  /\ tsch_in_slot_operation = FALSE
  /\ slot = "sleep"
  /\ links = {}
  /\ current_link = NoLink
  /\ backup_link = NoLink
  /\ burst_link_scheduled = FALSE
  /\ tsch_current_burst_count = 0
  /\ tsch_is_associated = FALSE
  /\ trans_status = 0
  /\ status_timeslot = 0

-----------------------------------------------------------------------------
(* tsch_schedule_get_next_active_link: of two links that fall on the same  *)
(* slot, Tx wins over no Tx and the lower slotframe handle breaks the tie. *)
WinsOver(a, b) ==
  \/ a.tx /\ ~b.tx
  \/ a.tx = b.tx /\ a.slotframe_handle < b.slotframe_handle

(* Two links on the same slot, in the order of the slotframe list: the     *)
(* best one, and the backup it has for the case it has no packet.  A link  *)
(* that stays the best may become its own backup.                          *)
BackupOf_NeverItself(a, b) == IF b.rx THEN b ELSE NoLink
BackupOf(a, b) ==
  IF a.rx /\ (b.rx => a.slotframe_handle < b.slotframe_handle) THEN a
  ELSE IF b.rx THEN b
  ELSE NoLink

Overlap(a, b) ==
  IF WinsOver(b, a)
    THEN <<b, IF a.rx THEN a ELSE NoLink>>
    ELSE <<a, BackupOf(a, b)>>

(* What the search may return as <<current link, backup link>>, over every *)
(* ASN: nothing while the lock is taken or when no link is installed.  At  *)
(* most one link of each slotframe falls on a slot, and the slotframe of   *)
(* broadcasts comes first in the list.                                     *)
FoundLinks ==
  {<<best, NoLink>> : best \in links}
    \cup {Overlap(a, b) : a \in {k \in links : k.slotframe_handle = 0},
                          b \in {k \in links : k.slotframe_handle = 1}}
NextActiveLinks_IgnoresLock ==
  IF links = {} THEN {<<NoLink, NoLink>>} ELSE FoundLinks
NextActiveLinks ==
  IF tsch_locked \/ links = {} THEN {<<NoLink, NoLink>>} ELSE FoundLinks

(* The end of tsch_slot_operation, reached with current_link = link and    *)
(* burst_link_scheduled = burst: leave the network when out of sync, else  *)
(* replay the link of a burst or take the next link of the schedule.  The  *)
(* loop over missed deadlines repeats the choice, and counts a repetition  *)
(* of the burst each time; the count is kept up to BurstMaxLen, beyond     *)
(* which the code does not tell values apart.                              *)
EndSlot(link, burst) ==
  /\ slot' = "sleep"
  /\ tsch_in_slot_operation' = FALSE
  /\ burst_link_scheduled' = burst
  /\ \/ /\ ~IsCoordinator
        /\ tsch_is_associated' = FALSE
        /\ current_link' = link
        /\ UNCHANGED <<backup_link, tsch_current_burst_count>>
     \/ /\ burst
        /\ link # NoLink
        /\ current_link' = link
        /\ backup_link' = NoLink
        /\ tsch_current_burst_count' \in
             {n \in 1 .. BurstMaxLen : n > tsch_current_burst_count
                                       \/ n = BurstMaxLen}
        /\ UNCHANGED tsch_is_associated
     \/ /\ ~(burst /\ link # NoLink)
        /\ \E next \in NextActiveLinks :
             /\ current_link' = next[1]
             /\ backup_link' = next[2]
             /\ tsch_current_burst_count' =
                  IF next[1] = NoLink THEN tsch_current_burst_count ELSE 0
        /\ UNCHANGED tsch_is_associated

(* The packet queues answer nothing while the lock is taken. *)
CanOfferPacket_WhileLocked(link) == link.tx
CanOfferPacket(link) == link.tx /\ ~tsch_locked

(* Without a packet, the backup link replaces a link that cannot receive,  *)
(* or one whose slotframe has lower priority.                              *)
SkipsBestLink ==
  /\ backup_link # NoLink
  /\ \/ ~current_link.rx
     \/ backup_link.slotframe_handle < current_link.slotframe_handle

(* Slots are skipped while the lock is requested, and without a link. *)
SlotAllowed_DespiteRequest == current_link # NoLink
SlotAllowed == current_link # NoLink /\ ~tsch_lock_requested

(* The slot runs link, with or without a packet to send. *)
SlotRuns(link, packet) ==
  /\ slot = "sleep"
  /\ tsch_is_associated
  /\ SlotAllowed
  /\ \/ link = current_link /\ (packet \/ ~SkipsBestLink)
     \/ link = backup_link /\ SkipsBestLink
  /\ packet => CanOfferPacket(link)

(* The protothread yields at place, inside a slot that runs link; a burst  *)
(* flag is consumed by the slot it was set for.                            *)
YieldInSlot(link, place) ==
  /\ slot' = place
  /\ tsch_in_slot_operation' = TRUE
  /\ current_link' = link
  /\ burst_link_scheduled' = FALSE
  /\ UNCHANGED <<backup_link, tsch_current_burst_count, tsch_is_associated>>

-----------------------------------------------------------------------------
(* No link, or the lock is requested: the slot is skipped, and the next    *)
(* link is looked up all the same.                                         *)
SkipSlot ==
  /\ slot = "sleep"
  /\ tsch_is_associated
  /\ ~SlotAllowed
  /\ EndSlot(current_link, burst_link_scheduled)
  /\ UNCHANGED <<lockVars, links, statusVars>>

(* A link that cannot receive and has no packet to send. *)
IdleSlot ==
  /\ \E link \in {current_link, backup_link} :
       /\ SlotRuns(link, FALSE)
       /\ ~link.rx
       /\ EndSlot(link, FALSE)
  /\ UNCHANGED <<lockVars, links, statusVars>>

(* What QL-TSCH records of a transmission: 1 for MAC_TX_OK, 2 otherwise. *)
StatusOf_MacStatus(ok) == IF ok THEN 0 ELSE 4
StatusOf(ok) == IF ok THEN 1 ELSE 2

RecordStatus(link, ok) ==
  IF link.slotframe_handle = 1
    THEN /\ trans_status' = StatusOf(ok)
         /\ status_timeslot' = link.timeslot
    ELSE UNCHANGED statusVars

(* The end of tsch_tx_slot and of the slot.  Reading the handle of a NULL  *)
(* link stops the node.                                                    *)
FinishTx(link, ok, burst) ==
  IF link = NoLink
    THEN /\ slot' = "fault"
         /\ UNCHANGED <<tsch_in_slot_operation, current_link, backup_link,
                        burst_link_scheduled, tsch_current_burst_count,
                        tsch_is_associated, statusVars>>
    ELSE /\ RecordStatus(link, ok)
         /\ EndSlot(link, burst)

(* First segment of a Tx slot: no room in dequeued_ringbuf ends it without *)
(* a trace, a radio that cannot take the packet is a failed transmission,  *)
(* otherwise it waits for the time to transmit.                            *)
StartTx ==
  \E link \in {current_link, backup_link} :
    /\ SlotRuns(link, TRUE)
    /\ \/ EndSlot(link, FALSE) /\ UNCHANGED statusVars
       \/ FinishTx(link, FALSE, FALSE)
       \/ YieldInSlot(link, "tx") /\ UNCHANGED statusVars
    /\ UNCHANGED <<lockVars, links>>

(* The packet goes out: a broadcast is done, as is a radio error; a        *)
(* unicast packet waits for its acknowledgement.                           *)
Transmit ==
  /\ slot = "tx"
  /\ \/ \E ok \in BOOLEAN : FinishTx(current_link, ok, FALSE)
     \/ YieldInSlot(current_link, "ack") /\ UNCHANGED statusVars
  /\ UNCHANGED <<lockVars, links>>

(* The acknowledgement came or did not.  An acknowledged packet that asked *)
(* for one more slot starts or continues a burst.                          *)
ReceiveAck ==
  /\ slot = "ack"
  /\ \/ FinishTx(current_link, FALSE, FALSE)
     \/ \E burst \in {FALSE, tsch_current_burst_count + 1 < BurstMaxLen} :
          FinishTx(current_link, TRUE, burst)
  /\ UNCHANGED <<lockVars, links>>

(* First segment of an Rx slot: without room in input_ringbuf nothing is   *)
(* received.                                                               *)
StartRx ==
  /\ \E link \in {current_link, backup_link} :
       /\ SlotRuns(link, FALSE)
       /\ link.rx
       /\ EndSlot(link, FALSE) \/ YieldInSlot(link, "rx")
  /\ UNCHANGED <<lockVars, links, statusVars>>

(* The end of tsch_rx_slot after a valid frame.  QL-TSCH reads the link to *)
(* count the reception in the APT table; a NULL link stops the node.       *)
FinishRx(burst) ==
  IF current_link = NoLink
    THEN /\ slot' = "fault"
         /\ burst_link_scheduled' = burst
         /\ UNCHANGED <<tsch_in_slot_operation, current_link, backup_link,
                        tsch_current_burst_count, tsch_is_associated>>
    ELSE EndSlot(current_link, burst)

(* Nothing valid was heard; or a broadcast frame; or a unicast frame that  *)
(* waits for the time to acknowledge it.                                   *)
Listen ==
  /\ slot = "rx"
  /\ \/ EndSlot(current_link, FALSE)
     \/ FinishRx(FALSE)
     \/ YieldInSlot(current_link, "rxAck")
  /\ UNCHANGED <<lockVars, links, statusVars>>

(* The acknowledgement is sent; the frame pending bit of the frame decides *)
(* of a burst, whose length is up to the sender.                           *)
SendAck ==
  /\ slot = "rxAck"
  /\ \E burst \in BOOLEAN : FinishRx(burst)
  /\ UNCHANGED <<lockVars, links, statusVars>>

StartSlot == SkipSlot \/ IdleSlot \/ StartTx \/ StartRx
ResumeSlot == Transmit \/ ReceiveAck \/ Listen \/ SendAck
SlotStep == StartSlot \/ ResumeSlot
=============================================================================
