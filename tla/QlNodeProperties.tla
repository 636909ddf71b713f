--------------------------- MODULE QlNodeProperties ---------------------------
(***************************************************************************)
(* What is checked of QlNode: properties the code has, then properties     *)
(* its comments state and it does not have.                                *)
(***************************************************************************)
EXTENDS QlNode

(* No slot transmits while the lock is held: the packet queues answer      *)
(* nothing to the interrupt then, and tsch_get_lock waits for the slot in  *)
(* progress.  tsch_queue_packet_sent depends on it: it would leave in its  *)
(* queue a packet that it also hands to the dequeued ring.                 *)
LockExcludesTransmission == tsch_locked => ~Transmitting

(* A slot that transmits keeps its link to the end: no schedule change     *)
(* removes it, so the reads of current_link after the yields are safe.     *)
TransmissionKeepsItsLink ==
  Transmitting => current_link \in links /\ current_link.tx

(* The link the slot operation runs or will run is never a freed one.      *)
CurrentLinkInstalled == current_link # NoLink => current_link \in links

(* remove_link forgets current_link but not backup_link, to which the slot *)
(* operation may fall back.  The two slotframes of a QL-TSCH node are such *)
(* that a link that is moved is never the backup.                          *)
BackupLinkInstalled == backup_link # NoLink => backup_link \in links

(* Between the read and the reset of get_and_reset_Tx_slot_status no       *)
(* result is recorded: none is lost.                                       *)
StatusNotLost ==
  pc = "finish" /\ phase = "learn" => trans_status = transmission_status

(* A result is credited at the latest by the update after the one that     *)
(* moved the Tx link away from the timeslot it was obtained in.            *)
CreditAtMostOneUpdateLate ==
  pc = "finish" /\ phase = "learn" /\ transmission_status # 0
    => status_timeslot \in {current_action, previous_action}

(* Every policy update leaves one link per unicast timeslot, Tx at the     *)
(* current action and Rx elsewhere; while it runs, the node always has a   *)
(* Tx link in the unicast slotframe.                                       *)
ScheduleFollowsAction ==
  /\ pc = "wait" => links = {BroadcastLink, TxLink(current_action)} \cup
                      {RxLink(ts) : ts \in Timeslots \ {current_action}}
  /\ pc # "boot" => \E ts \in Timeslots : TxLink(ts) \in links

(* The counter of Tx links of the broadcast neighbour, updated outside the *)
(* lock, agrees with the schedule whenever no update is in progress.       *)
TxLinksCounted ==
  pc = "wait" => tx_links_count = Cardinality({k \in links : k.tx})

(* tsch_get_lock never fails: node.c would spin in its loop forever, and   *)
(* the schedule functions would silently leave the schedule half changed.  *)
GetLockNeverRefused ==
  (pc = "call" \/ pc = "take") => ~tsch_locked

(* The slot operation takes no link from a list that is being changed. *)
ListNotReadMidUpdate ==
  [][ pc = "finish" /\ phase # "learn" /\ UNCHANGED pc
        => current_link' \in {current_link, backup_link, NoLink} ]_vars

(* Every policy update comes to its end, unless the node stops: in         *)
(* particular the busy wait for the slot in progress is not starved by     *)
(* the slots that follow.                                                  *)
PolicyUpdateCompletes == pc = "call" ~> (pc = "wait" \/ slot = "fault")

(* The flags of the lock and the places of the slot operation, as the      *)
(* contract of the lock knows them.                                        *)
ContractProcess == IF tsch_locked THEN "in"
                   ELSE IF tsch_lock_requested THEN "waiting" ELSE "out"
ContractRadio == IF slot = "sleep" THEN "none"
                 ELSE IF slot = "fault" THEN "stopped"
                 ELSE IF Transmitting THEN "tx" ELSE "rx"
Contract == INSTANCE LockContract
  WITH process <- ContractProcess, radio <- ContractRadio

(* tsch_get_lock, tsch_release_lock and the checks of the slot operation   *)
(* implement the contract of the lock, in whatever order the two contexts  *)
(* interleave ...                                                          *)
ImplementsLockContract == Contract!Spec

(* ... and when both get to run, every slot ends and the process that      *)
(* waits for the lock gets it.                                             *)
ImplementsFairLockContract == Contract!FairSpec

-----------------------------------------------------------------------------
(* tsch-slot-operation.h:76: "When the lock is taken, slot operation will  *)
(* be skipped until release."                                              *)
LockSkipsSlots == tsch_locked => ~tsch_in_slot_operation

(* tsch-schedule.c:299: "The link to be removed is scheduled as next, set  *)
(* it to NULL to abort the next link operation": what is aborted is not    *)
(* the operation in progress.                                              *)
RemovalAbortsNextSlot ==
  [][ current_link # NoLink /\ pc = "enter" /\ pc' = "finish"
        /\ current_link' = NoLink => ~tsch_in_slot_operation ]_vars

(* node.c:332: "updating the q-table based on the last action results":    *)
(* a result is credited to the action it was obtained with.                *)
RewardCreditsAction ==
  pc = "finish" /\ phase = "learn" /\ transmission_status # 0
    => status_timeslot = current_action
=============================================================================
