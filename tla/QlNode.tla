-------------------------------- MODULE QlNode --------------------------------
(***************************************************************************)
(* A QL-TSCH node: the processes of node.c, with the schedule functions    *)
(* and the lock they call, interleaved with the slot operation.            *)
(*                                                                         *)
(* Processes are cooperative and only wait for timers outside the critical *)
(* sections, so there is one process context; its steps are the accesses   *)
(* to what the interrupt also accesses.  A policy update of                *)
(* scheduler_process is a chain of critical sections, named by phase:      *)
(*   learn          read the last Tx status and choose an action           *)
(*   dropRx, addTx  add_link of the Tx link at the new action              *)
(*   dropTx, addRx  add_link of the Rx link at the old action              *)
(* Q-values are abstracted: any timeslot may be chosen.                    *)
(***************************************************************************)
EXTENDS TschSlotOperation, Integers

VARIABLES
  pc,                   \* the next step of the process context
  phase,                \* the critical section it is in or about to enter
  l,                    \* the link that add_link or remove_link works on
  transmission_status,  \* scheduler_process: the status just read
  action,               \* scheduler_process: the action just chosen
  current_action,
  previous_action,      \* history: current_action before the last update
  tx_links_count        \* of the broadcast neighbour, which owns every link

schedVars == <<transmission_status, action, current_action, previous_action>>
procVars == <<pc, phase, l, schedVars, tx_links_count>>
vars == <<lockVars, slotVars, links, statusVars, procVars>>

ProcPlaces == {"boot", "wait", "call", "request", "spin", "take", "clear",
               "enter", "finish", "release", "count"}
Phases == {"learn", "dropRx", "addTx", "dropTx", "addRx", "done"}
Locking == {"request", "spin", "take", "clear"}
InSection == {"enter", "finish", "release"}

TypeOK ==
  /\ SlotTypeOK
  /\ pc \in ProcPlaces
  /\ phase \in Phases
  /\ l \in Link \cup {NoLink}
  /\ transmission_status \in 0 .. 2
  /\ action \in Timeslots
  /\ current_action \in Timeslots
  /\ previous_action \in Timeslots
  /\ tx_links_count \in Int

Init ==
  /\ SlotInit
  /\ pc = "boot"
  /\ phase = "done"
  /\ l = NoLink
  /\ transmission_status = 0
  /\ action = 0
  /\ current_action = 0
  /\ previous_action = 0
  /\ tx_links_count = 0

-----------------------------------------------------------------------------
(* node_udp_process up to its first wait: init_tsch_schedule runs before   *)
(* the MAC is turned on, hence before any slot operation can interleave.   *)
Boot ==
  /\ pc = "boot"
  /\ pc' = "wait"
  /\ links' = {BroadcastLink, TxLink(0)}
                \cup {RxLink(ts) : ts \in Timeslots \ {0}}
  /\ tx_links_count' = 2
  /\ UNCHANGED <<lockVars, slotVars, statusVars, phase, l, schedVars>>

(* tsch_process, while scheduler_process waits: the node has associated,   *)
(* tsch_slot_operation_sync forgets the link and                           *)
(* tsch_slot_operation_start looks up the first one.                       *)
Associate ==
  /\ pc = "wait"
  /\ slot = "sleep"
  /\ ~tsch_is_associated
  /\ tsch_is_associated' = TRUE
  /\ \E next \in NextActiveLinks :
       /\ current_link' = next[1]
       /\ backup_link' = next[2]
  /\ UNCHANGED <<lockVars, tsch_in_slot_operation, slot, links, statusVars,
                 burst_link_scheduled, tsch_current_burst_count, procVars>>

(* policy_update_timer expires. *)
TimerExpires ==
  /\ pc = "wait"
  /\ pc' = "call"
  /\ phase' = "learn"
  /\ UNCHANGED <<lockVars, slotVars, links, statusVars, l, schedVars,
                 tx_links_count>>

-----------------------------------------------------------------------------
Dropping == phase \in {"dropRx", "dropTx"}
Adding == phase \in {"addTx", "addRx"}
Target == IF phase \in {"dropRx", "addTx"} THEN action ELSE current_action
LinksAt(ts) == {k \in links : k.slotframe_handle = 1 /\ k.timeslot = ts}
NewLink_AtNewAction == IF phase = "addTx" THEN TxLink(action) ELSE RxLink(action)
NewLink == IF phase = "addTx" THEN TxLink(action) ELSE RxLink(current_action)

(* set_up_new_schedule does nothing when the action does not change. *)
NextPhase ==
  CASE phase = "learn" -> IF action = current_action THEN "done" ELSE "dropRx"
    [] phase = "dropRx" -> "addTx"
    [] phase = "addTx" -> "dropTx"
    [] phase = "dropTx" -> "addRx"
    [] OTHER -> "done"

(* tsch_get_lock returns 0: scheduler_process tries again, the schedule    *)
(* functions give up.                                                      *)
Refused ==
  /\ pc' = "call"
  /\ phase' = IF phase = "learn" THEN phase ELSE NextPhase

(* A critical section starts with a first look at tsch_locked.  Nothing is *)
(* removed when remove_link_by_timeslot finds no link at the timeslot.     *)
CallGetLock ==
  /\ pc = "call"
  /\ phase # "done"
  /\ IF Dropping /\ LinksAt(Target) = {}
       THEN pc' = "call" /\ phase' = NextPhase /\ UNCHANGED l
       ELSE /\ IF Dropping
                 THEN l' \in LinksAt(Target)
                 ELSE l' = IF Adding THEN NewLink ELSE NoLink
            /\ IF tsch_locked
                 THEN Refused
                 ELSE pc' = "request" /\ UNCHANGED phase
  /\ UNCHANGED <<lockVars, slotVars, links, statusVars, schedVars,
                 tx_links_count>>

(* From here no new slot starts. *)
RequestLock ==
  /\ pc = "request"
  /\ pc' = "spin"
  /\ tsch_lock_requested' = TRUE
  /\ UNCHANGED <<tsch_locked, slotVars, links, statusVars, phase, l,
                 schedVars, tx_links_count>>

(* The busy wait ends with the slot in progress, if any. *)
SlotEnded_NotAwaited == TRUE
SlotEnded == ~tsch_in_slot_operation

SpinEnds ==
  /\ pc = "spin"
  /\ SlotEnded
  /\ pc' = "take"
  /\ UNCHANGED <<lockVars, slotVars, links, statusVars, phase, l, schedVars,
                 tx_links_count>>

TakeLock ==
  /\ pc = "take"
  /\ IF tsch_locked
       THEN Refused /\ UNCHANGED tsch_locked
       ELSE tsch_locked' = TRUE /\ pc' = "clear" /\ UNCHANGED phase
  /\ UNCHANGED <<tsch_lock_requested, slotVars, links, statusVars, l,
                 schedVars, tx_links_count>>

(* The request is withdrawn although the lock is held from now on. *)
ClearRequest ==
  /\ pc = "clear"
  /\ pc' = "enter"
  /\ tsch_lock_requested' = FALSE
  /\ UNCHANGED <<tsch_locked, slotVars, links, statusVars, phase, l,
                 schedVars, tx_links_count>>

-----------------------------------------------------------------------------
(* get_and_reset_Tx_slot_status: first the read ... *)
ReadStatus ==
  /\ pc = "enter"
  /\ phase = "learn"
  /\ pc' = "finish"
  /\ transmission_status' = trans_status
  /\ UNCHANGED <<lockVars, slotVars, links, statusVars, phase, l, action,
                 current_action, previous_action, tx_links_count>>

(* ... then the reset; the policy chooses the next action. *)
StatusAfterRead_Kept == trans_status
StatusAfterRead == 0

ResetStatus ==
  /\ pc = "finish"
  /\ phase = "learn"
  /\ pc' = "release"
  /\ trans_status' = StatusAfterRead
  /\ action' \in Timeslots
  /\ UNCHANGED <<lockVars, slotVars, links, status_timeslot, phase, l,
                 transmission_status, current_action, previous_action,
                 tx_links_count>>

(* tsch_schedule_remove_link: a link that is scheduled next is forgotten   *)
(* by the slot operation ...                                               *)
LinkToRunNext_NotAborted == current_link
LinkToRunNext == IF l = current_link THEN NoLink ELSE current_link

AbortNextLink ==
  /\ pc = "enter"
  /\ Dropping
  /\ pc' = "finish"
  /\ current_link' = LinkToRunNext
  /\ UNCHANGED <<lockVars, tsch_in_slot_operation, slot, links, statusVars,
                 backup_link, burst_link_scheduled, tsch_current_burst_count,
                 tsch_is_associated, phase, l, schedVars, tx_links_count>>

(* ... and leaves the list and the pool. *)
UnlinkLink ==
  /\ pc = "finish"
  /\ Dropping
  /\ pc' = "release"
  /\ links' = links \ {l}
  /\ UNCHANGED <<lockVars, slotVars, statusVars, phase, l, schedVars,
                 tx_links_count>>

(* tsch_schedule_add_link: the link is put in the list before its fields   *)
(* are set; the list is not in a readable state in between.                *)
EnlistLink ==
  /\ pc = "enter"
  /\ Adding
  /\ pc' = "finish"
  /\ UNCHANGED <<lockVars, slotVars, links, statusVars, phase, l, schedVars,
                 tx_links_count>>

InitLink ==
  /\ pc = "finish"
  /\ Adding
  /\ pc' = "release"
  /\ links' = links \cup {l}
  /\ UNCHANGED <<lockVars, slotVars, statusVars, phase, l, schedVars,
                 tx_links_count>>

(* tsch_release_lock. *)
LockAfterRelease_StillHeld == TRUE
LockAfterRelease == FALSE

ReleaseLock ==
  /\ pc = "release"
  /\ pc' = "count"
  /\ tsch_locked' = LockAfterRelease
  /\ UNCHANGED <<tsch_lock_requested, slotVars, links, statusVars, phase, l,
                 schedVars, tx_links_count>>

(* Outside the lock again, the Tx links of the neighbour are counted. *)
CountedTxLinks_OnlyAdded ==
  IF Adding /\ l.tx THEN tx_links_count + 1 ELSE tx_links_count
CountedTxLinks ==
  CASE Dropping /\ l.tx -> tx_links_count - 1
    [] Adding /\ l.tx -> tx_links_count + 1
    [] OTHER -> tx_links_count

CountTxLink ==
  /\ pc = "count"
  /\ pc' = "call"
  /\ phase' = NextPhase
  /\ tx_links_count' = CountedTxLinks
  /\ UNCHANGED <<lockVars, slotVars, links, statusVars, l, schedVars>>

(* The new action is in force and the timer is set again. *)
FinishUpdate ==
  /\ pc = "call"
  /\ phase = "done"
  /\ ~tsch_locked
  /\ pc' = "wait"
  /\ current_action' = action
  /\ previous_action' = current_action
  /\ l' = NoLink
  /\ UNCHANGED <<lockVars, slotVars, links, statusVars, phase,
                 transmission_status, action, tx_links_count>>

PolicyUpdate ==
  \/ CallGetLock \/ RequestLock \/ SpinEnds \/ TakeLock \/ ClearRequest
  \/ ReadStatus \/ ResetStatus \/ AbortNextLink \/ UnlinkLink
  \/ EnlistLink \/ InitLink \/ ReleaseLock \/ CountTxLink \/ FinishUpdate

(* Nothing runs on a node that has stopped at a fault. *)
Next ==
  /\ slot # "fault"
  /\ \/ Boot \/ Associate \/ TimerExpires \/ PolicyUpdate
     \/ SlotStep /\ UNCHANGED procVars

Spec == Init /\ [][Next]_vars

(* Process context always gets to run between interrupts, and a slot lasts *)
(* a bounded time.                                                         *)
FairSpec ==
  /\ Spec
  /\ WF_vars(slot # "fault" /\ PolicyUpdate)
  /\ WF_vars(slot # "fault" /\ ResumeSlot /\ UNCHANGED procVars)
=============================================================================
