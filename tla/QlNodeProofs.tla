----------------------------- MODULE QlNodeProofs -----------------------------
(***************************************************************************)
(* Theorems about a QL-TSCH node, for every length of the unicast          *)
(* slotframe and every bound on bursts.                                    *)
(***************************************************************************)
EXTENDS QlNodeProperties, TLAPS

(* The links of a QL-TSCH schedule are records of the three kinds. *)
LEMMA LinkFields ==
  /\ BroadcastLink \in Link
  /\ \A ts \in Timeslots : TxLink(ts) \in Link /\ RxLink(ts) \in Link
  /\ \A k \in Link : k.timeslot \in Timeslots
  /\ \A k \in Link : k.slotframe_handle = 0 <=> k = BroadcastLink
  /\ \A k \in Link : k.slotframe_handle \in {0, 1}
<1>1. 0 \in Timeslots
  BY ConstantsAssumption DEF ConstantsAssumption, Timeslots
<1>2. \A k \in Link : \/ k = BroadcastLink
                      \/ \E ts \in Timeslots : k = TxLink(ts) \/ k = RxLink(ts)
  BY DEF Link
<1>3. /\ BroadcastLink.timeslot = 0 /\ BroadcastLink.slotframe_handle = 0
      /\ \A ts : TxLink(ts).timeslot = ts /\ TxLink(ts).slotframe_handle = 1
      /\ \A ts : RxLink(ts).timeslot = ts /\ RxLink(ts).slotframe_handle = 1
  BY DEF BroadcastLink, TxLink, RxLink
<1>4. QED
  BY <1>1, <1>2, <1>3 DEF Link

(* The search returns links of the schedule. *)
LEMMA NextActiveLinksType ==
  ASSUME links \subseteq Link, NEW next \in NextActiveLinks
  PROVE  /\ next[1] \in links \cup {NoLink}
         /\ next[2] \in links \cup {NoLink}
BY DEF NextActiveLinks, FoundLinks, Overlap, BackupOf

(* The end of a slot keeps the types of what it sets. *)
LEMMA EndSlotType ==
  ASSUME SlotTypeOK, NEW link \in Link \cup {NoLink}, NEW burst \in BOOLEAN,
         EndSlot(link, burst)
  PROVE  /\ tsch_in_slot_operation' \in BOOLEAN
         /\ slot' \in SlotPlaces
         /\ current_link' \in Link \cup {NoLink}
         /\ backup_link' \in Link \cup {NoLink}
         /\ burst_link_scheduled' \in BOOLEAN
         /\ tsch_current_burst_count' \in 0 .. BurstMaxLen
         /\ tsch_is_associated' \in BOOLEAN
<1>1. \A next \in NextActiveLinks :
        next[1] \in Link \cup {NoLink} /\ next[2] \in Link \cup {NoLink}
  BY NextActiveLinksType DEF SlotTypeOK
<1>2. /\ tsch_in_slot_operation' \in BOOLEAN
      /\ slot' \in SlotPlaces
      /\ burst_link_scheduled' \in BOOLEAN
      /\ tsch_is_associated' \in BOOLEAN
  BY DEF EndSlot, SlotTypeOK, SlotPlaces
<1>3. current_link' \in Link \cup {NoLink} /\ backup_link' \in Link \cup {NoLink}
  BY <1>1 DEF EndSlot, SlotTypeOK
<1>4. tsch_current_burst_count' \in 0 .. BurstMaxLen
  BY ConstantsAssumption DEF EndSlot, SlotTypeOK, ConstantsAssumption
<1>5. QED
  BY <1>2, <1>3, <1>4
-----------------------------------------------------------------------------
(* Every step of the slot operation keeps the types. *)
LEMMA SlotStepType ==
  ASSUME SlotTypeOK, SlotStep
  PROVE  SlotTypeOK'
<1> USE DEF SlotTypeOK
<1>1. ASSUME UNCHANGED <<lockVars, links, statusVars>>,
             NEW link \in Link \cup {NoLink}, NEW burst \in BOOLEAN,
             EndSlot(link, burst)
      PROVE  SlotTypeOK'
  BY <1>1, EndSlotType DEF lockVars, statusVars
<1>2. ASSUME UNCHANGED <<lockVars, links, statusVars>>,
             NEW link \in Link \cup {NoLink}, NEW place \in SlotPlaces,
             YieldInSlot(link, place)
      PROVE  SlotTypeOK'
  BY <1>2 DEF lockVars, statusVars, YieldInSlot
<1>3. ASSUME UNCHANGED <<lockVars, links>>,
             NEW link \in Link \cup {NoLink}, NEW ok \in BOOLEAN,
             NEW burst \in BOOLEAN, FinishTx(link, ok, burst)
      PROVE  SlotTypeOK'
  <2>1. CASE link = NoLink
    BY <1>3, <2>1 DEF FinishTx, SlotPlaces, lockVars, statusVars
  <2>2. CASE link # NoLink
    <3>1. trans_status' \in 0 .. 2 /\ status_timeslot' \in Timeslots
      BY <1>3, <2>2, LinkFields
      DEF FinishTx, RecordStatus, StatusOf, statusVars
    <3>2. QED
      BY <1>3, <2>2, <3>1, EndSlotType DEF FinishTx, lockVars
  <2>3. QED
    BY <2>1, <2>2
<1>4. ASSUME UNCHANGED <<lockVars, links, statusVars>>,
             NEW burst \in BOOLEAN, FinishRx(burst)
      PROVE  SlotTypeOK'
  <2>1. CASE current_link = NoLink
    BY <1>4, <2>1 DEF FinishRx, SlotPlaces, lockVars, statusVars
  <2>2. CASE current_link # NoLink
    BY <1>1, <1>4, <2>2 DEF FinishRx
  <2>3. QED
    BY <2>1, <2>2
<1>5. (tsch_current_burst_count + 1 < BurstMaxLen) \in BOOLEAN
  OBVIOUS
<1>6. CASE SkipSlot
  BY <1>1, <1>6 DEF SkipSlot
<1>7. CASE IdleSlot
  BY <1>1, <1>7 DEF IdleSlot
<1>8. CASE StartTx
  BY <1>1, <1>2, <1>3, <1>8 DEF StartTx, SlotPlaces
<1>9. CASE StartRx
  BY <1>1, <1>2, <1>9 DEF StartRx, SlotPlaces
<1>10. CASE Transmit
  BY <1>2, <1>3, <1>10 DEF Transmit, SlotPlaces
<1>11. CASE ReceiveAck
  BY <1>3, <1>5, <1>11 DEF ReceiveAck
<1>12. CASE Listen
  BY <1>1, <1>2, <1>4, <1>12 DEF Listen, SlotPlaces
<1>13. CASE SendAck
  BY <1>4, <1>13 DEF SendAck
<1>14. QED
  BY <1>6, <1>7, <1>8, <1>9, <1>10, <1>11, <1>12, <1>13
  DEF SlotStep, StartSlot, ResumeSlot

(* The link that add_link or remove_link works on is one of the unicast    *)
(* slotframe.                                                              *)
HoldsLink ==
  pc \in Locking \cup InSection \cup {"count"} /\ phase # "learn"
    => l \in Link /\ l.slotframe_handle = 1

(* Every step of process context keeps the types. *)
LEMMA ProcessStepType ==
  ASSUME TypeOK, HoldsLink, Boot \/ Associate \/ TimerExpires \/ PolicyUpdate
  PROVE  TypeOK'
<1> USE DEF TypeOK, SlotTypeOK, ProcPlaces, Phases,
            lockVars, slotVars, statusVars, schedVars
<1>1. 0 \in Timeslots /\ \A ts \in Timeslots : LinksAt(ts) \subseteq Link
  BY ConstantsAssumption DEF ConstantsAssumption, Timeslots, LinksAt
<1>2. NextPhase \in Phases
  BY DEF NextPhase
<1>3. ASSUME Refused
      PROVE  pc' \in ProcPlaces /\ phase' \in Phases
  BY <1>2, <1>3 DEF Refused
<1>4. CASE Boot
  BY <1>1, <1>4, LinkFields DEF Boot
<1>5. CASE Associate
  BY <1>5, NextActiveLinksType DEF Associate, procVars
<1>6. CASE TimerExpires
  BY <1>6 DEF TimerExpires
<1>7. CASE CallGetLock
  <2>1. NewLink \in Link /\ Target \in Timeslots
    BY LinkFields DEF NewLink, Target
  <2>2. l' \in Link \cup {NoLink}
    BY <1>1, <1>7, <2>1 DEF CallGetLock
  <2>3. pc' \in ProcPlaces /\ phase' \in Phases
    BY <1>2, <1>3, <1>7 DEF CallGetLock
  <2>4. QED
    BY <1>7, <2>2, <2>3 DEF CallGetLock
<1>8. CASE RequestLock
  BY <1>8 DEF RequestLock
<1>9. CASE SpinEnds
  BY <1>9 DEF SpinEnds
<1>10. CASE TakeLock
  BY <1>3, <1>10 DEF TakeLock
<1>11. CASE ClearRequest
  BY <1>11 DEF ClearRequest
<1>12. CASE ReadStatus
  BY <1>12 DEF ReadStatus
<1>13. CASE ResetStatus
  BY <1>13 DEF ResetStatus, StatusAfterRead
<1>14. CASE AbortNextLink
  BY <1>14 DEF AbortNextLink, LinkToRunNext
<1>15. CASE UnlinkLink
  BY <1>15 DEF UnlinkLink
<1>16. CASE EnlistLink
  BY <1>16 DEF EnlistLink
<1>17. CASE InitLink
  <2>1. l \in Link
    BY <1>17 DEF InitLink, Adding, HoldsLink, InSection
  <2>2. QED
    BY <1>17, <2>1 DEF InitLink
<1>18. CASE ReleaseLock
  BY <1>18 DEF ReleaseLock, LockAfterRelease
<1>19. CASE CountTxLink
  BY <1>2, <1>19 DEF CountTxLink, CountedTxLinks
<1>20. CASE FinishUpdate
  BY <1>20 DEF FinishUpdate
<1>21. QED
  BY <1>4, <1>5, <1>6, <1>7, <1>8, <1>9, <1>10, <1>11, <1>12, <1>13, <1>14,
     <1>15, <1>16, <1>17, <1>18, <1>19, <1>20 DEF PolicyUpdate

LEMMA HoldsLinkStep ==
  ASSUME TypeOK, HoldsLink, [Next]_vars
  PROVE  HoldsLink'
<1> USE DEF TypeOK, Phases, HoldsLink, Locking, InSection
<1>1. ASSUME UNCHANGED procVars
      PROVE  HoldsLink'
  BY <1>1 DEF procVars
<1>2. CASE CallGetLock
  <2>1. NewLink \in Link /\ NewLink.slotframe_handle = 1
    BY LinkFields DEF NewLink, TxLink, RxLink
  <2>2. \A k \in LinksAt(Target) : k \in Link /\ k.slotframe_handle = 1
    BY DEF LinksAt, SlotTypeOK
  <2>3. CASE pc' = "call"
    BY <2>3
  <2>4. CASE pc' # "call"
    BY <1>2, <2>1, <2>2, <2>4
    DEF CallGetLock, Refused, Dropping, Adding
  <2>5. QED
    BY <2>3, <2>4
<1>3. CASE TakeLock
  BY <1>3 DEF TakeLock, Refused
<1>4. CASE Boot \/ TimerExpires \/ CountTxLink \/ FinishUpdate
  BY <1>4 DEF Boot, TimerExpires, CountTxLink, FinishUpdate
<1>5. CASE RequestLock \/ SpinEnds \/ ClearRequest \/ ReleaseLock
  BY <1>5 DEF RequestLock, SpinEnds, ClearRequest, ReleaseLock
<1>6. CASE ReadStatus \/ ResetStatus
  BY <1>6 DEF ReadStatus, ResetStatus
<1>7. CASE AbortNextLink \/ UnlinkLink \/ EnlistLink \/ InitLink
  BY <1>7 DEF AbortNextLink, UnlinkLink, EnlistLink, InitLink
<1>8. QED
  BY <1>1, <1>2, <1>3, <1>4, <1>5, <1>6, <1>7
  DEF Next, PolicyUpdate, Associate, vars

(* Every variable of the node keeps its type. *)
THEOREM TypeCorrect == Spec => [](TypeOK /\ HoldsLink)
<1>1. Init => TypeOK /\ HoldsLink
  <2>1. 0 \in Timeslots
    BY ConstantsAssumption DEF ConstantsAssumption, Timeslots
  <2> SUFFICES ASSUME Init
               PROVE  TypeOK /\ HoldsLink
    OBVIOUS
  <2>2. tsch_current_burst_count \in 0 .. BurstMaxLen /\ trans_status \in 0 .. 2
    BY ConstantsAssumption DEF Init, SlotInit, ConstantsAssumption
  <2>3. /\ tsch_locked \in BOOLEAN
        /\ tsch_lock_requested \in BOOLEAN
        /\ tsch_in_slot_operation \in BOOLEAN
        /\ burst_link_scheduled \in BOOLEAN
        /\ tsch_is_associated \in BOOLEAN
    BY DEF Init, SlotInit
  <2>4. /\ slot \in SlotPlaces
        /\ links \subseteq Link
        /\ current_link \in Link \cup {NoLink}
        /\ backup_link \in Link \cup {NoLink}
        /\ status_timeslot \in Timeslots
    BY <2>1 DEF Init, SlotInit, SlotPlaces
  <2>5. SlotTypeOK
    BY <2>2, <2>3, <2>4 DEF SlotTypeOK
  <2>6. QED
    BY <2>1, <2>5
    DEF Init, TypeOK, HoldsLink, ProcPlaces, Phases, Locking, InSection
<1>2. TypeOK /\ HoldsLink /\ [Next]_vars => TypeOK' /\ HoldsLink'
  <2> SUFFICES ASSUME TypeOK, HoldsLink, [Next]_vars
               PROVE  TypeOK' /\ HoldsLink'
    OBVIOUS
  <2>1. HoldsLink'
    BY HoldsLinkStep
  <2>2. CASE Boot \/ Associate \/ TimerExpires \/ PolicyUpdate
    BY <2>1, <2>2, ProcessStepType
  <2>3. CASE SlotStep /\ UNCHANGED procVars
    BY <2>1, <2>3, SlotStepType DEF TypeOK, procVars, schedVars
  <2>4. CASE UNCHANGED vars
    BY <2>1, <2>4
    DEF TypeOK, SlotTypeOK, vars, lockVars, slotVars, statusVars, procVars,
        schedVars
  <2>5. QED
    BY <2>2, <2>3, <2>4 DEF Next
<1>3. QED
  BY <1>1, <1>2, PTL DEF Spec

-----------------------------------------------------------------------------
(* Who is where when: the flags follow the place of process context, the   *)
(* lock is taken when no slot is in progress, no transmission starts while *)
(* it is held, and the status it was taken for does not change.            *)
LockInv ==
  /\ tsch_locked => pc \in {"clear"} \cup InSection
  /\ tsch_lock_requested <=> pc \in {"spin", "take", "clear"}
  /\ ~tsch_in_slot_operation => slot \in {"sleep", "fault"}
  /\ pc \in {"take", "clear"} => slot \in {"sleep", "fault"}
  /\ pc \in InSection => tsch_locked /\ ~Transmitting
  /\ pc = "clear" => tsch_locked
  /\ StatusNotLost

(* Every step of the slot operation keeps the invariant of the lock. *)
LEMMA LockInvSlotStep ==
  ASSUME TypeOK, LockInv, SlotStep, UNCHANGED procVars
  PROVE  LockInv'
<1> USE DEF TypeOK, LockInv
<1>1. UNCHANGED <<tsch_locked, tsch_lock_requested, pc, phase,
                  transmission_status>>
  BY DEF SlotStep, StartSlot, ResumeSlot, SkipSlot, IdleSlot, StartTx, StartRx,
         Transmit, ReceiveAck, Listen, SendAck, lockVars, procVars, schedVars
<1>2. ~tsch_in_slot_operation' => slot' \in {"sleep", "fault"}
  BY DEF SlotStep, StartSlot, ResumeSlot, SkipSlot, IdleSlot, StartTx, StartRx,
         Transmit, ReceiveAck, Listen, SendAck, EndSlot, YieldInSlot,
         FinishTx, FinishRx
<1>3. ASSUME pc \in {"take", "clear"}
      PROVE  slot' \in {"sleep", "fault"}
  BY <1>3
  DEF SlotStep, StartSlot, ResumeSlot, SkipSlot, IdleSlot, StartTx, StartRx,
      Transmit, ReceiveAck, Listen, SendAck, SlotRuns, SlotAllowed, EndSlot
<1>4. ASSUME pc \in InSection
      PROVE  ~Transmitting' /\ trans_status' = trans_status
  BY <1>4
  DEF SlotStep, StartSlot, ResumeSlot, SkipSlot, IdleSlot, StartTx, StartRx,
      Transmit, ReceiveAck, Listen, SendAck, SlotRuns, CanOfferPacket,
      EndSlot, YieldInSlot, FinishRx, Transmitting, statusVars
<1>5. QED
  BY <1>1, <1>2, <1>3, <1>4 DEF StatusNotLost, InSection

(* So does every step of process context. *)
LEMMA LockInvProcessStep ==
  ASSUME TypeOK, LockInv, Boot \/ Associate \/ TimerExpires \/ PolicyUpdate
  PROVE  LockInv'
<1> USE DEF TypeOK, LockInv, StatusNotLost, InSection, Transmitting,
            lockVars, slotVars, statusVars
<1>1. CASE Boot \/ TimerExpires \/ FinishUpdate \/ CountTxLink
  BY <1>1 DEF Boot, TimerExpires, FinishUpdate, CountTxLink
<1>2. CASE Associate
  BY <1>2 DEF Associate, procVars, schedVars
<1>3. CASE CallGetLock
  BY <1>3 DEF CallGetLock, Refused, schedVars
<1>4. CASE RequestLock
  BY <1>4 DEF RequestLock, schedVars
<1>5. CASE SpinEnds
  BY <1>5 DEF SpinEnds, SlotEnded, schedVars
<1>6. CASE TakeLock
  BY <1>6 DEF TakeLock, Refused, schedVars
<1>7. CASE ClearRequest
  BY <1>7 DEF ClearRequest, schedVars
<1>8. CASE ReadStatus
  BY <1>8 DEF ReadStatus
<1>9. CASE ResetStatus
  BY <1>9 DEF ResetStatus
<1>10. CASE AbortNextLink \/ UnlinkLink
  BY <1>10 DEF AbortNextLink, UnlinkLink, Dropping, schedVars
<1>11. CASE EnlistLink \/ InitLink
  BY <1>11 DEF EnlistLink, InitLink, Adding, schedVars
<1>12. CASE ReleaseLock
  BY <1>12 DEF ReleaseLock, LockAfterRelease, schedVars
<1>13. QED
  BY <1>1, <1>2, <1>3, <1>4, <1>5, <1>6, <1>7, <1>8, <1>9, <1>10, <1>11,
     <1>12 DEF PolicyUpdate

(* So the lock is always as its process left it. *)
LEMMA LockInvariant == Spec => [](TypeOK /\ LockInv)
<1>1. Init => LockInv
  BY DEF Init, SlotInit, LockInv, InSection, StatusNotLost
<1>2. TypeOK /\ LockInv /\ [Next]_vars => LockInv'
  <2> SUFFICES ASSUME TypeOK, LockInv, [Next]_vars
               PROVE  LockInv'
    OBVIOUS
  <2>1. CASE Next
    BY <2>1, LockInvSlotStep, LockInvProcessStep DEF Next
  <2>2. CASE UNCHANGED vars
    BY <2>2
    DEF LockInv, StatusNotLost, Transmitting, vars, lockVars, slotVars,
        statusVars, procVars, schedVars
  <2>3. QED
    BY <2>1, <2>2
<1>3. QED
  BY <1>1, <1>2, TypeCorrect, PTL DEF Spec

(* While the lock is held no slot transmits. *)
THEOREM LockedNeverTransmits == Spec => []LockExcludesTransmission
<1>1. LockInv => LockExcludesTransmission
  BY DEF LockInv, LockExcludesTransmission, Transmitting
<1>2. QED
  BY <1>1, LockInvariant, PTL

(* tsch_get_lock always succeeds. *)
THEOREM LockNeverRefused == Spec => []GetLockNeverRefused
<1>1. LockInv => GetLockNeverRefused
  BY DEF LockInv, GetLockNeverRefused, InSection
<1>2. QED
  BY <1>1, LockInvariant, PTL

(* No transmission result falls between the read and the reset. *)
THEOREM NoStatusLost == Spec => []StatusNotLost
<1>1. LockInv => StatusNotLost
  BY DEF LockInv
<1>2. QED
  BY <1>1, LockInvariant, PTL

-----------------------------------------------------------------------------
(* Where links come from: the backup can only be the broadcast link, which *)
(* is never removed, and a unicast link that is about to be removed is not *)
(* the one of the slot operation.                                          *)
LinkInv ==
  /\ backup_link \in {NoLink, BroadcastLink}
  /\ pc # "boot" => BroadcastLink \in links
  /\ pc = "boot" => /\ current_link = NoLink
                    /\ backup_link = NoLink
                    /\ ~tsch_is_associated
                    /\ slot = "sleep"
  /\ CurrentLinkInstalled
  /\ pc = "finish" /\ Dropping => current_link # l
  /\ TransmissionKeepsItsLink

(* The broadcast link wins over any link of the unicast slotframe, and is  *)
(* then its own backup.                                                    *)
LEMMA NextActiveLinksFound ==
  ASSUME links \subseteq Link, NEW next \in NextActiveLinks
  PROVE  /\ next[1] \in links \cup {NoLink}
         /\ next[2] \in {NoLink, BroadcastLink}
         /\ tsch_locked => next[1] = NoLink
<1>1. \A a, b \in links :
        a.slotframe_handle = 0 /\ b.slotframe_handle = 1
          => Overlap(a, b) = <<BroadcastLink, BroadcastLink>>
  <2> SUFFICES ASSUME NEW b \in links, b.slotframe_handle = 1
               PROVE  Overlap(BroadcastLink, b) = <<BroadcastLink, BroadcastLink>>
    BY LinkFields
  <2>1. /\ BroadcastLink.tx = TRUE
        /\ BroadcastLink.rx = TRUE
        /\ BroadcastLink.slotframe_handle = 0
    BY DEF BroadcastLink
  <2>2. ~WinsOver(b, BroadcastLink)
    BY <2>1 DEF WinsOver
  <2>3. QED
    BY <2>1, <2>2 DEF Overlap, BackupOf
<1>2. QED
  BY <1>1, LinkFields DEF NextActiveLinks, FoundLinks

(* A slot that ends, on a link that is installed, leaves an installed one. *)
LEMMA EndSlotLinks ==
  ASSUME TypeOK, HoldsLink, LockInv, LinkInv, pc # "boot",
         UNCHANGED <<links, procVars>>,
         NEW link \in links \cup {NoLink}, NEW burst \in BOOLEAN,
         pc = "finish" /\ Dropping => link # l,
         EndSlot(link, burst)
  PROVE  LinkInv'
<1> USE DEF TypeOK, SlotTypeOK, LinkInv
<1>1. UNCHANGED <<pc, phase, l, links>>
  BY DEF procVars
<1>2. pc = "finish" /\ Dropping => tsch_locked /\ l \in Link
  BY DEF LockInv, HoldsLink, InSection, Dropping
<1>3. /\ current_link' \in links \cup {NoLink}
      /\ backup_link' \in {NoLink, BroadcastLink}
      /\ current_link' = link \/ (tsch_locked => current_link' = NoLink)
  BY NextActiveLinksFound DEF EndSlot
<1>4. pc = "finish" /\ Dropping => current_link' # l
  BY <1>2, <1>3, ConstantsAssumption DEF ConstantsAssumption
<1>5. slot' = "sleep"
  BY DEF EndSlot
<1>6. QED
  BY <1>1, <1>3, <1>4, <1>5
  DEF CurrentLinkInstalled, TransmissionKeepsItsLink, Transmitting, Dropping

(* Every step of the slot operation keeps its pointers on installed links. *)
LEMMA LinkInvSlotStep ==
  ASSUME TypeOK, HoldsLink, LockInv, LinkInv, SlotStep, UNCHANGED procVars
  PROVE  LinkInv'
<1> USE DEF LinkInv
<1>1. UNCHANGED <<pc, phase, l, links>>
  BY DEF SlotStep, StartSlot, ResumeSlot, SkipSlot, IdleSlot, StartTx, StartRx,
         Transmit, ReceiveAck, Listen, SendAck, procVars
<1>2. pc # "boot"
  BY DEF SlotStep, StartSlot, ResumeSlot, SkipSlot, IdleSlot, StartTx, StartRx,
         Transmit, ReceiveAck, Listen, SendAck, SlotRuns
<1>3. \A link \in {current_link, backup_link} :
        /\ link \in links \cup {NoLink}
        /\ pc = "finish" /\ Dropping => link # l
  <2>1. pc = "finish" /\ Dropping => l # BroadcastLink /\ l # NoLink
    BY LinkFields, ConstantsAssumption
    DEF HoldsLink, InSection, Dropping, ConstantsAssumption
  <2>2. QED
    BY <1>2, <2>1 DEF CurrentLinkInstalled
<1>4. ASSUME NEW link \in {current_link, backup_link}, NEW burst \in BOOLEAN,
             EndSlot(link, burst)
      PROVE  LinkInv'
  BY <1>1, <1>2, <1>3, <1>4, EndSlotLinks
<1>5. ASSUME NEW link \in {current_link, backup_link}, NEW place \in SlotPlaces,
             YieldInSlot(link, place),
             place \in {"tx", "ack"} => link # NoLink /\ link.tx
      PROVE  LinkInv'
  BY <1>1, <1>2, <1>3, <1>5
  DEF YieldInSlot, CurrentLinkInstalled, TransmissionKeepsItsLink,
      Transmitting, Dropping
<1>6. ASSUME NEW link \in {current_link, backup_link}, link # NoLink,
             NEW ok \in BOOLEAN, NEW burst \in BOOLEAN,
             FinishTx(link, ok, burst)
      PROVE  LinkInv'
  BY <1>4, <1>6 DEF FinishTx
<1>7. ASSUME NEW burst \in BOOLEAN, Receiving, FinishRx(burst)
      PROVE  LinkInv'
  BY <1>1, <1>2, <1>3, <1>4, <1>7
  DEF FinishRx, CurrentLinkInstalled, TransmissionKeepsItsLink,
      Transmitting, Dropping
<1>8. CASE SkipSlot \/ IdleSlot
  BY <1>4, <1>8 DEF SkipSlot, IdleSlot, TypeOK, SlotTypeOK
<1>9. CASE StartTx
  <2>1. PICK link \in {current_link, backup_link} :
          /\ SlotRuns(link, TRUE)
          /\ \/ EndSlot(link, FALSE)
             \/ FinishTx(link, FALSE, FALSE)
             \/ YieldInSlot(link, "tx")
    BY <1>9 DEF StartTx
  <2>2. link # NoLink /\ link.tx
    BY <2>1 DEF SlotRuns, SlotAllowed, SkipsBestLink, CanOfferPacket
  <2>3. QED
    BY <1>4, <1>5, <1>6, <2>1, <2>2 DEF SlotPlaces
<1>10. CASE StartRx
  BY <1>4, <1>5, <1>10 DEF StartRx, SlotPlaces
<1>11. CASE Transmit \/ ReceiveAck
  <2>1. current_link # NoLink /\ current_link.tx
    BY <1>11, ConstantsAssumption
    DEF Transmit, ReceiveAck, TransmissionKeepsItsLink, Transmitting,
        ConstantsAssumption, TypeOK, SlotTypeOK
  <2>2. CASE YieldInSlot(current_link, "ack")
    BY <1>5, <2>1, <2>2 DEF SlotPlaces
  <2>3. CASE \E ok, burst \in BOOLEAN : FinishTx(current_link, ok, burst)
    BY <1>6, <2>1, <2>3
  <2>4. (tsch_current_burst_count + 1 < BurstMaxLen) \in BOOLEAN
    OBVIOUS
  <2>5. CASE Transmit
    BY <2>2, <2>3, <2>5 DEF Transmit
  <2>6. CASE ReceiveAck
    BY <2>3, <2>4, <2>6 DEF ReceiveAck
  <2>7. QED
    BY <1>11, <2>5, <2>6
<1>12. CASE Listen
  BY <1>4, <1>5, <1>7, <1>12 DEF Listen, Receiving, SlotPlaces
<1>13. CASE SendAck
  BY <1>7, <1>13 DEF SendAck, Receiving
<1>14. QED
  BY <1>8, <1>9, <1>10, <1>11, <1>12, <1>13
  DEF SlotStep, StartSlot, ResumeSlot

(* So does every step of process context. *)
LEMMA LinkInvProcessStep ==
  ASSUME TypeOK, HoldsLink, LockInv, LinkInv,
         Boot \/ Associate \/ TimerExpires \/ PolicyUpdate
  PROVE  LinkInv'
<1> USE DEF LinkInv, CurrentLinkInstalled, TransmissionKeepsItsLink,
            Transmitting, Dropping, lockVars, slotVars
<1>1. CASE Boot
  BY <1>1 DEF Boot
<1>2. CASE Associate
  <2>1. PICK next \in NextActiveLinks : /\ current_link' = next[1]
                                       /\ backup_link' = next[2]
    BY <1>2 DEF Associate
  <2>2. /\ current_link' \in links \cup {NoLink}
        /\ backup_link' \in {NoLink, BroadcastLink}
    BY <2>1, NextActiveLinksFound DEF TypeOK, SlotTypeOK
  <2>3. QED
    BY <1>2, <2>2 DEF Associate, procVars
<1>3. CASE CallGetLock \/ TakeLock
  BY <1>3 DEF CallGetLock, TakeLock, Refused
<1>4. CASE TimerExpires \/ RequestLock \/ SpinEnds \/ ClearRequest
             \/ ReleaseLock \/ CountTxLink \/ FinishUpdate
  BY <1>4 DEF TimerExpires, RequestLock, SpinEnds, ClearRequest, ReleaseLock,
              CountTxLink, FinishUpdate
<1>5. CASE ReadStatus \/ ResetStatus
  BY <1>5 DEF ReadStatus, ResetStatus
<1>6. CASE AbortNextLink
  <2>1. ~Transmitting
    BY <1>6 DEF AbortNextLink, LockInv, InSection
  <2>2. l # NoLink
    BY <1>6, ConstantsAssumption
    DEF AbortNextLink, HoldsLink, InSection, ConstantsAssumption
  <2>3. QED
    BY <1>6, <2>1, <2>2 DEF AbortNextLink, LinkToRunNext
<1>7. CASE UnlinkLink
  <2>1. ~Transmitting
    BY <1>7 DEF UnlinkLink, LockInv, InSection
  <2>2. l # BroadcastLink
    BY <1>7, LinkFields DEF UnlinkLink, HoldsLink, InSection
  <2>3. QED
    BY <1>7, <2>1, <2>2 DEF UnlinkLink
<1>8. CASE EnlistLink \/ InitLink
  BY <1>8 DEF EnlistLink, InitLink, Adding
<1>9. QED
  BY <1>1, <1>2, <1>3, <1>4, <1>5, <1>6, <1>7, <1>8 DEF PolicyUpdate

(* So they are always on installed links. *)
LEMMA LinkInvariant == Spec => [](TypeOK /\ LinkInv)
<1>1. Init => LinkInv
  BY DEF Init, SlotInit, LinkInv, CurrentLinkInstalled,
         TransmissionKeepsItsLink, Transmitting
<1>2. TypeOK /\ HoldsLink /\ LockInv /\ LinkInv /\ [Next]_vars => LinkInv'
  <2> SUFFICES ASSUME TypeOK, HoldsLink, LockInv, LinkInv, [Next]_vars
               PROVE  LinkInv'
    OBVIOUS
  <2>1. CASE Next
    BY <2>1, LinkInvSlotStep, LinkInvProcessStep DEF Next
  <2>2. CASE UNCHANGED vars
    BY <2>2
    DEF LinkInv, CurrentLinkInstalled, TransmissionKeepsItsLink, Transmitting,
        Dropping, vars, lockVars, slotVars, statusVars, procVars, schedVars
  <2>3. QED
    BY <2>1, <2>2
<1>3. QED
  BY <1>1, <1>2, TypeCorrect, LockInvariant, PTL DEF Spec

(* The link of the slot operation is an installed one. *)
THEOREM CurrentLinkNeverFreed == Spec => []CurrentLinkInstalled
<1>1. LinkInv => CurrentLinkInstalled
  BY DEF LinkInv
<1>2. QED
  BY <1>1, LinkInvariant, PTL

(* So is its backup, although remove_link does not care for it. *)
THEOREM BackupLinkNeverFreed == Spec => []BackupLinkInstalled
<1>1. LinkInv => BackupLinkInstalled
  BY DEF LinkInv, BackupLinkInstalled
<1>2. QED
  BY <1>1, LinkInvariant, PTL

(* A link is not removed while a slot transmits on it. *)
THEOREM TransmissionSafe == Spec => []TransmissionKeepsItsLink
<1>1. LinkInv => TransmissionKeepsItsLink
  BY DEF LinkInv
<1>2. QED
  BY <1>1, LinkInvariant, PTL

(* No link is taken from a list that is being changed: whatever the slot   *)
(* operation does then, it does it with a link it already had.             *)
THEOREM ListSafe == Spec => ListNotReadMidUpdate
<1> DEFINE Kept == current_link' \in {current_link, backup_link, NoLink}
<1>1. TypeOK /\ LockInv /\ [Next]_vars
        => (pc = "finish" /\ phase # "learn" /\ UNCHANGED pc => Kept)
  <2> SUFFICES ASSUME TypeOK, LockInv, [Next]_vars, pc = "finish", pc' = pc
               PROVE  Kept
    OBVIOUS
  <2>1. tsch_locked
    BY DEF LockInv, InSection
  <2>2. ASSUME NEW link \in {current_link, backup_link},
               NEW burst, EndSlot(link, burst)
        PROVE  Kept
    BY <2>1, <2>2 DEF EndSlot, NextActiveLinks
  <2>3. CASE SlotStep
    BY <2>2, <2>3
    DEF SlotStep, StartSlot, ResumeSlot, SkipSlot, IdleSlot, StartTx, StartRx,
        Transmit, ReceiveAck, Listen, SendAck, YieldInSlot, FinishTx, FinishRx
  <2>4. CASE UNCHANGED current_link
    BY <2>4
  <2>5. QED
    BY <2>3, <2>4
    DEF Next, PolicyUpdate, Boot, Associate, TimerExpires, CallGetLock,
        RequestLock, SpinEnds, TakeLock, ClearRequest, ReadStatus, ResetStatus,
        AbortNextLink, UnlinkLink, EnlistLink, InitLink, ReleaseLock,
        CountTxLink, FinishUpdate, slotVars, vars
<1>2. QED
  BY <1>1, LockInvariant, PTL DEF Spec, ListNotReadMidUpdate

-----------------------------------------------------------------------------
(* The slot in progress, as the contract knows it. *)
LEMMA ContractRadioOf ==
  /\ slot = "sleep" => ContractRadio = "none"
  /\ slot = "fault" => ContractRadio = "stopped"
  /\ slot \in {"tx", "ack"} => ContractRadio = "tx"
  /\ slot \in {"rx", "rxAck"} => ContractRadio = "rx"
BY DEF ContractRadio, Transmitting

(* What a step of the slot operation does to the slot in progress.         *)
LEMMA SlotStepRadio ==
  ASSUME TypeOK, LockInv, LinkInv, SlotStep
  PROVE  /\ UNCHANGED lockVars
         /\ \/ slot = "sleep" /\ slot' = "sleep"
            \/ slot = "sleep" /\ slot' = "tx" /\ ~tsch_locked
                 /\ ~tsch_lock_requested
            \/ slot = "sleep" /\ slot' = "rx" /\ ~tsch_lock_requested
            \/ slot \in {"tx", "ack"} /\ slot' \in {"ack", "sleep"}
            \/ slot \in {"rx", "rxAck"} /\ slot' \in {"rxAck", "sleep", "fault"}
<1>1. UNCHANGED lockVars
  BY DEF SlotStep, StartSlot, ResumeSlot, SkipSlot, IdleSlot, StartTx, StartRx,
         Transmit, ReceiveAck, Listen, SendAck
<1>2. CASE SkipSlot \/ IdleSlot
  BY <1>1, <1>2 DEF SkipSlot, IdleSlot, EndSlot, SlotRuns
<1>3. CASE StartTx
  <2>1. PICK link \in {current_link, backup_link} :
          /\ SlotRuns(link, TRUE)
          /\ \/ EndSlot(link, FALSE)
             \/ FinishTx(link, FALSE, FALSE)
             \/ YieldInSlot(link, "tx")
    BY <1>3 DEF StartTx
  <2>2. /\ slot = "sleep" /\ link # NoLink
        /\ ~tsch_locked /\ ~tsch_lock_requested
    BY <2>1 DEF SlotRuns, SlotAllowed, SkipsBestLink, CanOfferPacket
  <2>3. slot' \in {"sleep", "tx"}
    BY <2>1, <2>2 DEF EndSlot, FinishTx, YieldInSlot
  <2>4. QED
    BY <1>1, <2>2, <2>3
<1>4. CASE StartRx
  BY <1>1, <1>4 DEF StartRx, SlotRuns, SlotAllowed, EndSlot, YieldInSlot
<1>5. CASE Transmit \/ ReceiveAck
  <2>1. current_link # NoLink
    BY <1>5, ConstantsAssumption
    DEF Transmit, ReceiveAck, LinkInv, TransmissionKeepsItsLink, Transmitting,
        ConstantsAssumption, TypeOK, SlotTypeOK
  <2>2. QED
    BY <1>1, <1>5, <2>1
    DEF Transmit, ReceiveAck, FinishTx, EndSlot, YieldInSlot
<1>6. CASE Listen \/ SendAck
  BY <1>1, <1>6 DEF Listen, SendAck, FinishRx, EndSlot, YieldInSlot
<1>7. QED
  BY <1>2, <1>3, <1>4, <1>5, <1>6 DEF SlotStep, StartSlot, ResumeSlot

(* The code refines the contract of the lock. *)
THEOREM LockRefinement == Spec => ImplementsLockContract
<1> USE DEF Contract!contractVars, ContractProcess
<1>1. Init => Contract!Init
  BY DEF Init, SlotInit, Contract!Init, ContractRadio
<1>2. TypeOK /\ LockInv /\ LinkInv /\ [Next]_vars
        => [Contract!Next]_(Contract!contractVars)
  <2> SUFFICES ASSUME TypeOK, LockInv, LinkInv, [Next]_vars
               PROVE  \/ Contract!Next
                      \/ UNCHANGED <<ContractProcess, ContractRadio>>
    OBVIOUS
  <2>1. ASSUME UNCHANGED slot
        PROVE  UNCHANGED ContractRadio
    BY <2>1 DEF ContractRadio, Transmitting
  <2>2. CASE SlotStep /\ UNCHANGED procVars
    <3>1. UNCHANGED ContractProcess
      BY <2>2, SlotStepRadio DEF lockVars
    <3>2. CASE slot = "sleep" /\ slot' = "sleep"
      BY <2>1, <3>1, <3>2
    <3>3. CASE slot = "sleep" /\ slot' \in {"tx", "rx"}
      <4>1. ContractRadio = "none" /\ ContractRadio' = slot'
        BY <3>3 DEF ContractRadio, Transmitting
      <4>2. ContractProcess # "waiting"
            /\ (slot' = "tx" => ContractProcess = "out")
        BY <2>2, <3>3, SlotStepRadio DEF LockInv, InSection
      <4>3. QED
        BY <3>1, <3>3, <4>1, <4>2
        DEF Contract!Next, Contract!StartTx, Contract!StartRx
    <3>4. CASE slot \in {"tx", "ack"} /\ slot' \in {"ack", "sleep"}
      <4>1. ContractRadio = "tx" /\ ContractRadio' \in {"tx", "none"}
        BY <3>4 DEF ContractRadio, Transmitting
      <4>2. QED
        BY <3>1, <4>1 DEF Contract!Next, Contract!EndSlot
    <3>5. CASE slot \in {"rx", "rxAck"} /\ slot' \in {"rxAck", "sleep", "fault"}
      <4>1. ContractRadio = "rx" /\ ContractRadio' \in {"rx", "none", "stopped"}
        BY <3>5 DEF ContractRadio, Transmitting
      <4>2. QED
        BY <3>1, <4>1 DEF Contract!Next, Contract!EndSlot, Contract!Stop
    <3>6. QED
      BY <2>2, <3>2, <3>3, <3>4, <3>5, SlotStepRadio
  <2>3. CASE RequestLock /\ slot # "fault"
    <3>1. ContractProcess = "out" /\ ContractProcess' = "waiting"
      BY <2>3 DEF RequestLock, LockInv, InSection
    <3>2. ContractRadio # "stopped"
      BY <2>3 DEF ContractRadio
    <3>3. UNCHANGED ContractRadio
      BY <2>1, <2>3 DEF RequestLock, slotVars
    <3>4. QED
      BY <3>1, <3>2, <3>3 DEF Contract!Next, Contract!Want
  <2>4. CASE TakeLock /\ slot # "fault"
    <3>1. ContractProcess = "waiting" /\ ContractProcess' = "in"
      BY <2>4 DEF TakeLock, LockInv, InSection
    <3>2. ContractRadio = "none"
      BY <2>4 DEF TakeLock, LockInv, ContractRadio
    <3>3. UNCHANGED ContractRadio
      BY <2>1, <2>4 DEF TakeLock, slotVars
    <3>4. QED
      BY <3>1, <3>2, <3>3 DEF Contract!Next, Contract!Enter
  <2>5. CASE ReleaseLock /\ slot # "fault"
    <3>1. ContractProcess = "in" /\ ContractProcess' = "out"
      BY <2>5 DEF ReleaseLock, LockAfterRelease, LockInv, InSection
    <3>2. ContractRadio # "stopped"
      BY <2>5 DEF ContractRadio
    <3>3. UNCHANGED ContractRadio
      BY <2>1, <2>5 DEF ReleaseLock, slotVars
    <3>4. QED
      BY <3>1, <3>2, <3>3 DEF Contract!Next, Contract!Leave
  <2>6. CASE ClearRequest
    <3>1. UNCHANGED ContractProcess
      BY <2>6 DEF ClearRequest, LockInv
    <3>2. QED
      BY <2>1, <2>6, <3>1 DEF ClearRequest, slotVars
  <2>7. CASE UNCHANGED <<lockVars, slot>>
    BY <2>1, <2>7 DEF lockVars
  <2>8. QED
    BY <2>2, <2>3, <2>4, <2>5, <2>6, <2>7
    DEF Next, PolicyUpdate, Boot, Associate, TimerExpires, CallGetLock,
        SpinEnds, ReadStatus, ResetStatus, AbortNextLink, UnlinkLink,
        EnlistLink, InitLink, CountTxLink, FinishUpdate, slotVars, vars
<1>3. QED
  BY <1>1, <1>2, LockInvariant, LinkInvariant, PTL
  DEF Spec, ImplementsLockContract, Contract!Spec
=============================================================================
