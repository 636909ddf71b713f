--------------------------- MODULE QlScheduleProofs ---------------------------
(***************************************************************************)
(* What a policy update makes of the schedule, step by step, for every     *)
(* length of the unicast slotframe: its links, the counter of Tx links,    *)
(* and the timeslots a transmission may have been in.                      *)
(***************************************************************************)
EXTENDS QlNodeProofs, FiniteSetTheorems

(* The schedules a policy update goes through have a Tx link at some       *)
(* timeslots and an Rx link at others.                                     *)
LinksFor(txSlots, rxSlots) ==
  {BroadcastLink} \cup {TxLink(ts) : ts \in txSlots}
                  \cup {RxLink(ts) : ts \in rxSlots}

LEMMA LinksDiffer ==
  /\ \A a, b : TxLink(a) # RxLink(b)
  /\ \A a : TxLink(a) # BroadcastLink /\ RxLink(a) # BroadcastLink
  /\ \A a, b : TxLink(a) = TxLink(b) => a = b
  /\ \A a, b : RxLink(a) = RxLink(b) => a = b
<1>1. \A a : /\ TxLink(a).tx = TRUE /\ TxLink(a).slotframe_handle = 1
             /\ TxLink(a).timeslot = a
             /\ RxLink(a).tx = FALSE /\ RxLink(a).slotframe_handle = 1
             /\ RxLink(a).timeslot = a
  BY DEF TxLink, RxLink
<1>2. BroadcastLink.slotframe_handle = 0
  BY DEF BroadcastLink
<1> QED  BY <1>1, <1>2

(* What the schedule functions find at a timeslot. *)
LEMMA LinksForAt ==
  ASSUME NEW txSlots, NEW rxSlots, NEW ts,
         links = LinksFor(txSlots, rxSlots)
  PROVE  /\ ts \in txSlots /\ ts \notin rxSlots => LinksAt(ts) = {TxLink(ts)}
         /\ ts \notin txSlots /\ ts \in rxSlots => LinksAt(ts) = {RxLink(ts)}
<1>1. \A a : /\ TxLink(a).slotframe_handle = 1 /\ TxLink(a).timeslot = a
             /\ RxLink(a).slotframe_handle = 1 /\ RxLink(a).timeslot = a
  BY DEF TxLink, RxLink
<1>2. BroadcastLink.slotframe_handle = 0
  BY DEF BroadcastLink
<1>3. \A k : k \in LinksAt(ts) <=> \/ ts \in txSlots /\ k = TxLink(ts)
                                   \/ ts \in rxSlots /\ k = RxLink(ts)
  BY <1>1, <1>2 DEF LinksFor, LinksAt
<1> QED  BY <1>3

(* The timeslots with Tx and with Rx links in each phase. *)
Acted == pc \in {"release", "count"}
TxSlots ==
  CASE phase \in {"learn", "dropRx"} -> {current_action}
    [] phase = "addTx" -> IF Acted THEN {current_action} \cup {action}
                                   ELSE {current_action}
    [] phase = "dropTx" ->
         IF Acted THEN ({current_action} \cup {action}) \ {current_action}
                  ELSE {current_action} \cup {action}
    [] OTHER -> {action}
RxSlots ==
  CASE phase = "learn" -> Timeslots \ {current_action}
    [] phase = "dropRx" -> IF Acted
                             THEN (Timeslots \ {current_action}) \ {action}
                             ELSE Timeslots \ {current_action}
    [] phase \in {"addTx", "dropTx"} ->
         (Timeslots \ {current_action}) \ {action}
    [] phase = "addRx" ->
         IF Acted
           THEN ((Timeslots \ {current_action}) \ {action}) \cup {current_action}
           ELSE (Timeslots \ {current_action}) \ {action}
    [] OTHER -> Timeslots \ {action}

(* The link of the critical section in each phase. *)
LinkOfPhase ==
  CASE phase = "dropRx" -> RxLink(action)
    [] phase = "addTx" -> TxLink(action)
    [] phase = "dropTx" -> TxLink(current_action)
    [] phase = "addRx" -> RxLink(current_action)
    [] OTHER -> l

UpdateInv ==
  /\ pc \in {"boot", "wait"} => phase = "done" /\ action = current_action
  /\ pc = "boot" => action = 0
  /\ phase = "done" => pc \in {"boot", "wait", "call"}
  /\ Dropping \/ Adding => action # current_action
  /\ pc \in Locking \cup InSection \cup {"count"} => l = LinkOfPhase
  /\ pc # "boot" => links = LinksFor(TxSlots, RxSlots)
  /\ tx_links_count = IF pc = "boot" THEN 0
                      ELSE IF phase = "dropTx" THEN 3 ELSE 2

(* Every step keeps the schedule as the phase of the update says. *)
LEMMA UpdateInvStep ==
  ASSUME TypeOK, LockInv, UpdateInv, [Next]_vars
  PROVE  UpdateInv'
<1> USE DEF UpdateInv, TypeOK
<1>1. ASSUME UNCHANGED <<procVars, links>>
      PROVE  UpdateInv'
  BY <1>1
  DEF procVars, schedVars, TxSlots, RxSlots, Acted, LinkOfPhase, Dropping, Adding
<1>2. ASSUME Boot
      PROVE  UpdateInv'
  <2>1. links' = LinksFor({0}, Timeslots \ {0})
    BY <1>2 DEF Boot, LinksFor
  <2> QED
    BY <1>2, <2>1
    DEF Boot, schedVars, TxSlots, RxSlots, Acted, Dropping, Adding, Locking,
        InSection
<1>3. ASSUME TimerExpires
      PROVE  UpdateInv'
  BY <1>3
  DEF TimerExpires, schedVars, TxSlots, RxSlots, Acted, Dropping, Adding,
      Locking, InSection
<1>4. ASSUME CallGetLock
      PROVE  UpdateInv'
  <2>1. ~tsch_locked
    BY <1>4 DEF CallGetLock, LockInv, InSection
  <2>2. ASSUME Dropping
        PROVE  LinksAt(Target) = {LinkOfPhase}
    <3>1. CASE phase = "dropRx"
      <4>1. links = LinksFor({current_action}, Timeslots \ {current_action})
        BY <1>4, <3>1 DEF CallGetLock, TxSlots, RxSlots, Acted
      <4>2. action # current_action
        BY <2>2
      <4> QED  BY <3>1, <4>1, <4>2, LinksForAt DEF Target, LinkOfPhase
    <3>2. CASE phase = "dropTx"
      <4>1. links = LinksFor({current_action} \cup {action},
                             (Timeslots \ {current_action}) \ {action})
        BY <1>4, <3>2 DEF CallGetLock, TxSlots, RxSlots, Acted
      <4> QED  BY <3>2, <4>1, LinksForAt DEF Target, LinkOfPhase
    <3> QED  BY <2>2, <3>1, <3>2 DEF Dropping
  <2>3. pc' = "request" /\ phase' = phase /\ pc = "call"
        /\ UNCHANGED <<links, schedVars, tx_links_count>>
    BY <1>4, <2>1, <2>2 DEF CallGetLock
  <2>4. Dropping => l' = LinkOfPhase
    BY <1>4, <2>2 DEF CallGetLock
  <2>5. Adding => l' = LinkOfPhase
    BY <1>4 DEF CallGetLock, Adding, Dropping, NewLink, LinkOfPhase
  <2>6. l' = LinkOfPhase'
    BY <2>3, <2>4, <2>5 DEF LinkOfPhase, Dropping, Adding, schedVars
  <2> QED
    BY <1>4, <2>3, <2>6
    DEF CallGetLock, TxSlots, RxSlots, Acted, Dropping, Adding, schedVars
<1>5. ASSUME RequestLock \/ SpinEnds \/ TakeLock \/ ClearRequest
      PROVE  UpdateInv'
  <2>1. UNCHANGED <<phase, l, links, schedVars, tx_links_count>>
        /\ pc \in Locking /\ pc' \in Locking \cup {"enter"}
    BY <1>5
    DEF RequestLock, SpinEnds, TakeLock, ClearRequest, LockInv, InSection,
        Locking
  <2> QED
    BY <2>1
    DEF Locking, InSection, TxSlots, RxSlots, Acted, LinkOfPhase, Dropping,
        Adding, schedVars
<1>6. ASSUME ReadStatus \/ AbortNextLink \/ EnlistLink
      PROVE  UpdateInv'
  BY <1>6
  DEF ReadStatus, AbortNextLink, EnlistLink, schedVars, TxSlots, RxSlots,
      Acted, LinkOfPhase, Dropping, Adding, InSection, Locking
<1>7. ASSUME ResetStatus
      PROVE  UpdateInv'
  BY <1>7
  DEF ResetStatus, schedVars, TxSlots, RxSlots, Acted, LinkOfPhase, Dropping,
      Adding, InSection, Locking
<1>8. ASSUME UnlinkLink
      PROVE  UpdateInv'
  <2>1. links' = LinksFor(TxSlots, RxSlots) \ {LinkOfPhase}
    BY <1>8 DEF UnlinkLink, InSection
  <2>2. links' = LinksFor(TxSlots', RxSlots')
    <3>1. /\ pc = "finish" /\ pc' = "release" /\ phase' = phase
          /\ UNCHANGED schedVars
      BY <1>8 DEF UnlinkLink
    <3>2. CASE phase = "dropRx"
      <4>1. /\ LinkOfPhase = RxLink(action)
            /\ TxSlots' = TxSlots /\ RxSlots' = RxSlots \ {action}
        BY <3>1, <3>2 DEF TxSlots, RxSlots, Acted, LinkOfPhase, schedVars
      <4>2. LinksFor(TxSlots, RxSlots) \ {RxLink(action)}
              = LinksFor(TxSlots, RxSlots \ {action})
        BY LinksDiffer DEF LinksFor
      <4> QED  BY <2>1, <4>1, <4>2
    <3>3. CASE phase = "dropTx"
      <4>1. /\ LinkOfPhase = TxLink(current_action)
            /\ TxSlots' = TxSlots \ {current_action} /\ RxSlots' = RxSlots
        BY <3>1, <3>3 DEF TxSlots, RxSlots, Acted, LinkOfPhase, schedVars
      <4>2. LinksFor(TxSlots, RxSlots) \ {TxLink(current_action)}
              = LinksFor(TxSlots \ {current_action}, RxSlots)
        BY LinksDiffer DEF LinksFor
      <4> QED  BY <2>1, <4>1, <4>2
    <3> QED  BY <1>8, <3>2, <3>3 DEF UnlinkLink, Dropping
  <2> QED
    BY <1>8, <2>2
    DEF UnlinkLink, Dropping, Adding, LinkOfPhase, InSection, schedVars
<1>9. ASSUME InitLink
      PROVE  UpdateInv'
  <2>1. links' = LinksFor(TxSlots, RxSlots) \cup {LinkOfPhase}
    BY <1>9 DEF InitLink, InSection
  <2>2. links' = LinksFor(TxSlots', RxSlots')
    <3>1. /\ pc = "finish" /\ pc' = "release" /\ phase' = phase
          /\ UNCHANGED schedVars
      BY <1>9 DEF InitLink
    <3>2. CASE phase = "addTx"
      <4>1. /\ LinkOfPhase = TxLink(action)
            /\ TxSlots' = TxSlots \cup {action} /\ RxSlots' = RxSlots
        BY <3>1, <3>2 DEF TxSlots, RxSlots, Acted, LinkOfPhase, schedVars
      <4>2. LinksFor(TxSlots, RxSlots) \cup {TxLink(action)}
              = LinksFor(TxSlots \cup {action}, RxSlots)
        BY LinksDiffer DEF LinksFor
      <4> QED  BY <2>1, <4>1, <4>2
    <3>3. CASE phase = "addRx"
      <4>1. /\ LinkOfPhase = RxLink(current_action)
            /\ TxSlots' = TxSlots /\ RxSlots' = RxSlots \cup {current_action}
        BY <3>1, <3>3 DEF TxSlots, RxSlots, Acted, LinkOfPhase, schedVars
      <4>2. LinksFor(TxSlots, RxSlots) \cup {RxLink(current_action)}
              = LinksFor(TxSlots, RxSlots \cup {current_action})
        BY LinksDiffer DEF LinksFor
      <4> QED  BY <2>1, <4>1, <4>2
    <3> QED  BY <1>9, <3>2, <3>3 DEF InitLink, Adding
  <2> QED
    BY <1>9, <2>2
    DEF InitLink, Dropping, Adding, LinkOfPhase, InSection, schedVars
<1>10. ASSUME ReleaseLock
       PROVE  UpdateInv'
  BY <1>10
  DEF ReleaseLock, schedVars, TxSlots, RxSlots, Acted, LinkOfPhase, Dropping,
      Adding, InSection, Locking
<1>11. ASSUME CountTxLink
       PROVE  UpdateInv'
  <2>1. pc' = "call" /\ pc = "count" /\ phase' = NextPhase
        /\ UNCHANGED <<links, schedVars, l>>
    BY <1>11 DEF CountTxLink
  <2>2. phase \in {"learn", "dropRx", "addTx", "dropTx", "addRx"}
    BY <2>1 DEF Phases
  <2>3. TxSlots' = TxSlots /\ RxSlots' = RxSlots
    BY <2>1, <2>2 DEF TxSlots, RxSlots, Acted, NextPhase, Dropping, Adding, schedVars
  <2>4. tx_links_count' = IF phase' = "dropTx" THEN 3 ELSE 2
    <3>1. \A ts : TxLink(ts).tx = TRUE /\ RxLink(ts).tx = FALSE
      BY DEF TxLink, RxLink
    <3> QED
      BY <1>11, <2>1, <2>2, <3>1
      DEF CountTxLink, CountedTxLinks, NextPhase, Dropping, Adding, LinkOfPhase,
          Locking, InSection
  <2>5. Dropping' \/ Adding' => action' # current_action'
    BY <2>1, <2>2 DEF NextPhase, Dropping, Adding, schedVars
  <2> QED
    BY <2>1, <2>3, <2>4, <2>5 DEF Locking, InSection
<1>12. ASSUME FinishUpdate
       PROVE  UpdateInv'
  BY <1>12
  DEF FinishUpdate, TxSlots, RxSlots, Acted, Dropping, Adding, InSection,
      Locking
<1>13. ASSUME SlotStep, UNCHANGED procVars
       PROVE  UNCHANGED links
  BY <1>13 DEF SlotStep, StartSlot, ResumeSlot, SkipSlot, IdleSlot, StartTx,
               StartRx, Transmit, ReceiveAck, Listen, SendAck
<1>14. ASSUME Associate
       PROVE  UNCHANGED <<procVars, links>>
  BY <1>14 DEF Associate
<1> QED
  BY <1>1, <1>2, <1>3, <1>4, <1>5, <1>6, <1>7, <1>8, <1>9, <1>10, <1>11,
     <1>12, <1>13, <1>14 DEF Next, PolicyUpdate, vars

(* So the schedule is always as the phase says. *)
LEMMA UpdateInvariant == Spec => [](TypeOK /\ LockInv /\ LinkInv /\ UpdateInv)
<1>1. Init => UpdateInv
  BY DEF Init, SlotInit, UpdateInv, Dropping, Adding, Locking, InSection
<1>2. TypeOK /\ LockInv /\ UpdateInv /\ [Next]_vars => UpdateInv'
  BY UpdateInvStep
<1> QED  BY <1>1, <1>2, LockInvariant, LinkInvariant, PTL DEF Spec

(* Every policy update leaves the schedule that its action calls for, and  *)
(* the node keeps a Tx link meanwhile.                                     *)
THEOREM ScheduleIsRight == Spec => []ScheduleFollowsAction
<1>1. TypeOK /\ UpdateInv => ScheduleFollowsAction
  <2> SUFFICES ASSUME TypeOK, UpdateInv
               PROVE  ScheduleFollowsAction
    OBVIOUS
  <2>1. ASSUME pc = "wait"
        PROVE  links = {BroadcastLink, TxLink(current_action)} \cup
                 {RxLink(ts) : ts \in Timeslots \ {current_action}}
    <3>1. links = LinksFor({current_action}, Timeslots \ {current_action})
      BY <2>1 DEF UpdateInv, TxSlots, RxSlots, Acted
    <3> QED  BY <3>1 DEF LinksFor
  <2>2. ASSUME pc # "boot"
        PROVE  \E ts \in Timeslots : TxLink(ts) \in links
    <3>1. PICK ts \in TxSlots : ts \in Timeslots
      BY <2>2 DEF UpdateInv, TypeOK, TxSlots, Acted, Dropping, Adding
    <3> QED  BY <2>2, <3>1 DEF UpdateInv, LinksFor
  <2> QED  BY <2>1, <2>2 DEF ScheduleFollowsAction
<1> QED  BY <1>1, UpdateInvariant, PTL

(* The counter of Tx links is right whenever no update is in progress.     *)
THEOREM TxLinksAreCounted == Spec => []TxLinksCounted
<1>1. TypeOK /\ UpdateInv => TxLinksCounted
  <2> SUFFICES ASSUME TypeOK, UpdateInv, pc = "wait"
               PROVE  tx_links_count = Cardinality({k \in links : k.tx})
    BY DEF TxLinksCounted
  <2>1. links = LinksFor({current_action}, Timeslots \ {current_action})
    BY DEF UpdateInv, TxSlots, RxSlots, Acted
  <2>2. BroadcastLink.tx = TRUE
        /\ \A ts : TxLink(ts).tx = TRUE /\ RxLink(ts).tx = FALSE
    BY DEF BroadcastLink, TxLink, RxLink
  <2>3. {k \in links : k.tx} = {BroadcastLink} \cup {TxLink(current_action)}
    BY <2>1, <2>2 DEF LinksFor
  <2>4. Cardinality({BroadcastLink} \cup {TxLink(current_action)}) = 2
    <3>1. IsFiniteSet({BroadcastLink}) /\ Cardinality({BroadcastLink}) = 1
      BY FS_Singleton
    <3>2. TxLink(current_action) \notin {BroadcastLink}
      BY LinksDiffer
    <3> QED  BY <3>1, <3>2, FS_AddElement
  <2> QED  BY <2>3, <2>4 DEF UpdateInv
<1> QED  BY <1>1, UpdateInvariant, PTL

-----------------------------------------------------------------------------
(* Until the status is reset a result was obtained at the current timeslot *)
(* or the one before; afterwards at the current one or the one the update  *)
(* moves to.                                                               *)
BeforeReset == pc = "wait" \/ (phase = "learn" /\ ~Acted)
CreditInv ==
  /\ pc = "boot" => trans_status = 0
  /\ trans_status # 0 =>
       status_timeslot \in IF BeforeReset THEN {current_action, previous_action}
                                          ELSE {current_action, action}

(* A step of the slot operation records a result only for a Tx link of the *)
(* unicast slotframe that is installed.                                    *)
LEMMA SlotStepStatus ==
  ASSUME TypeOK, LinkInv, SlotStep
  PROVE  \/ UNCHANGED statusVars
         \/ \E link \in links : /\ link.tx /\ link.slotframe_handle = 1
                                 /\ status_timeslot' = link.timeslot
<1> DEFINE Recorded ==
      \E link \in links : /\ link.tx /\ link.slotframe_handle = 1
                          /\ status_timeslot' = link.timeslot
<1>1. ASSUME NEW link \in links, link.tx, NEW ok, NEW burst,
             FinishTx(link, ok, burst)
      PROVE  UNCHANGED statusVars \/ Recorded
  BY <1>1 DEF FinishTx, RecordStatus
<1>2. CASE SkipSlot \/ IdleSlot \/ StartRx \/ Listen \/ SendAck
  BY <1>2 DEF SkipSlot, IdleSlot, StartRx, Listen, SendAck
<1>3. CASE StartTx
  <2>1. PICK link \in {current_link, backup_link} :
          /\ SlotRuns(link, TRUE)
          /\ \/ UNCHANGED statusVars
             \/ FinishTx(link, FALSE, FALSE)
    BY <1>3 DEF StartTx
  <2>2. link # NoLink /\ link.tx /\ pc # "boot"
    BY <2>1
    DEF SlotRuns, SlotAllowed, SkipsBestLink, CanOfferPacket, LinkInv
  <2>3. link \in links
    BY <2>2 DEF LinkInv, CurrentLinkInstalled
  <2> QED  BY <1>1, <2>1, <2>2, <2>3
<1>4. CASE Transmit \/ ReceiveAck
  <2>1. current_link \in links /\ current_link.tx
    BY <1>4
    DEF Transmit, ReceiveAck, LinkInv, TransmissionKeepsItsLink, Transmitting
  <2>2. \/ UNCHANGED statusVars
        \/ \E ok, burst : FinishTx(current_link, ok, burst)
    BY <1>4 DEF Transmit, ReceiveAck
  <2> QED  BY <1>1, <2>1, <2>2
<1> QED  BY <1>2, <1>3, <1>4 DEF SlotStep, StartSlot, ResumeSlot

(* Where the Tx links of the unicast slotframe are. *)
LEMMA TxLinksAt ==
  ASSUME TypeOK, UpdateInv, pc # "boot",
         NEW link \in links, link.tx, link.slotframe_handle = 1
  PROVE  /\ link.timeslot \in {current_action, action}
         /\ BeforeReset => link.timeslot = current_action
<1>1. \A a : /\ TxLink(a).timeslot = a /\ RxLink(a).tx = FALSE
  BY DEF TxLink, RxLink
<1>2. BroadcastLink.slotframe_handle = 0
  BY DEF BroadcastLink
<1>3. link.timeslot \in TxSlots
  BY <1>1, <1>2 DEF UpdateInv, LinksFor
<1> QED
  BY <1>3 DEF UpdateInv, TxSlots, BeforeReset, Acted

(* Every step keeps a result with the action that earned it, or the next. *)
LEMMA CreditInvStep ==
  ASSUME TypeOK, LockInv, LinkInv, UpdateInv, CreditInv, [Next]_vars
  PROVE  CreditInv'
<1> USE DEF CreditInv
<1>1. CASE SlotStep /\ UNCHANGED procVars
  <2>1. UNCHANGED <<pc, phase, action, current_action, previous_action>>
    BY <1>1 DEF procVars, schedVars
  <2>2. pc # "boot"
    BY <1>1
    DEF SlotStep, StartSlot, ResumeSlot, SkipSlot, IdleSlot, StartTx, StartRx,
        Transmit, ReceiveAck, Listen, SendAck, SlotRuns, LinkInv
  <2>3. CASE UNCHANGED statusVars
    BY <2>1, <2>3 DEF statusVars, BeforeReset, Acted
  <2>4. CASE ~UNCHANGED statusVars
    <3>1. PICK link \in links : /\ link.tx /\ link.slotframe_handle = 1
                                /\ status_timeslot' = link.timeslot
      BY <1>1, <2>4, SlotStepStatus
    <3> QED  BY <2>1, <2>2, <3>1, TxLinksAt DEF BeforeReset, Acted
  <2> QED  BY <2>3, <2>4
<1>2. CASE ResetStatus
  BY <1>2 DEF ResetStatus, StatusAfterRead
<1>3. CASE FinishUpdate
  BY <1>3 DEF FinishUpdate, statusVars, BeforeReset, Acted
<1>4. CASE Boot \/ TimerExpires \/ CountTxLink
  BY <1>4
  DEF Boot, TimerExpires, CountTxLink, statusVars, schedVars, BeforeReset,
      Acted, UpdateInv, NextPhase
<1>5. CASE CallGetLock \/ TakeLock
  <2>1. ~(CallGetLock /\ tsch_locked) /\ ~(TakeLock /\ tsch_locked)
    BY DEF CallGetLock, TakeLock, LockInv, InSection
  <2> QED
    BY <1>5, <2>1
    DEF CallGetLock, TakeLock, statusVars, schedVars, BeforeReset, Acted,
        Dropping, NextPhase
<1>6. CASE RequestLock \/ SpinEnds \/ ClearRequest \/ ReleaseLock
  BY <1>6
  DEF RequestLock, SpinEnds, ClearRequest, ReleaseLock, statusVars, schedVars,
      BeforeReset, Acted
<1>7. CASE ReadStatus \/ AbortNextLink \/ UnlinkLink \/ EnlistLink \/ InitLink
  BY <1>7
  DEF ReadStatus, AbortNextLink, UnlinkLink, EnlistLink, InitLink, Dropping,
      Adding, statusVars, schedVars, BeforeReset, Acted
<1>8. CASE Associate
  BY <1>8 DEF Associate, procVars, statusVars, schedVars, BeforeReset, Acted
<1>9. CASE UNCHANGED vars
  BY <1>9 DEF vars, procVars, statusVars, schedVars, BeforeReset, Acted
<1> QED
  BY <1>1, <1>2, <1>3, <1>4, <1>5, <1>6, <1>7, <1>8, <1>9
  DEF Next, PolicyUpdate

(* A result reaches the action that earned it, or at the latest the next.  *)
THEOREM CreditIsNeverLater == Spec => []CreditAtMostOneUpdateLate
<1>1. Init => CreditInv
  BY DEF Init, SlotInit, CreditInv
<1>2. TypeOK /\ LockInv /\ LinkInv /\ UpdateInv /\ CreditInv /\ [Next]_vars
        => CreditInv'
  BY CreditInvStep
<1>3. LockInv /\ CreditInv => CreditAtMostOneUpdateLate
  BY DEF LockInv, StatusNotLost, CreditInv, BeforeReset, Acted,
         CreditAtMostOneUpdateLate
<1> QED  BY <1>1, <1>2, <1>3, UpdateInvariant, PTL DEF Spec
=============================================================================
