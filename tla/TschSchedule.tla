----------------------------- MODULE TschSchedule -----------------------------
(***************************************************************************)
(* The schedule of tsch-schedule.c: slotframes in a list, each with a list *)
(* of links, both from pools of fixed size, and the search for the link    *)
(* the slot operation runs next.                                           *)
(*                                                                         *)
(* Process context edits the schedule in calls that consist of critical    *)
(* sections, one action each; the interrupt may look up the next link      *)
(* between any two of them.  The lock is TschSlotOperation's: taking it    *)
(* never fails in process context (QlNode shows it), so neither does a     *)
(* section for the lack of it.                                             *)
(*                                                                         *)
(* A link is a block of link_memb; its contents are kept while it is       *)
(* allocated.  The counters of its neighbour are updated after the release *)
(* of the lock, but no interrupt reads them, and it belongs to the section.*)
(* Of the neighbour table only this counts here: the virtual neighbours    *)
(* are always in it, and so is one whose tx_links_count is not zero; any   *)
(* other comes and goes, and may not get in.                               *)
(***************************************************************************)
EXTENDS Integers, Sequences, SequencesExt, FiniteSets

CONSTANTS
  Block,            \* the blocks of link_memb (TSCH_SCHEDULE_MAX_LINKS)
  MaxSlotframes,    \* TSCH_SCHEDULE_MAX_SLOTFRAMES
  Handle,           \* slotframe handles
  Address,          \* the neighbours links are addressed to
  Virtual,          \* ... those that tsch_queue_init adds for good
  Call,             \* the calls process context makes, with their arguments
  MaxQueued,        \* bound: packets in one neighbour's queue
  AsnCycle,         \* bound: ASNs looked up; a multiple of each size
  NoLink,           \* the NULL link pointer
  Free              \* the contents of a block that is not allocated

(* What add_link fills in; the handle of a link itself is never used.      *)
LinkRecord ==
  [slotframe_handle : Handle, timeslot : Nat, channel_offset : Nat,
   tx : BOOLEAN, rx : BOOLEAN, shared : BOOLEAN, addr : Address]

(* tsch_schedule_create_minimal adds its link inside its slotframe. *)
CallRecord ==
  [op : {"add_slotframe"}, handle : Handle, size : Nat]
    \cup [op : {"remove_slotframe"}, handle : Handle]
    \cup [op : {"add_link"}, link : LinkRecord, do_remove : BOOLEAN]
    \cup [op : {"remove_link_by_timeslot"}, handle : Handle, timeslot : Nat,
          channel_offset : Nat]
    \cup {call \in [op : {"create_minimal"}, link : LinkRecord, size : Nat] :
            call.link.timeslot < call.size}

ASSUME ScheduleAssumption ==
  /\ IsFiniteSet(Block)
  /\ \A call \in Call : call \in CallRecord
  /\ MaxSlotframes \in Nat
  /\ Handle \subseteq Nat
  /\ Virtual \subseteq Address
  /\ AsnCycle \in Nat \ {0}
  /\ MaxQueued \in Nat
  /\ NoLink \notin Block
  /\ Free \notin LinkRecord

VARIABLES
  slotframe_list,   \* the handles of the slotframes, in the order of the list
  size,             \* of each slotframe
  links_list,       \* of each slotframe
  link,             \* the contents of link_memb
  tx_links_count, dedicated_tx_links_count,   \* of each neighbour, 0 out
                    \* of the table; below 0 the uint8_t has wrapped
  missed,           \* history: those that had no entry for a Tx link to them
  current_link, backup_link,
  todo              \* the critical sections left of the call in progress

poolVars == <<slotframe_list, size, links_list, link>>
countVars == <<tx_links_count, dedicated_tx_links_count, missed>>
pointerVars == <<current_link, backup_link>>
scheduleVars == <<poolVars, countVars, pointerVars, todo>>

Installed == {b \in Block : link[b] # Free}

ScheduleTypeOK ==
  /\ slotframe_list \in Seq(Handle)
  /\ size \in [Handle -> Nat]
  /\ links_list \in [Handle -> Seq(Block)]
  /\ link \in [Block -> LinkRecord \cup {Free}]
  /\ tx_links_count \in [Address -> Int]
  /\ dedicated_tx_links_count \in [Address -> Int]
  /\ missed \subseteq Address \ Virtual
  /\ \A a \in Address \ missed :
       tx_links_count[a] >= 0 /\ dedicated_tx_links_count[a] >= 0
  /\ current_link \in Block \cup {NoLink}
  /\ backup_link \in Block \cup {NoLink}

(* tsch_schedule_init. *)
ScheduleInit ==
  /\ slotframe_list = <<>>
  /\ size = [h \in Handle |-> 0]
  /\ links_list = [h \in Handle |-> <<>>]
  /\ link = [b \in Block |-> Free]
  /\ tx_links_count = [a \in Address |-> 0]
  /\ dedicated_tx_links_count = [a \in Address |-> 0]
  /\ missed = {}
  /\ current_link = NoLink
  /\ backup_link = NoLink
  /\ todo = <<>>

-----------------------------------------------------------------------------
(* The slots from an ASN to the next occurrence of a timeslot.             *)
TimeTo_ThisSlotToo(asn, timeslot, length) ==
  LET now == asn % length
  IN IF timeslot >= now THEN timeslot - now ELSE length + timeslot - now
TimeTo_ThisTurnOnly(asn, timeslot, length) ==
  timeslot - (asn % length)
TimeTo(asn, timeslot, length) ==
  LET now == asn % length
  IN IF timeslot > now THEN timeslot - now ELSE length + timeslot - now

TimeToLink(asn, l) == TimeTo(asn, link[l].timeslot, size[link[l].slotframe_handle])

(* default_tsch_link_comparator: of two links of a slotframe, the Tx link  *)
(* with more packets to send, otherwise the first.                         *)
Comparator(a, b, queued) ==
  IF link[a].tx /\ link[a].addr # link[b].addr
     /\ queued[link[a].addr] < queued[link[b].addr]
    THEN b ELSE a

(* The one of two links in the same slot that is selected: the one with    *)
(* Tx, then the lower handle; NoLink when best stays without a comparison. *)
NewBest(best, l, queued) ==
  LET handle(b) == link[b].slotframe_handle
  IN CASE link[l].tx # link[best].tx -> IF link[l].tx THEN l ELSE NoLink
       [] link[l].tx = link[best].tx /\ handle(l) # handle(best) ->
            IF handle(l) < handle(best) THEN l ELSE NoLink
       [] OTHER -> Comparator(best, l, queued)

(* The backup after a link in the same slot was not selected.              *)
BackupAmong_HighestHandle(backup, loser) ==
  IF /\ link[loser].rx
     /\ backup = NoLink
        \/ link[loser].slotframe_handle > link[backup].slotframe_handle
    THEN loser ELSE backup
BackupAmong(backup, loser) ==
  IF /\ link[loser].rx
     /\ backup = NoLink
        \/ link[loser].slotframe_handle < link[backup].slotframe_handle
    THEN loser ELSE backup

(* One link of the search: it is earlier than the best, or overlaps it, or *)
(* comes later.  Both the link and the best so far are losers when neither *)
(* was selected.                                                           *)
Consider(found, l, asn, queued) ==
  LET time == TimeToLink(asn, l)
      new == NewBest(found.best, l, queued)
      backup == IF new # l THEN BackupAmong(found.backup, l) ELSE found.backup
  IN CASE found.best = NoLink \/ time < found.time ->
            [best |-> l, time |-> time, backup |-> NoLink]
       [] found.best # NoLink /\ time = found.time ->
            [best |-> IF new = NoLink THEN found.best ELSE new,
             time |-> time,
             backup |-> IF new # found.best
                          THEN BackupAmong(backup, found.best) ELSE backup]
       [] OTHER -> found

AllLinks == FlattenSeq([i \in DOMAIN slotframe_list |->
                          links_list[slotframe_list[i]]])

NothingFound == [best |-> NoLink, time |-> 0, backup |-> NoLink]

(* tsch_schedule_get_next_active_link, while the lock is free. *)
NextActiveLink(asn, queued) ==
  FoldLeft(LAMBDA found, l : Consider(found, l, asn, queued),
           NothingFound, AllLinks)

-----------------------------------------------------------------------------
(* Those of a list that are among blocks, in its order. *)
Those(list, blocks) ==
  FoldLeft(LAMBDA kept, b : IF b \in blocks THEN Append(kept, b) ELSE kept,
           <<>>, list)

(* The links remove_link_by_timeslot removes.                              *)
AtPlace(timeslot, channel_offset) ==
  {b \in Installed : /\ link[b].timeslot = timeslot
                     /\ link[b].channel_offset = channel_offset}
LinksAt_FirstOnly(handle, timeslot, channel_offset) ==
  LET all == Those(links_list[handle], AtPlace(timeslot, channel_offset))
  IN IF all = <<>> THEN <<>> ELSE <<Head(all)>>
LinksAt(handle, timeslot, channel_offset) ==
  Those(links_list[handle], AtPlace(timeslot, channel_offset))

Removals(blocks) ==
  [i \in DOMAIN blocks |-> [op |-> "remove_link", block |-> blocks[i]]]

RemovalOfSlotframe_LinksKept(handle) ==
  <<[op |-> "remove_slotframe", handle |-> handle]>>
RemovalOfSlotframe(handle) ==
  Append(Removals(links_list[handle]),
         [op |-> "remove_slotframe", handle |-> handle])

(* add_link checks the timeslot, and removes what it is to replace. *)
Replaced(call) ==
  IF call.do_remove
    THEN LinksAt(call.link.slotframe_handle, call.link.timeslot,
                 call.link.channel_offset)
    ELSE <<>>
Insertion(call) ==
  [op |-> "add_link", link |-> call.link, do_remove |-> call.do_remove,
   replaces |-> Replaced(call) # <<>>]
Addition_RemovesAfter(call) ==
  IF call.link.timeslot < size[call.link.slotframe_handle]
    THEN <<Insertion(call)>> \o Removals(Replaced(call))
    ELSE <<>>
Addition(call) ==
  IF call.link.timeslot < size[call.link.slotframe_handle]
    THEN Append(Removals(Replaced(call)), Insertion(call))
    ELSE <<>>

(* tsch_schedule_remove_all_slotframes. *)
RemovalOfAll ==
  FlattenSeq([i \in DOMAIN slotframe_list |->
                RemovalOfSlotframe(slotframe_list[i])])

(* The critical sections of a call; no other call comes in between. *)
Sections(call) ==
  CASE call.op = "add_slotframe" ->
         IF call.size # 0 /\ size[call.handle] = 0 THEN <<call>> ELSE <<>>
    [] call.op = "remove_slotframe" ->
         IF size[call.handle] # 0 THEN RemovalOfSlotframe(call.handle) ELSE <<>>
    [] call.op = "add_link" ->
         IF size[call.link.slotframe_handle] # 0 THEN Addition(call) ELSE <<>>
    [] call.op = "remove_link_by_timeslot" ->
         Removals(LinksAt(call.handle, call.timeslot, call.channel_offset))
    [] call.op = "create_minimal" ->
         RemovalOfAll
           \o << [op |-> "add_slotframe", handle |-> call.link.slotframe_handle,
                  size |-> call.size],
                 [op |-> "add_link", link |-> call.link, do_remove |-> TRUE,
                  replaces |-> FALSE] >>

Start ==
  /\ todo = <<>>
  /\ \E call \in Call : todo' = Sections(call) /\ todo' # <<>>
  /\ UNCHANGED <<poolVars, countVars, pointerVars>>

-----------------------------------------------------------------------------
(* The next critical section is one of operation op, and runs.             *)
Section(op) == todo # <<>> /\ Head(todo).op = op /\ todo' = Tail(todo)

(* Nothing is left without a block: the slotframe is not added, and a call *)
(* that goes on with it finds no slotframe.                                *)
AddSlotframe ==
  /\ Section("add_slotframe")
  /\ IF Len(slotframe_list) < MaxSlotframes
       THEN /\ slotframe_list' = Append(slotframe_list, Head(todo).handle)
            /\ size' = [size EXCEPT ![Head(todo).handle] = Head(todo).size]
       ELSE UNCHANGED <<slotframe_list, size>>
  /\ UNCHANGED <<links_list, link, countVars, pointerVars>>

RemoveSlotframe ==
  /\ Section("remove_slotframe")
  /\ slotframe_list' = RemoveFirst(slotframe_list, Head(todo).handle)
  /\ size' = [size EXCEPT ![Head(todo).handle] = 0]
  /\ UNCHANGED <<links_list, link, countVars, pointerVars>>

(* tsch_queue_get_nbr and tsch_queue_add_nbr may find no such neighbour.   *)
MayBeAbsent(a) == a \notin Virtual /\ tx_links_count[a] = 0

(* A neighbour that was out of the table comes back with its counters 0.   *)
Dedicated(a) ==
  {dedicated_tx_links_count[a]} \cup (IF MayBeAbsent(a) THEN {0} ELSE {})

(* How the link counters of a neighbour change with a Tx link to it.       *)
Count_SharedLeaves(l, n) ==
  \E dedicated \in Dedicated(l.addr) :
    /\ tx_links_count' = [tx_links_count EXCEPT ![l.addr] = @ + n]
    /\ dedicated_tx_links_count' =
         [dedicated_tx_links_count EXCEPT
            ![l.addr] = IF l.shared /\ n = 1 THEN dedicated ELSE dedicated + n]
Count(l, n) ==
  \E dedicated \in Dedicated(l.addr) :
    /\ tx_links_count' = [tx_links_count EXCEPT ![l.addr] = @ + n]
    /\ dedicated_tx_links_count' =
         [dedicated_tx_links_count EXCEPT
            ![l.addr] = IF l.shared THEN dedicated ELSE dedicated + n]

(* Those that miss a Tx link to them: it is added and there is no room.    *)
Missing(l, n) == IF n = 1 THEN {l.addr} ELSE {}

CountLink(l, n) ==
  \/ /\ ~l.tx
     /\ UNCHANGED countVars
  \/ /\ l.tx
     /\ Count(l, n)
     /\ UNCHANGED missed
  \/ /\ l.tx /\ MayBeAbsent(l.addr)
     /\ missed' = missed \cup Missing(l, n)
     /\ UNCHANGED <<tx_links_count, dedicated_tx_links_count>>

(* Without a block, add_link has removed and adds nothing. *)
AddLink ==
  /\ Section("add_link")
  /\ LET l == Head(todo).link
     IN IF Installed # Block /\ size[l.slotframe_handle] # 0
          THEN /\ \E b \in Block \ Installed :
                    /\ link' = [link EXCEPT ![b] = l]
                    /\ links_list' = [links_list EXCEPT
                                        ![l.slotframe_handle] = Append(@, b)]
               /\ CountLink(l, 1)
          ELSE UNCHANGED <<links_list, link, countVars>>
  /\ UNCHANGED <<slotframe_list, size, pointerVars>>

(* remove_link makes the slot operation forget the link it would run next, *)
(* but not the backup of that link.                                        *)
Forget(b) == current_link' = IF current_link = b THEN NoLink ELSE current_link

RemoveLink ==
  /\ Section("remove_link")
  /\ LET b == Head(todo).block
     IN /\ Forget(b)
        /\ links_list' = [links_list EXCEPT
                            ![link[b].slotframe_handle] = RemoveFirst(@, b)]
        /\ link' = [link EXCEPT ![b] = Free]
        /\ CountLink(link[b], -1)
  /\ UNCHANGED <<slotframe_list, size, backup_link>>

Edit == Start \/ AddSlotframe \/ RemoveSlotframe \/ AddLink \/ RemoveLink

-----------------------------------------------------------------------------
(* The slot operation looks for the next link at the end of a slot; inside *)
(* a critical section, it finds none.                                      *)
Find(found) ==
  /\ current_link' = found.best
  /\ backup_link' = found.backup

Queued == [Address -> 0 .. MaxQueued]

LookUp ==
  /\ \/ \E asn \in 0 .. AsnCycle - 1, queued \in Queued :
          Find(NextActiveLink(asn, queued))
     \/ todo # <<>> /\ Find(NothingFound)
  /\ UNCHANGED <<poolVars, countVars, todo>>

ScheduleNext == Edit \/ LookUp
ScheduleSpec == ScheduleInit /\ [][ScheduleNext]_scheduleVars
=============================================================================
