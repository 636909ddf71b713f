----------------------- MODULE TschScheduleProperties -----------------------
(***************************************************************************)
(* What is checked of TschSchedule.                                        *)
(***************************************************************************)
EXTENDS TschSchedule

(* The links that fall on the first slot after asn in which any does.      *)
Earliest(asn) ==
  {b \in Installed :
     \A c \in Installed : TimeToLink(asn, b) <= TimeToLink(asn, c)}

(* "By standard: prioritize Tx links first, second by lowest handle", then *)
(* by the packets in the queue.                                            *)
Precedes(a, b, queued) ==
  LET h(c) == link[c].slotframe_handle
  IN \/ link[a].tx /\ ~link[b].tx
     \/ link[a].tx = link[b].tx /\ h(a) < h(b)
     \/ /\ link[a].tx /\ link[b].tx /\ h(a) = h(b)
        /\ queued[link[a].addr] > queued[link[b].addr]

(* From every ASN, whatever the order of the lists, the search ends on the *)
(* earliest slot with a link, at the distance it says, and on a link none  *)
(* of those in that slot precedes.                                         *)
IsTheFirst(asn, queued, found, earliest) ==
  LET length == size[link[found.best].slotframe_handle]
  IN /\ found.best \in earliest
     /\ found.time \in 1 .. length
     /\ (asn + found.time) % length = link[found.best].timeslot
     /\ \A c \in earliest : ~Precedes(c, found.best, queued)
NextLinkIsTheFirst ==
  \A asn \in 0 .. AsnCycle - 1 :
    LET earliest == Earliest(asn)
    IN \A queued \in Queued :
         LET found == NextActiveLink(asn, queued)
         IN IF Installed = {} THEN found = NothingFound
                              ELSE IsTheFirst(asn, queued, found, earliest)

(* The link that tsch_slot_operation listens on when there is no packet. *)
Listener(found) ==
  IF /\ found.backup # NoLink
     /\ \/ ~link[found.best].rx
        \/ link[found.backup].slotframe_handle
             < link[found.best].slotframe_handle
    THEN found.backup ELSE found.best

(* "The backup link must have Rx flag set": a node with nothing to send    *)
(* listens, if any link in the slot allows it, on one of lowest handle.    *)
ListensOnLowest ==
  \A asn \in 0 .. AsnCycle - 1 :
    LET receivers == {b \in Earliest(asn) : link[b].rx}
    IN receivers # {} =>
         \A queued \in Queued :
           LET listener == Listener(NextActiveLink(asn, queued))
           IN /\ listener \in receivers
              /\ \A c \in receivers : link[listener].slotframe_handle
                                          <= link[c].slotframe_handle

(* A block of link_memb is allocated exactly while it is at one place of   *)
(* one list of a slotframe that exists.                                    *)
LinkHasOnePlace ==
  /\ IsInjective(AllLinks)
  /\ Range(AllLinks) = Installed

(* The counters by which neighbours are kept, and queues chosen, are those *)
(* of the links installed, over replacements and removals of slotframes,   *)
(* of every neighbour that had an entry for each Tx link added to it.      *)
LinkCountersMatch ==
  \A a \in Address \ missed :
    LET txLinks == {b \in Installed : link[b].tx /\ link[b].addr = a}
    IN /\ tx_links_count[a] = Cardinality(txLinks)
       /\ dedicated_tx_links_count[a] =
            Cardinality({b \in txLinks : ~link[b].shared})

(* add_link frees what it replaces before it allocates: the pool cannot be *)
(* exhausted halfway, which would leave the timeslot without a link.       *)
ReplacementFits ==
  todo # <<>> /\ Head(todo).op = "add_link" /\ Head(todo).replaces
    => Installed # Block

(* "Start with removing the link currently installed at this timeslot":    *)
(* when add_link has replaced, the new link is the only one at its place,  *)
(* even if several were there.                                             *)
ReplacesAtTimeslot ==
  [][ AddLink /\ Head(todo).do_remove =>
        LET l == Head(todo).link
        IN \A b, c \in Installed' :
             /\ link'[b].slotframe_handle = l.slotframe_handle
             /\ link'[b].timeslot = l.timeslot
             /\ link'[b].channel_offset = l.channel_offset
             /\ link'[c].slotframe_handle = l.slotframe_handle
             /\ link'[c].timeslot = l.timeslot
             /\ link'[c].channel_offset = l.channel_offset
             => b = c ]_scheduleVars
=============================================================================
