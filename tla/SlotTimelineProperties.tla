----------------------- MODULE SlotTimelineProperties -----------------------
(***************************************************************************)
(* What is checked of SlotTimeline.                                        *)
(***************************************************************************)
EXTENDS SlotTimeline

FallsOn(b, n) == n % size[link[b].slotframe_handle] = link[b].timeslot

(* A slot runs a link, or its backup, in the timeslot of its ASN, over     *)
(* edits of the schedule, missed deadlines, skipped slots and a new        *)
(* association.  The exception is a repeated link: each repetition is one  *)
(* slot on from its timeslot, and either the last slot that ran asked for  *)
(* it, or the burst of another link was cut when that link was removed or  *)
(* the network left, and its flag is still set.  No other way leads out of *)
(* a timeslot; that a repetition comes in the slot its neighbour waits in  *)
(* is not said, for skipped and late slots prolong a burst.                *)
LinkFallsOnAsn ==
  slot \in {"sleep", "run"} /\ current_link # NoLink =>
    /\ FallsOn(current_link, asn + AsnCycle * repeated - repeated)
    /\ repeated > 0 => burst_of # "nothing"
    /\ backup_link # NoLink => FallsOn(backup_link, asn)

(* The ASN and the start of the slot advance together: the start is the    *)
(* ASN times the length of a slot, plus each correction exactly once,      *)
(* however many deadlines were missed since.                               *)
SlotStartFollowsAsn ==
  LET due == IF slot = "end" THEN drift_correction ELSE 0
  IN slot # "out" =>
       (current_slot_start + due - asn * SlotLength - corrected)
         % ClockModulus = 0

(* "Provides basic protection against missed deadlines and timer           *)
(* overflows": no timer is set for a time that has passed, which would     *)
(* come a whole turn of the clock later.                                   *)
NeverOversleeps == overslept = 0

(* What check_timer_miss takes for granted ("a single overflow"), and the  *)
(* busy wait, which compares by half a turn of the clock: the next link is *)
(* never more than half a turn away, whatever ASN and schedule.            *)
NextSlotWithinHalfATurn ==
  \A queued \in Queued :
    LET found == NextActiveLink(asn, queued)
    IN found.best # NoLink =>
         /\ found.time \in Nat \ {0}
         /\ 2 * (found.time * SlotLength + MaxDrift) <= ClockModulus

(* The schedule of node.c: slotframe 0, of one link to broadcast, comes    *)
(* first in the list; a timeslot of slotframe 1 has one link at most, to   *)
(* transmit or to receive, and only such links are added later.            *)
BroadcastLink(l) ==
  l.slotframe_handle = 0 /\ l.timeslot = 0 /\ l.tx /\ l.rx
UnicastLink(l) ==
  l.slotframe_handle = 1 /\ l.channel_offset = 0 /\ l.tx = ~l.rx
ASSUME QlAssumption ==
  /\ InitialSchedule.slotframes = <<0, 1>>
  /\ \A i \in DOMAIN InitialSchedule.links :
       \/ BroadcastLink(InitialSchedule.links[i])
       \/ UnicastLink(InitialSchedule.links[i])
  /\ \A i, j \in DOMAIN InitialSchedule.links :
       LET l == InitialSchedule.links[i]
           m == InitialSchedule.links[j]
       IN l.slotframe_handle = m.slotframe_handle /\ l.timeslot = m.timeslot
            => i = j
  /\ \A call \in Call :
       call.op = "add_link" /\ call.do_remove /\ UnicastLink(call.link)

(* What the search returns is among what TschSlotOperation, which knows    *)
(* neither ASN nor timeslot lengths, lets it return.                       *)
AbstractLink(b) ==
  IF b = NoLink THEN NoLink
  ELSE [slotframe_handle |-> link[b].slotframe_handle,
        timeslot |-> link[b].timeslot, tx |-> link[b].tx, rx |-> link[b].rx]
Abstract ==
  INSTANCE TschSlotOperation WITH
    UnicastLength <- InitialSchedule.size[1], IsCoordinator <- FALSE,
    tsch_locked <- FALSE, tsch_lock_requested <- FALSE,
    tsch_in_slot_operation <- slot \in {"run", "end"},
    links <- {AbstractLink(b) : b \in Installed},
    tsch_is_associated <- slot # "out", trans_status <- 0,
    status_timeslot <- 0
SearchIsAbstracted ==
  /\ {AbstractLink(b) : b \in Installed} \subseteq Abstract!Link
  /\ \A queued \in Queued :
       LET found == NextActiveLink(asn, queued)
       IN <<AbstractLink(found.best), AbstractLink(found.backup)>>
            \in Abstract!NextActiveLinks
=============================================================================
