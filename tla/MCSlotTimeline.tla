---------------------------- MODULE MCSlotTimeline ----------------------------
(* The two slotframes of a QL-TSCH node, of 2 and 3 timeslots, one of      *)
(* whose unicast links becomes a Tx link and an Rx link again.             *)
EXTENDS SlotTimelineProperties, TLC

CONSTANT Everyone

Link(h, ts, t, r) ==
  [slotframe_handle |-> h, timeslot |-> ts, channel_offset |-> 0,
   tx |-> t, rx |-> r, shared |-> TRUE, addr |-> Everyone]

MCInitialSchedule ==
  [slotframes |-> <<0, 1>>, size |-> 0 :> 2 @@ 1 :> 3,
   links |-> <<Link(0, 0, TRUE, TRUE), Link(1, 0, TRUE, FALSE),
               Link(1, 1, FALSE, TRUE), Link(1, 2, FALSE, TRUE)>>]

MCCall ==
  {[op |-> "add_link", link |-> Link(1, 2, tx, ~tx), do_remove |-> TRUE] :
     tx \in BOOLEAN}

Symmetry == Permutations(Block)
=============================================================================
