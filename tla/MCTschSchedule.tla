---------------------------- MODULE MCTschSchedule ----------------------------
(* Slotframes of 2 and 3 timeslots in either order, links of four kinds,   *)
(* added with and without replacement, and the minimal schedule.  The      *)
(* dedicated link is to a unicast neighbour, the others to a virtual one.  *)
EXTENDS TschScheduleProperties, TLC

CONSTANTS a1, a2

SizeOf(h) == IF h = 2 THEN 1 ELSE h + 2

(* The links a call may add: Tx, Rx and Tx|Rx, dedicated and shared. *)
Link(h, ts, kind) ==
  [slotframe_handle |-> h, timeslot |-> ts, channel_offset |-> 0,
   tx |-> kind # "Rx", rx |-> kind # "Tx", shared |-> kind # "Tx",
   addr |-> IF kind = "Tx" THEN a1 ELSE a2]
Links ==
  {Link(0, 0, "TxRx"), Link(0, 0, "Rx"), Link(0, 1, "Rx"),
   Link(1, 0, "TxRx"), Link(1, 0, "Tx"), Link(1, 3, "Tx")}

MCCall ==
  {[op |-> "add_slotframe", handle |-> h, size |-> SizeOf(h)] : h \in Handle}
    \cup {[op |-> "remove_slotframe", handle |-> h] : h \in Handle}
    \cup {[op |-> "add_link", link |-> l, do_remove |-> TRUE] : l \in Links}
    \cup {[op |-> "add_link", link |-> l, do_remove |-> FALSE] :
            l \in {Link(0, 0, "Rx"), Link(1, 0, "Tx")}}
    \cup {[op |-> "remove_link_by_timeslot", handle |-> h, timeslot |-> 0,
           channel_offset |-> 0] : h \in Handle}
    \cup {[op |-> "create_minimal", size |-> 1, link |-> Link(0, 0, "TxRx")]}

Symmetry == Permutations(Block)
=============================================================================
