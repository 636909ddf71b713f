------------------------------ MODULE QLearning ------------------------------
(***************************************************************************)
(* How a QL-TSCH node learns the timeslot to transmit in: the Q-table and  *)
(* the policy of node.c, the APT table of tsch-slot-operation.c.           *)
(*                                                                         *)
(* The interrupt counts receptions in the APT table while process context  *)
(* reads or resets it: the lock that the scan is under does not stop Rx    *)
(* slots, and the reset is under no lock.  Every iteration of the loops    *)
(* over the tables is a step.                                              *)
(*                                                                         *)
(* Q-values are fixed-point, Scale being 1.0; as those of the code, which  *)
(* are floats, they are rounded either way.  The chance of an exploration  *)
(* is in (0, 1/2] in every cycle, so the policy may always choose either   *)
(* way.  The status of the last transmission and the random start of a     *)
(* scan are any.                                                           *)
(***************************************************************************)
EXTENDS Integers

CONSTANTS
  UnicastLength,   \* UNICAST_SLOTFRAME_LENGTH
  Scale,           \* the fixed-point representation of 1.0
  AptModulus,      \* 256: APT counters are uint8_t
  MaxHeard         \* bound: receptions during one scan

Actions == 0 .. UnicastLength - 1

ASSUME ConstantsAssumption ==
  /\ UnicastLength \in Nat \ {0}
  /\ Scale \in Nat \ {0}
  /\ AptModulus \in Nat \ {0}
  /\ MaxHeard \in Nat

VARIABLES
  pc,              \* the loop process context is in
  i,               \* its loop variable
  best,            \* the index a scan returns: max or min in the code
  reward,          \* of the last transmission
  q_values, apt_table,
  current_action,
  heard,           \* history: receptions since the scan began
  wrapped          \* history: one of them wrapped an APT counter

vars ==
  <<pc, i, best, reward, q_values, apt_table, current_action, heard, wrapped>>

Scans == {"bootstrap", "explore", "exploit"}

TypeOK ==
  /\ pc \in {"wait", "reset"} \cup Scans
  /\ i \in 0 .. UnicastLength
  /\ best \in Actions
  /\ reward \in {0, 1}
  /\ q_values \in [Actions -> Nat]
  /\ apt_table \in [Actions -> 0 .. AptModulus - 1]
  /\ current_action \in Actions
  /\ heard \in 0 .. MaxHeard
  /\ wrapped \in BOOLEAN

Init ==
  /\ pc = "wait"
  /\ i = 0
  /\ best = 0
  /\ reward = 0
  /\ q_values = [a \in Actions |-> 0]
  /\ apt_table = [a \in Actions |-> 0]
  /\ current_action = 0
  /\ heard = 0
  /\ wrapped = FALSE

-----------------------------------------------------------------------------
(* tsch_rx_slot, in any slot but the one to transmit in, counts a          *)
(* reception.                                                              *)
OneMore_TooWide(n) == n + 1
OneMore(n) == IF n + 1 = AptModulus THEN 0 ELSE n + 1

Receive ==
  /\ pc \in Scans => heard < MaxHeard
  /\ \E ts \in Actions \ {current_action} :
       /\ apt_table' = [apt_table EXCEPT ![ts] = OneMore(apt_table[ts])]
       /\ wrapped' = IF OneMore(apt_table[ts]) = 0 THEN TRUE ELSE wrapped
  /\ heard' = IF pc \in Scans THEN heard + 1 ELSE heard
  /\ UNCHANGED <<pc, i, best, reward, q_values, current_action>>

(* reset_apt_table, which node_udp_process calls periodically. *)
StartReset ==
  /\ pc = "wait"
  /\ pc' = "reset"
  /\ i' = 0
  /\ UNCHANGED <<best, reward, q_values, apt_table, current_action, heard,
                 wrapped>>

ResetStep ==
  /\ pc = "reset"
  /\ i < UnicastLength
  /\ apt_table' = [apt_table EXCEPT ![i] = 0]
  /\ i' = i + 1
  /\ UNCHANGED <<pc, best, reward, q_values, current_action, heard, wrapped>>

EndReset ==
  /\ pc = "reset"
  /\ i = UnicastLength
  /\ pc' = "wait"
  /\ UNCHANGED <<i, best, reward, q_values, apt_table, current_action, heard,
                 wrapped>>

-----------------------------------------------------------------------------
(* max_q_value_index and get_slot_with_apt_table_min_value start from a    *)
(* random index and compare it with the others from FirstCompared on.      *)
FirstCompared_SkipsOne == 2
FirstCompared == 1

StartScan(scan) ==
  /\ pc' = scan
  /\ i' = FirstCompared
  /\ best' \in Actions
  /\ heard' = 0
  /\ wrapped' = FALSE

Better_AptMaximum(a, b) ==
  IF pc = "explore" THEN apt_table[a] > apt_table[b]
                    ELSE q_values[a] > q_values[b]
Better(a, b) ==
  IF pc = "explore" THEN apt_table[a] < apt_table[b]
                    ELSE q_values[a] > q_values[b]

ScanStep ==
  /\ pc \in Scans
  /\ i < UnicastLength
  /\ best' = IF Better(i, best) THEN i ELSE best
  /\ i' = i + 1
  /\ UNCHANGED <<pc, reward, q_values, apt_table, current_action, heard,
                 wrapped>>

ScanEnds == i >= UnicastLength

(* policy_check. *)
ChooseAction == StartScan("explore") \/ StartScan("exploit")

(* scheduler_process finds that nothing was transmitted, or the reward of  *)
(* what was, for which update_q_table looks for the highest Q-value.       *)
Learn ==
  /\ pc = "wait"
  /\ \/ ChooseAction /\ UNCHANGED reward
     \/ StartScan("bootstrap") /\ reward' \in {0, 1}
  /\ UNCHANGED <<q_values, apt_table, current_action>>

(* The new Q-value of an action of value q, when the value found is max:   *)
(* (1 - 0.1) q + 0.1 (reward + 0.95 (max + 1) - q), rounded down or up.    *)
Rounded(thousandths) == {thousandths \div 1000, (thousandths + 999) \div 1000}

UpdatedQ_RateMisplaced(q, max) ==
  Rounded(800 * q + 100 * reward * Scale + 950 * (max + Scale))
UpdatedQ_FailureRewarded(q, max) ==
  Rounded(800 * q + 100 * Scale + 95 * (max + Scale))
UpdatedQ(q, max) ==
  Rounded(800 * q + 100 * reward * Scale + 95 * (max + Scale))

UpdateQTable ==
  /\ pc = "bootstrap"
  /\ ScanEnds
  /\ \E q \in UpdatedQ(q_values[current_action], q_values[best]) :
       q_values' = [q_values EXCEPT ![current_action] = q]
  /\ ChooseAction
  /\ UNCHANGED <<reward, apt_table, current_action>>

(* set_up_new_schedule. *)
SetUpNewSchedule ==
  /\ pc \in {"explore", "exploit"}
  /\ ScanEnds
  /\ pc' = "wait"
  /\ current_action' = best
  /\ UNCHANGED <<i, best, reward, q_values, apt_table, heard, wrapped>>

Next ==
  \/ Receive \/ StartReset \/ ResetStep \/ EndReset
  \/ Learn \/ ScanStep \/ UpdateQTable \/ SetUpNewSchedule

Spec == Init /\ [][Next]_vars

-----------------------------------------------------------------------------
(* A Q-value never exceeds 13/7, rounded up, the value that endless success*)
(* converges to: the table cannot diverge, although it is bootstrapped with*)
(* its own maximum plus one.                                               *)
QBounded == \A a \in Actions : 7 * q_values[a] < 13 * Scale + 7

(* Of the actions from 1 on, exploitation and the bootstrap use one with   *)
(* the highest Q-value.                                                    *)
MaxDominates ==
  pc \in {"bootstrap", "exploit"} /\ ScanEnds
    => \A a \in Actions \ {0} : q_values[best] >= q_values[a]

(* Exploration moves to a timeslot that is the least busy of those from 1  *)
(* on, but for the receptions that interrupted the scan: they may make it  *)
(* busier than another by no more than their number, unless a counter      *)
(* overflowed.                                                             *)
MinDominates ==
  pc = "explore" /\ ScanEnds /\ ~wrapped
    => \A a \in Actions \ {0} : apt_table[best] <= apt_table[a] + heard

(* From 19/21 on, where the value of endless failure lies, a failed        *)
(* transmission makes no action better than the best one was.              *)
FailureNeverRaisesTheBest ==
  [][ \A m \in Actions :
        /\ reward = 0
        /\ 21 * q_values[m] >= 19 * Scale
        /\ \A a \in Actions : q_values[a] <= q_values[m]
        => \A a \in Actions : q_values'[a] <= q_values[m] ]_vars

-----------------------------------------------------------------------------
(* node.c:143: "function to find the highest Q-value and return its        *)
(* index".                                                                 *)
MaxIsHighest ==
  pc = "exploit" /\ ScanEnds
    => \A a \in Actions : q_values[best] >= q_values[a]
=============================================================================
