--------------------------- MODULE QLearningProofs ---------------------------
(***************************************************************************)
(* Theorems about QLearning, for tables of any length, any precision of    *)
(* the Q-values and any width of the APT counters.                         *)
(***************************************************************************)
EXTENDS QLearning, TLAPS

(* Rounding leads to a natural number, and past no whole number.           *)
LEMMA RoundedBounded ==
  ASSUME NEW x \in Nat, NEW n \in Nat, x <= 1000 * n
  PROVE  Rounded(x) \subseteq Nat /\ \A q \in Rounded(x) : q <= n
BY DEF Rounded

(* A step of the learning rule keeps a natural number below a whole number *)
(* that is 13/7 at least.                                                  *)
LEMMA UpdatedQBounded ==
  ASSUME NEW q \in Nat, NEW max \in Nat, reward \in {0, 1},
         NEW n \in Nat, 13 * Scale <= 7 * n, q <= n, max <= n,
         NEW new \in UpdatedQ(q, max)
  PROVE  new \in Nat /\ new <= n
<1> DEFINE x == 800 * q + 100 * reward * Scale + 95 * (max + Scale)
<1>1. x \in Nat /\ x <= 1000 * n
  <2> USE ConstantsAssumption DEF ConstantsAssumption
  <2>1. CASE reward = 0
    BY <2>1
  <2>2. CASE reward = 1
    BY <2>2
  <2>3. QED
    BY <2>1, <2>2
<1>2. Rounded(x) \subseteq Nat /\ \A r \in Rounded(x) : r <= n
  <2> HIDE DEF x
  <2>1. QED
    BY <1>1, RoundedBounded
<1>3. QED
  BY <1>2 DEF UpdatedQ

(* And a failure does not lift it above a value of at least 19/21 that     *)
(* bounds it.                                                              *)
LEMMA FailedUpdateBounded ==
  ASSUME NEW q \in Nat, NEW max \in Nat, NEW top \in Nat, reward = 0,
         q <= top, max <= top, 21 * top >= 19 * Scale,
         NEW new \in UpdatedQ(q, max)
  PROVE  new <= top
<1> DEFINE x == 800 * q + 100 * reward * Scale + 95 * (max + Scale)
<1>1. x \in Nat /\ x <= 1000 * top
  BY ConstantsAssumption DEF ConstantsAssumption
<1>2. \A r \in Rounded(x) : r <= top
  <2> HIDE DEF x
  <2>1. QED
    BY <1>1, RoundedBounded
<1>3. QED
  BY <1>2 DEF UpdatedQ

-----------------------------------------------------------------------------
(* TypeOK without its Boolean.                                             *)
Numbers ==
  /\ pc \in {"wait", "reset"} \cup Scans
  /\ i \in 0 .. UnicastLength
  /\ best \in Actions
  /\ reward \in {0, 1}
  /\ q_values \in [Actions -> Nat]
  /\ apt_table \in [Actions -> 0 .. AptModulus - 1]
  /\ current_action \in Actions
  /\ heard \in 0 .. MaxHeard

(* So the numbers stay in their ranges, and the Q-values bounded. *)
LEMMA NumbersInvariant == Spec => [](Numbers /\ QBounded)
<1> USE ConstantsAssumption DEF ConstantsAssumption, Actions, Scans
<1>1. Init => Numbers /\ QBounded
  BY DEF Init, Numbers, QBounded
<1>2. Numbers /\ QBounded /\ [Next]_vars => Numbers' /\ QBounded'
  <2> SUFFICES ASSUME Numbers, QBounded, [Next]_vars
               PROVE  Numbers' /\ QBounded'
    OBVIOUS
  <2> USE DEF Numbers
  <2>0. ASSUME q_values' = q_values
        PROVE  QBounded'
    BY <2>0 DEF QBounded
  <2>1. CASE Receive
    <3>1. \A n \in 0 .. AptModulus - 1 : OneMore(n) \in 0 .. AptModulus - 1
      BY DEF OneMore
    <3>2. apt_table' \in [Actions -> 0 .. AptModulus - 1]
      <4>1. PICK ts \in Actions :
              apt_table' = [apt_table EXCEPT ![ts] = OneMore(apt_table[ts])]
        BY <2>1 DEF Receive
      <4>2. OneMore(apt_table[ts]) \in 0 .. AptModulus - 1
        BY <3>1
      <4>3. QED
        BY <4>1, <4>2
    <3>3. heard' \in 0 .. MaxHeard
      BY <2>1 DEF Receive
    <3>4. QED
      BY <2>0, <2>1, <3>2, <3>3 DEF Receive
  <2>2. CASE StartReset
    BY <2>0, <2>2 DEF StartReset
  <2>3. CASE ResetStep
    BY <2>0, <2>3 DEF ResetStep
  <2>4. CASE EndReset
    BY <2>0, <2>4 DEF EndReset
  <2>5. CASE Learn
    <3>1. Numbers'
      BY <2>5 DEF Learn, ChooseAction, StartScan, FirstCompared
    <3>2. QED
      BY <2>0, <2>5, <3>1 DEF Learn
  <2>6. CASE ScanStep
    BY <2>0, <2>6 DEF ScanStep
  <2>7. CASE UpdateQTable
    <3>1. PICK q \in UpdatedQ(q_values[current_action], q_values[best]) :
            q_values' = [q_values EXCEPT ![current_action] = q]
      BY <2>7 DEF UpdateQTable
    <3>2. PICK n \in Nat : 13 * Scale <= 7 * n /\ 7 * n < 13 * Scale + 7
      <4>1. \E n \in Nat : n = (13 * Scale + 6) \div 7
        OBVIOUS
      <4>2. QED
        BY <4>1
    <3>3. ASSUME NEW v \in Nat
          PROVE  7 * v < 13 * Scale + 7 <=> v <= n
      BY <3>2
    <3>4. /\ q_values[current_action] \in Nat /\ q_values[best] \in Nat
          /\ q_values[current_action] <= n /\ q_values[best] <= n
      BY <3>3 DEF QBounded
    <3>5. q \in Nat /\ q <= n
      BY <3>2, <3>4, UpdatedQBounded
    <3>6. q_values' \in [Actions -> Nat]
      BY <3>1, <3>5
    <3>7. QBounded'
      <4>1. 7 * q < 13 * Scale + 7
        BY <3>3, <3>5
      <4>2. QED
        BY <3>1, <4>1 DEF QBounded
    <3>8. pc' \in Scans /\ i' = 1 /\ best' \in Actions /\ heard' = 0
      BY <2>7 DEF UpdateQTable, ChooseAction, StartScan, FirstCompared
    <3>9. QED
      BY <2>7, <3>6, <3>7, <3>8 DEF UpdateQTable
  <2>8. CASE SetUpNewSchedule
    BY <2>0, <2>8 DEF SetUpNewSchedule
  <2>9. CASE UNCHANGED vars
    BY <2>0, <2>9 DEF vars
  <2>10. QED
    BY <2>1, <2>2, <2>3, <2>4, <2>5, <2>6, <2>7, <2>8, <2>9 DEF Next
<1>3. QED
  BY <1>1, <1>2, PTL DEF Spec

(* The tables and every variable of the loops keep their range. *)
THEOREM TypeCorrect == Spec => []TypeOK
<1>1. Init => wrapped \in BOOLEAN
  BY DEF Init
<1>2. wrapped \in BOOLEAN /\ [Next]_vars => (wrapped \in BOOLEAN)'
  BY DEF Next, vars, Receive, StartReset, ResetStep, EndReset, Learn,
         ScanStep, UpdateQTable, SetUpNewSchedule, ChooseAction, StartScan
<1>3. Numbers /\ wrapped \in BOOLEAN => TypeOK
  BY Zenon DEF Numbers, TypeOK
<1>4. QED
  BY <1>1, <1>2, <1>3, NumbersInvariant, PTL DEF Spec

(* No sequence of rewards makes a Q-value exceed 13/7. *)
THEOREM QValuesBounded == Spec => []QBounded
  BY NumbersInvariant, PTL

-----------------------------------------------------------------------------
(* What a scan has established before index i. *)
ScannedMax ==
  pc \in {"bootstrap", "exploit"}
    => \A a \in Actions : 0 < a /\ a < i => q_values[best] >= q_values[a]
ScannedMin ==
  pc = "explore" /\ ~wrapped
    => \A a \in Actions :
         0 < a /\ a < i => apt_table[best] <= apt_table[a] + heard

(* Only a reception and an iteration concern what a scan has established:  *)
(* a loop that begins has seen nothing yet, and outside the loops there is *)
(* nothing to establish.                                                   *)
LEMMA StepOfScan ==
  ASSUME [Next]_vars
  PROVE  \/ Receive
         \/ ScanStep
         \/ pc' \in Scans => i' = 1
         \/ UNCHANGED vars
  BY DEF Next, Scans, StartReset, ResetStep, EndReset, SetUpNewSchedule,
         Learn, UpdateQTable, ChooseAction, StartScan, FirstCompared

(* An iteration keeps the higher Q-value; a reception touches none. *)
LEMMA ScannedMaxKept ==
  ASSUME Numbers, ScannedMax, [Next]_vars
  PROVE  ScannedMax'
<1> USE ConstantsAssumption
    DEF ConstantsAssumption, Actions, Scans, Numbers, ScannedMax
<1>1. ASSUME pc' \in Scans => i' = 1
      PROVE  ScannedMax'
  BY <1>1
<1>2. CASE ScanStep
  BY <1>2 DEF ScanStep, Better
<1>3. ASSUME Receive \/ UNCHANGED vars
      PROVE  ScannedMax'
  BY <1>3 DEF Receive, vars
<1>4. QED
  BY StepOfScan, <1>1, <1>2, <1>3

(* A reception that does not wrap its counter adds one both to an APT      *)
(* count and to heard; an iteration keeps the lower count.                 *)
LEMMA ScannedMinKept ==
  ASSUME Numbers, ScannedMin, [Next]_vars
  PROVE  ScannedMin'
<1> USE ConstantsAssumption
    DEF ConstantsAssumption, Actions, Scans, Numbers, ScannedMin
<1>1. CASE Receive
  <2> SUFFICES ASSUME pc = "explore", ~wrapped', NEW a \in Actions,
                      0 < a, a < i
               PROVE  apt_table'[best] <= apt_table'[a] + heard'
    BY <1>1 DEF Receive
  <2>1. PICK ts \in Actions :
          /\ apt_table' = [apt_table EXCEPT ![ts] = OneMore(apt_table[ts])]
          /\ wrapped' = IF OneMore(apt_table[ts]) = 0 THEN TRUE ELSE wrapped
    BY <1>1 DEF Receive
  <2>2. ~wrapped /\ OneMore(apt_table[ts]) = apt_table[ts] + 1
    BY <2>1 DEF OneMore
  <2>3. apt_table[best] <= apt_table[a] + heard
    BY <2>2
  <2>4. heard' = heard + 1
    BY <1>1 DEF Receive
  <2>5. \A k \in Actions :
          /\ apt_table[k] \in Nat
          /\ apt_table'[k] \in {apt_table[k], apt_table[k] + 1}
    BY <2>1, <2>2
  <2>6. best \in Actions /\ heard \in Nat
    OBVIOUS
  <2>7. /\ apt_table'[best] \in Nat /\ apt_table'[a] \in Nat
        /\ apt_table'[best] <= apt_table[best] + 1
        /\ apt_table[a] <= apt_table'[a]
    <3> HIDE DEF Numbers, ScannedMin
    <3>1. QED
      BY <2>5, <2>6
  <2>8. QED
    <3> HIDE DEF Numbers, ScannedMin
    <3>1. apt_table[best] \in Nat /\ apt_table[a] \in Nat
      BY <2>5, <2>6
    <3>2. QED
      BY <2>3, <2>4, <2>6, <2>7, <3>1
<1>2. CASE ScanStep
  <2> SUFFICES ASSUME pc = "explore", ~wrapped, NEW a \in Actions,
                      0 < a, a < i + 1
               PROVE  apt_table[best'] <= apt_table[a] + heard
    BY <1>2 DEF ScanStep
  <2>1. i \in Actions /\ heard \in Nat
    BY <1>2 DEF ScanStep
  <2>2. \A k \in Actions : apt_table[k] \in Nat
    OBVIOUS
  <2>3. a = i \/ apt_table[best] <= apt_table[a] + heard
    OBVIOUS
  <2>4. CASE apt_table[i] < apt_table[best]
    <3>1. best' = i
      BY <1>2, <2>4 DEF ScanStep, Better
    <3>2. QED
      BY <2>1, <2>2, <2>3, <2>4, <3>1
  <2>5. CASE ~(apt_table[i] < apt_table[best])
    <3>1. best' = best
      BY <1>2, <2>5 DEF ScanStep, Better
    <3>2. QED
      BY <2>1, <2>2, <2>3, <2>5, <3>1
  <2>6. QED
    BY <2>4, <2>5
<1>3. ASSUME pc' \in Scans => i' = 1
      PROVE  ScannedMin'
  BY <1>3
<1>4. ASSUME UNCHANGED vars
      PROVE  ScannedMin'
  BY <1>4 DEF vars
<1>5. QED
  BY StepOfScan, <1>1, <1>2, <1>3, <1>4

(* A scan of the Q-table that reaches its end has found a maximum of the   *)
(* actions from 1 on.                                                      *)
THEOREM ScanFindsMax == Spec => []MaxDominates
<1>1. Init => ScannedMax
  BY DEF Init, ScannedMax
<1>2. Numbers /\ ScannedMax => MaxDominates
  BY ConstantsAssumption
  DEF ConstantsAssumption, Actions, Numbers, ScannedMax, MaxDominates,
      ScanEnds
<1>3. Numbers /\ ScannedMax /\ [Next]_vars => ScannedMax'
  BY ScannedMaxKept
<1>4. QED
  BY NumbersInvariant, <1>1, <1>3, <1>2, PTL DEF Spec

(* A scan of the APT table that reaches its end has found a minimum of the *)
(* timeslots from 1 on, up to the receptions that interrupted it.          *)
THEOREM ScanFindsMin == Spec => []MinDominates
<1>1. Init => ScannedMin
  BY DEF Init, ScannedMin
<1>2. Numbers /\ ScannedMin => MinDominates
  BY ConstantsAssumption
  DEF ConstantsAssumption, Actions, Numbers, ScannedMin, MinDominates,
      ScanEnds
<1>3. Numbers /\ ScannedMin /\ [Next]_vars => ScannedMin'
  BY ScannedMinKept
<1>4. QED
  BY NumbersInvariant, <1>1, <1>3, <1>2, PTL DEF Spec

(* Failures do not promote an action past one of value 19/21 or more. *)
THEOREM FailureKeepsTheBest == Spec => FailureNeverRaisesTheBest
<1> DEFINE Step ==
      \A m \in Actions :
        /\ reward = 0
        /\ 21 * q_values[m] >= 19 * Scale
        /\ \A a \in Actions : q_values[a] <= q_values[m]
        => \A a \in Actions : q_values'[a] <= q_values[m]
<1>1. Numbers /\ [Next]_vars => Step
  <2> SUFFICES ASSUME Numbers, [Next]_vars,
                      NEW m \in Actions,
                      reward = 0,
                      21 * q_values[m] >= 19 * Scale,
                      \A a \in Actions : q_values[a] <= q_values[m],
                      NEW a \in Actions
               PROVE  q_values'[a] <= q_values[m]
    OBVIOUS
  <2>1. CASE q_values' = q_values
    BY <2>1
  <2>2. CASE UpdateQTable
    <3>1. PICK q \in UpdatedQ(q_values[current_action], q_values[best]) :
            q_values' = [q_values EXCEPT ![current_action] = q]
      BY <2>2 DEF UpdateQTable
    <3>2. q <= q_values[m]
      BY FailedUpdateBounded DEF Numbers
    <3>3. QED
      BY <3>1, <3>2 DEF Numbers
  <2>3. QED
    BY <2>1, <2>2
    DEF Next, vars, Receive, StartReset, ResetStep, EndReset, Learn,
        ScanStep, SetUpNewSchedule
<1>2. QED
  BY <1>1, NumbersInvariant, PTL DEF Spec, FailureNeverRaisesTheBest
=============================================================================
