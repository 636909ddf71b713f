---------------------------- MODULE TschQueueProofs ----------------------------
(***************************************************************************)
(* Theorems about TschQueue, for any number of packets and neighbours, any *)
(* size of the rings and any backoff, in a node whose upper layers flush   *)
(* no queue while slots run (FlushesDuringSlot = FALSE).                   *)
(***************************************************************************)
EXTENDS TschQueueProperties, TLAPS

(* Where process context is, for whom, and what that says of the lock and  *)
(* of the neighbours it is going to flush: the one that is being removed   *)
(* has had no packet since it was found unused, and so calls nobody back.  *)
CallerInv ==
  /\ pc = "idle" => caller = "none"
  /\ pc \in {"wait", "locked"} => caller \in {"none", "remove"}
  /\ pc = "wait" => caller = "remove"
  /\ pc \in {"flush", "callback"} => caller # "none"
  /\ tsch_locked <=> pc = "locked"
  /\ pc = "locked" => slot = "sleep"
  /\ caller = "reset" => network = "left"
  /\ caller = "free_packets" => network = "out"
  /\ caller = "remove" =>
       /\ pc # "callback"
       /\ to_flush \subseteq Nbr \ {time_source}
       /\ \A a \in to_flush : queue[a] = <<>>

(* A slot that transmits runs in a network, has room for the packet it may *)
(* take out, and serves no neighbour in backoff.                           *)
SlotInv ==
  /\ slot = "tx" => network = "in" /\ Len(dequeued) < DequeuedCapacity
  /\ SlotHoldsHead
  /\ DequeuedNeverOverflows
  /\ NeverSendsInBackoff
  /\ \A n \in Nbr : backoff_window[n] >= due[n]

IInv == TypeOK /\ CallerInv /\ SlotInv

-----------------------------------------------------------------------------
(* A window that is drawn is a number. *)
LEMMA DrawnIsNat ==
  ASSUME NEW be \in MinBE .. MaxBE, NEW drawn \in 0 .. Pow2[be] - 1
  PROVE  drawn \in Nat
<1>1. MinBE \in Nat /\ MaxBE \in Nat  BY QueueAssumption
<1>2. be \in 0 .. MaxBE  BY <1>1
<1>3. Pow2[be] = 2 ^ be  BY <1>2 DEF Pow2
<1>4. 2 ^ be \in Int  BY <1>1, <1>2, SMT
<1> QED  BY <1>3, <1>4

(* Counting down keeps windows numbers, and in order. *)
LEMMA OneLessType ==
  ASSUME NEW w \in [Nbr -> Nat] PROVE OneLess(w) \in [Nbr -> Nat]
BY DEF OneLess

LEMMA OneLessOrder ==
  ASSUME NEW w \in [Nbr -> Nat], NEW d \in [Nbr -> Nat], NEW n \in Nbr,
         w[n] >= d[n]
  PROVE  OneLess(w)[n] >= OneLess(d)[n] /\ w[n] >= OneLess(d)[n]
BY DEF OneLess

(* The initial states are good ones. *)
LEMMA InitIInv == Init => IInv
<1> SUFFICES ASSUME Init PROVE IInv  OBVIOUS
<1> USE QueueAssumption DEF Init
<1>1. TypeOK
  <2>1. queue \in [Addr -> Seq(Packet)] /\ \A a \in Addr : Len(queue[a]) <= RingCapacity
    BY DEF Addr
  <2>2. backoff_exponent \in [Nbr -> MinBE .. MaxBE]  OBVIOUS
  <2>3. dequeued \in Seq(Packet)  OBVIOUS
  <2> QED  BY <2>1, <2>2, <2>3 DEF TypeOK
<1>2. CallerInv  BY DEF CallerInv
<1>3. SlotInv
  BY DEF SlotInv, SlotHoldsHead, DequeuedNeverOverflows, NeverSendsInBackoff
<1> QED  BY <1>1, <1>2, <1>3 DEF IInv

-----------------------------------------------------------------------------
(* The queue, the count and the ring keep their types when a transmission  *)
(* ends, and so does the backoff of its neighbour.                         *)
LEMMA UpdateBackoffType ==
  ASSUME TypeOK, NEW n \in Addr, NEW ok \in BOOLEAN, UpdateBackoff(n, ok)
  PROVE  /\ backoff_window' \in [Nbr -> Nat]
         /\ backoff_exponent' \in [Nbr -> MinBE .. MaxBE]
         /\ due' \in [Nbr -> Nat]
         /\ network' \in {network, "left"}
<1> USE DEF TypeOK
<1>1. CASE n \notin Nbr
  BY <1>1, OneLessType DEF UpdateBackoff, EndSlot
<1>2. CASE n \in Nbr /\ ok
  <2>1. [backoff_window EXCEPT ![n] = 0] \in [Nbr -> Nat]
    BY <1>2
  <2>2. [OneLess(due) EXCEPT ![n] = 0] \in [Nbr -> Nat]
    BY <1>2, OneLessType
  <2>3. backoff_exponent' = [backoff_exponent EXCEPT ![n] = MinBE]
    BY <1>2 DEF UpdateBackoff
  <2>4. MinBE \in MinBE .. MaxBE
    BY QueueAssumption
  <2>5. backoff_exponent' \in [Nbr -> MinBE .. MaxBE]
    BY <2>3, <2>4
  <2> QED  BY <1>2, <2>1, <2>2, <2>5, OneLessType DEF UpdateBackoff, EndSlot
<1>3. CASE n \in Nbr /\ ~ok
  <2> DEFINE be == IF backoff_exponent[n] < MaxBE
                     THEN backoff_exponent[n] + 1 ELSE MaxBE
  <2>1. be \in MinBE .. MaxBE
    BY <1>3, QueueAssumption
  <2>2. backoff_exponent' = [backoff_exponent EXCEPT ![n] = be]
    BY <1>3 DEF UpdateBackoff
  <2>3. PICK drawn \in 0 .. Pow2[be] - 1 :
          EndSlot([backoff_window EXCEPT ![n] = WindowOf(drawn)],
                  [OneLess(due) EXCEPT ![n] = drawn])
    BY <1>3 DEF UpdateBackoff
  <2>4. drawn \in Nat
    BY <2>1, DrawnIsNat
  <2>5. [backoff_window EXCEPT ![n] = WindowOf(drawn)] \in [Nbr -> Nat]
    BY <1>3, <2>4 DEF WindowOf
  <2>6. [OneLess(due) EXCEPT ![n] = drawn] \in [Nbr -> Nat]
    BY <1>3, <2>4, OneLessType
  <2>7. backoff_exponent' \in [Nbr -> MinBE .. MaxBE]
    BY <2>1, <2>2
  <2> QED  BY <2>3, <2>5, <2>6, <2>7, OneLessType DEF EndSlot
<1> QED  BY <1>1, <1>2, <1>3

LEMMA FinishTxType ==
  ASSUME TypeOK, NEW n \in Addr, NEW p \in Packet, NEW ok \in BOOLEAN,
         FinishTx(n, p, ok)
  PROVE  /\ queue' \in [Addr -> Seq(Packet)]
         /\ \A a \in Addr : Len(queue'[a]) <= RingCapacity
         /\ transmissions' \in [Packet -> Nat]
         /\ dequeued' \in Seq(Packet)
         /\ slot' = "sleep" /\ current_neighbor' = NoNbr /\ current_packet' = NoPacket
         /\ backoff_window' \in [Nbr -> Nat]
         /\ backoff_exponent' \in [Nbr -> MinBE .. MaxBE]
         /\ due' \in [Nbr -> Nat]
         /\ network' \in {network, "left"}
<1>1. WithoutFirst(queue[n]) \in Seq(Packet) /\ Len(WithoutFirst(queue[n])) <= RingCapacity
  <2>1. queue[n] \in Seq(Packet) /\ Len(queue[n]) <= RingCapacity
    BY DEF TypeOK
  <2>2. RingCapacity \in Nat
    BY QueueAssumption
  <2> QED  BY <2>1, <2>2 DEF WithoutFirst
<1>2. queue' \in [Addr -> Seq(Packet)] /\ \A a \in Addr : Len(queue'[a]) <= RingCapacity
  BY <1>1 DEF TypeOK, FinishTx
<1>3. dequeued' \in Seq(Packet)
  <2>1. dequeued' = dequeued \/ dequeued' = Append(dequeued, p)
    BY DEF FinishTx
  <2>2. dequeued \in Seq(Packet)
    BY DEF TypeOK
  <2> QED  BY <2>1, <2>2
<1>4. transmissions' \in [Packet -> Nat]
  BY DEF TypeOK, FinishTx
<1> QED  BY <1>2, <1>3, <1>4, UpdateBackoffType DEF FinishTx

-----------------------------------------------------------------------------
(* What a step does to the table and the backoff of a neighbour that       *)
(* becomes known, and of those a reset goes on with.                       *)
LEMMA BackoffResetType ==
  ASSUME TypeOK, NEW S, BackoffReset(S)
  PROVE  /\ backoff_window' \in [Nbr -> Nat]
         /\ backoff_exponent' \in [Nbr -> MinBE .. MaxBE]
         /\ due' \in [Nbr -> Nat]
         /\ \A n \in Nbr : backoff_window[n] >= due[n]
                             => backoff_window'[n] >= due'[n]
         /\ \A n \in Nbr : due[n] = 0 => due'[n] = 0
<1>1. MinBE \in MinBE .. MaxBE
  BY QueueAssumption
<1> QED  BY <1>1 DEF TypeOK, BackoffReset

LEMMA KnowNbrType ==
  ASSUME TypeOK, NEW a \in Addr, KnowNbr(a)
  PROVE  /\ backoff_window' \in [Nbr -> Nat]
         /\ backoff_exponent' \in [Nbr -> MinBE .. MaxBE]
         /\ due' \in [Nbr -> Nat]
         /\ \A n \in Nbr : backoff_window[n] >= due[n]
                             => backoff_window'[n] >= due'[n]
         /\ \A n \in Nbr : due[n] = 0 => due'[n] = 0
         /\ table \subseteq table' /\ table' \subseteq Nbr
         /\ a \in Nbr => a \in table'
<1>1. CASE a \in Nbr \ table
  BY <1>1, BackoffResetType DEF KnowNbr, TypeOK
<1>2. CASE a \notin Nbr \ table
  BY <1>2 DEF KnowNbr, TypeOK, backoffVars
<1> QED  BY <1>1, <1>2

LEMMA MeetType ==
  ASSUME TypeOK, NEW a \in Addr, Meet(a)
  PROVE  /\ backoff_window' \in [Nbr -> Nat]
         /\ backoff_exponent' \in [Nbr -> MinBE .. MaxBE]
         /\ due' \in [Nbr -> Nat]
         /\ \A n \in Nbr : backoff_window[n] >= due[n]
                             => backoff_window'[n] >= due'[n]
         /\ \A n \in Nbr : due[n] = 0 => due'[n] = 0
         /\ table \subseteq table' /\ table' \subseteq Nbr
         /\ a \in Nbr => a \in table'
         /\ to_flush' \subseteq Addr
<1>1. KnowNbr(a)  BY DEF Meet
<1>2. to_flush' \subseteq Addr  BY DEF Meet, TypeOK, Addr
<1> QED  BY <1>1, <1>2, KnowNbrType

(* Every step keeps the types. *)
LEMMA TypeStep == ASSUME IInv, [Next]_vars PROVE TypeOK'
<1>0. TypeOK /\ CallerInv /\ SlotHoldsHead
  BY DEF IInv, SlotInv
<1> USE <1>0 DEF slotVars, flushVars, backoffVars
<1>1. ASSUME NEW a \in Addr, AddPacket(a) PROVE TypeOK'
  <2> USE <1>1 DEF AddPacket
  <2> DEFINE Added == /\ queue' \in [Addr -> Seq(Packet)]
                      /\ \A b \in Addr : Len(queue'[b]) <= RingCapacity
                      /\ allocated' \subseteq Packet
                      /\ transmissions' \in [Packet -> Nat]
  <2>1. Added
    <3>1. CASE UNCHANGED <<allocated, transmissions, queue>>
      BY <3>1 DEF TypeOK
    <3>2. ASSUME HasRoom(a), NEW p \in Packet \ allocated,
                 allocated' = allocated \cup {p},
                 transmissions' = [transmissions EXCEPT ![p] = 0],
                 queue' = [queue EXCEPT ![a] = Append(@, p)]
          PROVE  Added
      <4>1. queue[a] \in Seq(Packet) /\ Len(queue[a]) < RingCapacity
        BY <3>2 DEF TypeOK, HasRoom
      <4>2. Append(queue[a], p) \in Seq(Packet) /\ Len(Append(queue[a], p)) <= RingCapacity
        BY <4>1, QueueAssumption
      <4> QED  BY <3>2, <4>2 DEF TypeOK
    <3> QED  BY <3>1, <3>2
  <2> QED  BY <2>1, MeetType DEF TypeOK
<1>2. CASE UpdateTimeSource
  <2>1. CASE time_source' = NoNbr /\ UNCHANGED <<table, backoffVars, to_flush>>
    BY <1>2, <2>1 DEF TypeOK, UpdateTimeSource
  <2>2. ASSUME NEW n \in Nbr, time_source' = n, Meet(n) PROVE TypeOK'
    <3>1. n \in Addr  BY DEF Addr
    <3>2. /\ backoff_window' \in [Nbr -> Nat]
          /\ backoff_exponent' \in [Nbr -> MinBE .. MaxBE]
          /\ due' \in [Nbr -> Nat]
          /\ table' \subseteq Nbr /\ n \in table' /\ to_flush' \subseteq Addr
      BY <2>2, <3>1, MeetType
    <3> QED  BY <1>2, <2>2, <3>2 DEF TypeOK, UpdateTimeSource
  <2> QED  BY <1>2, <2>1, <2>2 DEF UpdateTimeSource
<1>3. CASE ReportDequeued
  BY <1>3 DEF TypeOK, ReportDequeued, Free
<1>4. CASE Associate
  BY <1>4 DEF TypeOK, Associate
<1>5. CASE TakeLock \/ ReleaseLock
  BY <1>5 DEF TypeOK, TakeLock, ReleaseLock, Released
<1>6. CASE FindUnused
  BY <1>6 DEF TypeOK, FindUnused, Addr
<1>7. CASE StartReset \/ FreePacketsTo
  BY <1>7 DEF TypeOK, StartReset, FreePacketsTo, StartFlush, Addr
<1>8. CASE FlushPacket
  <2>1. PICK a \in to_flush :
          /\ ~IsEmpty(a)
          /\ IF tsch_locked
               THEN UNCHANGED <<queue, removed, pc>>
               ELSE /\ removed' = Head(queue[a])
                    /\ queue' = [queue EXCEPT ![a] = Tail(@)]
                    /\ pc' = "callback"
    BY <1>8 DEF FlushPacket
  <2>2. a \in Addr /\ queue[a] \in Seq(Packet) /\ Len(queue[a]) <= RingCapacity
    BY DEF TypeOK
  <2>3. CASE tsch_locked
    BY <1>8, <2>1, <2>3 DEF TypeOK, FlushPacket
  <2>4. CASE ~tsch_locked
    <3>1. queue[a] # <<>>
      BY <2>1, <2>4 DEF IsEmpty
    <3>2. /\ Head(queue[a]) \in Packet /\ Tail(queue[a]) \in Seq(Packet)
          /\ Len(Tail(queue[a])) <= RingCapacity
      BY <2>2, <3>1, QueueAssumption
    <3>3. queue' \in [Addr -> Seq(Packet)] /\ \A b \in Addr : Len(queue'[b]) <= RingCapacity
      BY <2>1, <2>2, <2>4, <3>2 DEF TypeOK
    <3> QED  BY <1>8, <2>1, <2>4, <3>2, <3>3 DEF TypeOK, FlushPacket
  <2> QED  BY <2>3, <2>4
<1>9. CASE FinishFlushPacket
  BY <1>9 DEF TypeOK, FinishFlushPacket, ReportFlushed, Free
<1>10. CASE FinishFlushNbr
  <2>1. PICK a \in to_flush :
          /\ to_flush' = to_flush \ {a}
          /\ IF caller = "reset" THEN BackoffReset({a}) ELSE UNCHANGED backoffVars
          /\ table' = IF caller = "remove" THEN table \ {a} ELSE table
    BY <1>10 DEF FinishFlushNbr
  <2>2. /\ backoff_window' \in [Nbr -> Nat]
        /\ backoff_exponent' \in [Nbr -> MinBE .. MaxBE]
        /\ due' \in [Nbr -> Nat]
    BY <2>1, BackoffResetType DEF TypeOK
  <2>3. time_source' \in table' \cup {NoNbr}
    BY <1>10, <2>1 DEF TypeOK, FinishFlushNbr, CallerInv
  <2> QED  BY <1>10, <2>1, <2>2, <2>3 DEF TypeOK, FinishFlushNbr
<1>11. CASE FinishFlush
  BY <1>11 DEF TypeOK, FinishFlush
<1>12. CASE StartTx
  <2>0. \A advertising \in BOOLEAN : \A n \in Servable(advertising) :
          n \in Addr /\ queue[n] # <<>>
    BY DEF Servable, Ready, TypeOK, Addr
  <2>1. PICK n \in Addr :
          /\ queue[n] # <<>>
          /\ LET p == Head(queue[n])
             IN  \/ FinishTx(n, p, FALSE)
                 \/ /\ slot' = "tx" /\ current_neighbor' = n /\ current_packet' = p
                    /\ UNCHANGED <<queue, backoffVars, transmissions, dequeued,
                                   network>>
    BY <1>12, <2>0 DEF StartTx
  <2>2. n \in Addr /\ queue[n] # <<>>
    BY <2>1
  <2>3. Head(queue[n]) \in Packet
    BY <2>2 DEF TypeOK
  <2>4. CASE FinishTx(n, Head(queue[n]), FALSE)
    BY <1>12, <2>2, <2>3, <2>4, FinishTxType DEF StartTx, TypeOK
  <2>5. CASE slot' = "tx"
    BY <1>12, <2>1, <2>2, <2>3, <2>4, <2>5 DEF StartTx, TypeOK
  <2> QED  BY <2>1, <2>4, <2>5
<1>13. CASE EndTx
  <2>1. PICK ok \in BOOLEAN : FinishTx(current_neighbor, current_packet, ok)
    BY <1>13 DEF EndTx
  <2>2. current_neighbor \in Addr /\ current_packet \in Packet
    BY <1>13 DEF EndTx, TypeOK, SlotHoldsHead, Addr
  <2> QED  BY <1>13, <2>1, <2>2, FinishTxType DEF EndTx, TypeOK
<1>14. CASE PassTxLink
  <2>1. OneLess(backoff_window) \in [Nbr -> Nat] /\ OneLess(due) \in [Nbr -> Nat]
    BY OneLessType DEF TypeOK
  <2> QED  BY <1>14, <2>1 DEF TypeOK, PassTxLink, EndSlot
<1>15. CASE UNCHANGED vars
  BY <1>15 DEF TypeOK, vars
<1> QED
  BY <1>1, <1>2, <1>3, <1>4, <1>5, <1>6, <1>7, <1>8, <1>9, <1>10, <1>11, <1>12,
     <1>13, <1>14, <1>15 DEF Next, Flush

-----------------------------------------------------------------------------
(* What the slot needs of the queues: a queue that is not being flushed    *)
(* only grows while it transmits.                                          *)
LEMMA StartTxCases ==
  ASSUME TypeOK, StartTx
  PROVE  \E n \in table \cup {Eb, Broadcast} :
           /\ queue[n] # <<>>
           /\ n \in Nbr => backoff_window[n] = 0
           /\ \/ FinishTx(n, Head(queue[n]), FALSE)
              \/ /\ slot' = "tx" /\ current_neighbor' = n
                 /\ current_packet' = Head(queue[n])
                 /\ UNCHANGED <<queue, backoffVars, transmissions, dequeued,
                                network>>
<1>1. \A advertising \in BOOLEAN : \A n \in Servable(advertising) :
        /\ n \in table \cup {Eb, Broadcast} /\ queue[n] # <<>>
        /\ n \in Nbr => backoff_window[n] = 0
  BY QueueAssumption DEF Servable, Ready, TypeOK
<1> QED  BY <1>1 DEF StartTx

(* A transmission takes from no queue but that of its neighbour, and adds  *)
(* at most one packet to dequeued_ringbuf; the new window covers the links *)
(* that are due.                                                           *)
LEMMA FinishTxEffect ==
  ASSUME TypeOK, NEW n \in Addr, NEW p \in Packet, NEW ok \in BOOLEAN,
         FinishTx(n, p, ok), queue[n] # <<>>
  PROVE  /\ \A a \in Addr : queue[a] = <<>> => queue'[a] = <<>>
         /\ Len(dequeued') <= Len(dequeued) + 1
         /\ slot' = "sleep"
         /\ \A m \in Nbr : backoff_window[m] >= due[m]
                             => backoff_window'[m] >= due'[m]
<1>1. \A a \in Addr : queue[a] = <<>> => queue'[a] = <<>>
  BY DEF FinishTx, TypeOK
<1>2. Len(dequeued') <= Len(dequeued) + 1
  <2>1. dequeued' = dequeued \/ dequeued' = Append(dequeued, p)
    BY DEF FinishTx
  <2> QED  BY <2>1 DEF TypeOK
<1>3. ASSUME NEW m \in Nbr, backoff_window[m] >= due[m]
      PROVE  backoff_window'[m] >= due'[m]
  <2>1. UpdateBackoff(n, ok)
    BY DEF FinishTx
  <2>2. CASE n \notin Nbr
    BY <1>3, <2>1, <2>2, OneLessOrder DEF UpdateBackoff, EndSlot, TypeOK
  <2>3. CASE n \in Nbr /\ ok
    <3> DEFINE w == [backoff_window EXCEPT ![n] = 0]
               d == [OneLess(due) EXCEPT ![n] = 0]
    <3>1. /\ due' = d
          /\ backoff_window' = w \/ backoff_window' = OneLess(w)
      BY <2>1, <2>3 DEF UpdateBackoff, EndSlot
    <3>2. CASE m = n
      BY <2>3, <3>1, <3>2, OneLessType DEF TypeOK, OneLess
    <3>3. CASE m # n
      <4>1. d[m] = OneLess(due)[m] /\ w[m] = backoff_window[m]
        BY <3>3, OneLessType DEF TypeOK
      <4>2. OneLess(w)[m] = OneLess(backoff_window)[m]
        BY <4>1 DEF OneLess
      <4> QED  BY <1>3, <3>1, <4>1, <4>2, OneLessOrder DEF TypeOK
    <3> QED  BY <3>2, <3>3
  <2>4. CASE n \in Nbr /\ ~ok
    <3> DEFINE be == IF backoff_exponent[n] < MaxBE
                       THEN backoff_exponent[n] + 1 ELSE MaxBE
    <3>1. be \in MinBE .. MaxBE
      BY <2>4, QueueAssumption DEF TypeOK
    <3>2. PICK drawn \in 0 .. Pow2[be] - 1 :
            EndSlot([backoff_window EXCEPT ![n] = WindowOf(drawn)],
                    [OneLess(due) EXCEPT ![n] = drawn])
      BY <2>1, <2>4 DEF UpdateBackoff
    <3> DEFINE w == [backoff_window EXCEPT ![n] = drawn + 1]
               d == [OneLess(due) EXCEPT ![n] = drawn]
    <3>3. /\ due' = d
          /\ backoff_window' = w \/ backoff_window' = OneLess(w)
      BY <3>2 DEF EndSlot, WindowOf
    <3>4. drawn \in Nat
      BY <3>1, DrawnIsNat
    <3>5. CASE m = n
      <4>0. OneLess(due) \in [Nbr -> Nat] /\ backoff_window \in [Nbr -> Nat]
        BY OneLessType DEF TypeOK
      <4>1. d[m] = drawn /\ w[m] = drawn + 1
        BY <3>5, <4>0
      <4>2. OneLess(w)[m] = drawn
        BY <3>4, <4>1 DEF OneLess
      <4>3. backoff_window'[m] = drawn + 1 \/ backoff_window'[m] = drawn
        BY <3>3, <4>1, <4>2
      <4>4. due'[m] = drawn
        BY <3>3, <4>1
      <4> QED  BY <3>4, <4>3, <4>4
    <3>6. CASE m # n
      <4>1. d[m] = OneLess(due)[m] /\ w[m] = backoff_window[m]
        BY <3>6, OneLessType DEF TypeOK
      <4>2. OneLess(w)[m] = OneLess(backoff_window)[m]
        BY <4>1 DEF OneLess
      <4> QED  BY <1>3, <3>3, <4>1, <4>2, OneLessOrder DEF TypeOK
    <3> QED  BY <3>5, <3>6
  <2> QED  BY <2>2, <2>3, <2>4
<1> QED  BY <1>1, <1>2, <1>3 DEF FinishTx

(* Every step keeps what process context relies on. *)
LEMMA CallerStep ==
  ASSUME IInv, FlushesDuringSlot = FALSE, [Next]_vars PROVE CallerInv'
<1>0. TypeOK /\ CallerInv /\ SlotInv
  BY DEF IInv
<1> USE <1>0 DEF slotVars, flushVars, backoffVars
<1>1. ASSUME NEW a \in Addr, AddPacket(a) PROVE CallerInv'
  BY <1>1 DEF AddPacket, UpperLayerCalls, CallerInv
<1>2. CASE UpdateTimeSource \/ ReportDequeued \/ Associate
  BY <1>2 DEF CallerInv, UpdateTimeSource, UpperLayerCalls, ReportDequeued,
              Associate
<1>3. CASE TakeLock \/ ReleaseLock
  BY <1>3 DEF CallerInv, TakeLock, ReleaseLock, Released
<1>4. CASE FindUnused
  BY <1>4 DEF CallerInv, FindUnused, Unused, TypeOK
<1>5. CASE StartReset \/ FreePacketsTo
  BY <1>5, FlushesDuringSlot = FALSE
     DEF CallerInv, StartReset, FreePacketsTo, StartFlush
<1>6. CASE FlushPacket
  BY <1>6 DEF CallerInv, FlushPacket, IsEmpty
<1>7. CASE FinishFlushPacket
  BY <1>7 DEF CallerInv, FinishFlushPacket
<1>8. CASE FinishFlushNbr
  BY <1>8 DEF CallerInv, FinishFlushNbr
<1>9. CASE FinishFlush
  BY <1>9 DEF CallerInv, FinishFlush
<1>10. CASE StartTx
  <2>1. PICK n \in table \cup {Eb, Broadcast} :
           /\ queue[n] # <<>>
           /\ \/ FinishTx(n, Head(queue[n]), FALSE)
              \/ slot' = "tx" /\ UNCHANGED <<queue, network>>
    BY <1>10, StartTxCases
  <2>2. n \in Addr /\ Head(queue[n]) \in Packet
    BY <2>1 DEF TypeOK, Addr
  <2>3. CASE FinishTx(n, Head(queue[n]), FALSE)
    <3>1. \A a \in Addr : queue[a] = <<>> => queue'[a] = <<>>
      BY <2>1, <2>2, <2>3, FinishTxEffect
    <3>2. slot' = "sleep"
      BY <2>3 DEF FinishTx
    <3>3. \A a \in to_flush : a \in Addr
      BY DEF TypeOK
    <3> QED  BY <1>10, <3>1, <3>2, <3>3 DEF StartTx, CallerInv
  <2>4. CASE slot' = "tx" /\ UNCHANGED <<queue, network>>
    BY <1>10, <2>4 DEF StartTx, CallerInv
  <2> QED  BY <2>1, <2>3, <2>4
<1>11. CASE EndTx
  <2>1. PICK ok \in BOOLEAN : FinishTx(current_neighbor, current_packet, ok)
    BY <1>11 DEF EndTx
  <2>2. /\ current_neighbor \in Addr /\ current_packet \in Packet
        /\ queue[current_neighbor] # <<>> /\ network = "in"
    BY <1>11 DEF EndTx, TypeOK, SlotInv, SlotHoldsHead, Addr
  <2>3. \A a \in Addr : queue[a] = <<>> => queue'[a] = <<>>
    BY <2>1, <2>2, FinishTxEffect
  <2>4. \A a \in to_flush : a \in Addr
    BY DEF TypeOK
  <2>5. slot' = "sleep"
    BY <2>1 DEF FinishTx
  <2> QED  BY <1>11, <2>2, <2>3, <2>4, <2>5 DEF EndTx, CallerInv
<1>12. CASE PassTxLink
  BY <1>12 DEF CallerInv, PassTxLink, EndSlot
<1>13. CASE UNCHANGED vars
  BY <1>13 DEF CallerInv, vars
<1> QED
  BY <1>1, <1>2, <1>3, <1>4, <1>5, <1>6, <1>7, <1>8, <1>9, <1>10, <1>11, <1>12,
     <1>13 DEF Next, Flush

(* Every step keeps what the slot relies on. *)
LEMMA SlotStep ==
  ASSUME IInv, FlushesDuringSlot = FALSE, [Next]_vars PROVE SlotInv'
<1>0. TypeOK /\ CallerInv /\ SlotInv
  BY DEF IInv
<1> USE <1>0 DEF slotVars, flushVars, backoffVars
<1> USE DEF SlotInv, SlotHoldsHead, DequeuedNeverOverflows, NeverSendsInBackoff
<1>1. ASSUME NEW a \in Addr, AddPacket(a) PROVE SlotInv'
  <2>1. /\ \A n \in Nbr : backoff_window[n] >= due[n]
                         => backoff_window'[n] >= due'[n]
        /\ \A n \in Nbr : due[n] = 0 => due'[n] = 0
        /\ table \subseteq table'
    BY <1>1, MeetType DEF AddPacket
  <2>2. \A b \in Addr : queue[b] # <<>> =>
          queue'[b] # <<>> /\ Head(queue'[b]) = Head(queue[b])
    <3>1. CASE UNCHANGED queue
      BY <3>1
    <3>2. ASSUME NEW p \in Packet, queue' = [queue EXCEPT ![a] = Append(@, p)]
          PROVE  \A b \in Addr : queue[b] # <<>> =>
                   queue'[b] # <<>> /\ Head(queue'[b]) = Head(queue[b])
      <4>1. queue[a] \in Seq(Packet) /\ queue \in [Addr -> Seq(Packet)]
        BY DEF TypeOK
      <4>2. queue[a] # <<>> =>
              Append(queue[a], p) # <<>> /\ Head(Append(queue[a], p)) = Head(queue[a])
        BY <4>1
      <4> QED  BY <3>2, <4>1, <4>2
    <3> QED  BY <1>1, <3>1, <3>2 DEF AddPacket
  <2>3. slot = "tx" => current_neighbor \in Addr
    BY DEF TypeOK, Addr
  <2> QED  BY <1>1, <2>1, <2>2, <2>3 DEF AddPacket
<1>2. CASE UpdateTimeSource
  <2>1. ASSUME NEW n \in Nbr, Meet(n)
        PROVE  /\ \A m \in Nbr : backoff_window[m] >= due[m]
                                => backoff_window'[m] >= due'[m]
               /\ \A m \in Nbr : due[m] = 0 => due'[m] = 0
               /\ table \subseteq table'
    BY <2>1, MeetType DEF Addr
  <2>2. /\ \A m \in Nbr : backoff_window[m] >= due[m]
                          => backoff_window'[m] >= due'[m]
        /\ \A m \in Nbr : due[m] = 0 => due'[m] = 0
        /\ table \subseteq table'
    BY <1>2, <2>1 DEF UpdateTimeSource
  <2> QED  BY <1>2, <2>2 DEF UpdateTimeSource
<1>3. CASE ReportDequeued
  <2>1. Len(dequeued') < Len(dequeued) /\ Len(dequeued) \in Nat /\ Len(dequeued') \in Nat
    BY <1>3 DEF ReportDequeued, TypeOK
  <2> QED  BY <1>3, <2>1, QueueAssumption DEF ReportDequeued
<1>4. CASE Associate
  BY <1>4 DEF Associate
<1>5. CASE TakeLock \/ ReleaseLock \/ FindUnused
  BY <1>5 DEF TakeLock, ReleaseLock, FindUnused
<1>6. CASE StartReset \/ FreePacketsTo
  BY <1>6 DEF StartReset, FreePacketsTo, StartFlush
<1>7. CASE FlushPacket
  <2>1. slot # "tx"
    BY <1>7 DEF FlushPacket, CallerInv, IsEmpty, TypeOK
  <2> QED  BY <1>7, <2>1 DEF FlushPacket
<1>8. CASE FinishFlushPacket \/ FinishFlush
  BY <1>8 DEF FinishFlushPacket, FinishFlush, CallerInv
<1>9. CASE FinishFlushNbr
  <2>1. PICK a \in to_flush :
          /\ queue[a] = <<>>
          /\ IF caller = "reset" THEN BackoffReset({a}) ELSE UNCHANGED backoffVars
          /\ table' = IF caller = "remove" THEN table \ {a} ELSE table
    BY <1>9 DEF FinishFlushNbr, IsEmpty
  <2>2. \A n \in Nbr : backoff_window[n] >= due[n]
                        => backoff_window'[n] >= due'[n]
    BY <2>1, BackoffResetType
  <2>3. slot = "tx" => caller # "reset"
    BY DEF CallerInv
  <2>4. slot = "tx" => current_neighbor # a
    BY <2>1
  <2> QED  BY <1>9, <2>1, <2>2, <2>3, <2>4 DEF FinishFlushNbr
<1>10. CASE StartTx
  <2>1. PICK n \in table \cup {Eb, Broadcast} :
           /\ queue[n] # <<>>
           /\ n \in Nbr => backoff_window[n] = 0
           /\ \/ FinishTx(n, Head(queue[n]), FALSE)
              \/ /\ slot' = "tx" /\ current_neighbor' = n
                 /\ current_packet' = Head(queue[n])
                 /\ UNCHANGED <<queue, backoffVars, transmissions, dequeued,
                                network>>
    BY <1>10, StartTxCases
  <2>2. n \in Addr /\ Head(queue[n]) \in Packet
    BY <2>1 DEF TypeOK, Addr
  <2>3. Len(dequeued) < DequeuedCapacity /\ Len(dequeued) \in Nat /\ DequeuedCapacity \in Nat
    BY <1>10, QueueAssumption DEF StartTx, RoomAhead, TypeOK
  <2>4. CASE FinishTx(n, Head(queue[n]), FALSE)
    <3>1. /\ Len(dequeued') <= Len(dequeued) + 1
          /\ slot' = "sleep"
          /\ \A m \in Nbr : backoff_window[m] >= due[m]
                              => backoff_window'[m] >= due'[m]
      BY <2>1, <2>2, <2>4, FinishTxEffect
    <3>2. dequeued' \in Seq(Packet)
      BY <2>2, <2>4, FinishTxType
    <3> QED  BY <2>3, <3>1, <3>2
  <2>5. CASE slot' = "tx" /\ ~FinishTx(n, Head(queue[n]), FALSE)
    <3>1. n \in Nbr => due[n] = 0
      BY <2>1 DEF TypeOK
    <3> QED  BY <1>10, <2>1, <2>3, <2>5, <3>1 DEF StartTx
  <2> QED  BY <2>1, <2>4, <2>5
<1>11. CASE EndTx
  <2>1. PICK ok \in BOOLEAN : FinishTx(current_neighbor, current_packet, ok)
    BY <1>11 DEF EndTx
  <2>2. /\ current_neighbor \in Addr /\ current_packet \in Packet
        /\ queue[current_neighbor] # <<>> /\ Len(dequeued) < DequeuedCapacity
    BY <1>11 DEF EndTx, TypeOK, Addr
  <2>3. /\ Len(dequeued') <= Len(dequeued) + 1
        /\ slot' = "sleep"
        /\ \A m \in Nbr : backoff_window[m] >= due[m]
                            => backoff_window'[m] >= due'[m]
    BY <2>1, <2>2, FinishTxEffect
  <2>4. dequeued' \in Seq(Packet) /\ Len(dequeued) \in Nat /\ DequeuedCapacity \in Nat
    BY <2>1, <2>2, FinishTxType, QueueAssumption DEF TypeOK
  <2> QED  BY <2>2, <2>3, <2>4
<1>12. CASE PassTxLink
  <2>1. \A n \in Nbr : backoff_window'[n] >= due'[n]
    BY <1>12, OneLessOrder DEF PassTxLink, EndSlot, TypeOK
  <2> QED  BY <1>12, <2>1 DEF PassTxLink
<1>13. CASE UNCHANGED vars
  BY <1>13 DEF vars
<1> QED
  BY <1>1, <1>2, <1>3, <1>4, <1>5, <1>6, <1>7, <1>8, <1>9, <1>10, <1>11, <1>12,
     <1>13 DEF Next, Flush

(* The invariant of the queues. *)
THEOREM Invariance == FlushesDuringSlot = FALSE => (Spec => []IInv)
<1> SUFFICES ASSUME FlushesDuringSlot = FALSE PROVE Spec => []IInv
  OBVIOUS
<1>1. IInv /\ [Next]_vars => IInv'
  BY TypeStep, CallerStep, SlotStep DEF IInv
<1> QED  BY <1>1, InitIInv, PTL DEF Spec

(* Every variable of the queues keeps its type, and no ring overflows. *)
THEOREM TypeCorrect == FlushesDuringSlot = FALSE => (Spec => []TypeOK)
BY Invariance, PTL DEF IInv

(* The pointers of a Tx slot stay valid over its yields. *)
THEOREM SlotPointersValid == FlushesDuringSlot = FALSE => (Spec => []SlotHoldsHead)
BY Invariance, PTL DEF IInv, SlotInv

(* The place in dequeued_ringbuf that was found before a yield is there    *)
(* after it.                                                               *)
THEOREM DequeuedHasRoom ==
  FlushesDuringSlot = FALSE => (Spec => []DequeuedNeverOverflows)
BY Invariance, PTL DEF IInv, SlotInv

(* The backoff counts every link it has to. *)
THEOREM BackoffRespected ==
  FlushesDuringSlot = FALSE => (Spec => []NeverSendsInBackoff)
BY Invariance, PTL DEF IInv, SlotInv

(* The answer of tsch_queue_packet_sent is true. *)
THEOREM PacketSentIsRight ==
  FlushesDuringSlot = FALSE => (Spec => PacketSentTellsTheTruth)
<1> SUFFICES ASSUME FlushesDuringSlot = FALSE
             PROVE  Spec => PacketSentTellsTheTruth
  OBVIOUS
<1>1. ASSUME IInv, EndTx
      PROVE  IF dequeued' = dequeued
               THEN current_packet \in Range(queue'[current_neighbor])
               ELSE /\ queue[current_neighbor] # <<>>
                    /\ Head(queue[current_neighbor]) = current_packet
  <2>1. /\ TypeOK /\ current_neighbor \in Addr
        /\ queue[current_neighbor] # <<>>
        /\ Head(queue[current_neighbor]) = current_packet
    BY <1>1 DEF IInv, SlotInv, SlotHoldsHead, EndTx, TypeOK, Addr
  <2>2. PICK ok \in BOOLEAN : FinishTx(current_neighbor, current_packet, ok)
    BY <1>1 DEF EndTx
  <2>3. dequeued' = dequeued => queue' = queue
    <3>1. \/ UNCHANGED <<queue, dequeued>>
          \/ dequeued' = Append(dequeued, current_packet)
      BY <2>2 DEF FinishTx
    <3>2. dequeued \in Seq(Packet)
      BY <2>1 DEF TypeOK
    <3>3. Append(dequeued, current_packet) # dequeued
      <4>1. Len(Append(dequeued, current_packet)) = Len(dequeued) + 1
        BY <3>2
      <4>2. Len(dequeued) \in Nat
        BY <3>2
      <4> QED  BY <4>1, <4>2
    <3> QED  BY <3>1, <3>3
  <2>4. queue[current_neighbor] \in Seq(Packet)
    BY <2>1 DEF TypeOK
  <2>5. current_packet = queue[current_neighbor][1] /\ 1 \in DOMAIN queue[current_neighbor]
    BY <2>1, <2>4
  <2> QED  BY <2>1, <2>3, <2>5 DEF Range
<1>2. IInv /\ [Next]_vars =>
        [EndTx =>
           IF dequeued' = dequeued
             THEN current_packet \in Range(queue'[current_neighbor])
             ELSE /\ queue[current_neighbor] # <<>>
                  /\ Head(queue[current_neighbor]) = current_packet]_vars
  BY <1>1
<1>3. Spec => []IInv
  BY Invariance
<1> QED  BY <1>2, <1>3, PTL DEF Spec, PacketSentTellsTheTruth

-----------------------------------------------------------------------------
(* Every packet has one place.                                             *)

(* Taking the first element out of a sequence without repetition. *)
LEMMA TailRange ==
  ASSUME NEW S, NEW s \in Seq(S), s # <<>>, IsInjective(s)
  PROVE  /\ Head(s) \in Range(s)
         /\ IsInjective(Tail(s))
         /\ Range(Tail(s)) = Range(s) \ {Head(s)}
<1>1. Len(s) \in Nat \ {0} /\ Head(s) = s[1] /\ DOMAIN s = 1 .. Len(s)
  OBVIOUS
<1>2. DOMAIN Tail(s) = 1 .. (Len(s) - 1) /\ \A i \in DOMAIN Tail(s) : Tail(s)[i] = s[i + 1]
  BY <1>1
<1>3. IsInjective(Tail(s))
  BY <1>1, <1>2 DEF IsInjective
<1>4. Head(s) \in Range(s)
  BY <1>1 DEF Range
<1>5. ASSUME NEW x \in Range(Tail(s)) PROVE x \in Range(s) \ {Head(s)}
  <2>1. PICK i \in DOMAIN Tail(s) : x = s[i + 1]
    BY <1>2 DEF Range
  <2>2. i + 1 \in DOMAIN s /\ 1 \in DOMAIN s /\ i + 1 # 1
    BY <1>1, <1>2
  <2> QED  BY <1>1, <2>1, <2>2 DEF Range, IsInjective
<1>6. ASSUME NEW x \in Range(s) \ {Head(s)} PROVE x \in Range(Tail(s))
  <2>1. PICK i \in DOMAIN s : x = s[i] /\ i # 1
    BY <1>1 DEF Range
  <2>2. i - 1 \in DOMAIN Tail(s) /\ Tail(s)[i - 1] = x
    BY <1>1, <1>2, <2>1
  <2> QED  BY <2>2 DEF Range
<1> QED  BY <1>3, <1>4, <1>5, <1>6

(* Adding a new element at the end of one. *)
LEMMA AppendRange ==
  ASSUME NEW S, NEW s \in Seq(S), NEW p \in S
  PROVE  /\ Range(Append(s, p)) = Range(s) \cup {p}
         /\ IsInjective(s) /\ p \notin Range(s) => IsInjective(Append(s, p))
<1>1. /\ Len(s) \in Nat /\ DOMAIN s = 1 .. Len(s)
      /\ DOMAIN Append(s, p) = 1 .. (Len(s) + 1)
      /\ \A i \in DOMAIN s : Append(s, p)[i] = s[i]
      /\ Append(s, p)[Len(s) + 1] = p
  OBVIOUS
<1>2. ASSUME NEW x \in Range(Append(s, p)) PROVE x \in Range(s) \cup {p}
  <2>1. PICK i \in DOMAIN Append(s, p) : x = Append(s, p)[i]
    BY DEF Range
  <2>2. i \in DOMAIN s \/ i = Len(s) + 1
    BY <1>1
  <2> QED  BY <1>1, <2>1, <2>2 DEF Range
<1>3. ASSUME NEW x \in Range(s) \cup {p} PROVE x \in Range(Append(s, p))
  <2>1. Len(s) + 1 \in DOMAIN Append(s, p) /\ DOMAIN s \subseteq DOMAIN Append(s, p)
    BY <1>1
  <2>2. CASE x = p
    BY <1>1, <2>1, <2>2 DEF Range
  <2>3. CASE x \in Range(s)
    <3>1. PICK i \in DOMAIN s : x = s[i]
      BY <2>3 DEF Range
    <3> QED  BY <1>1, <2>1, <3>1 DEF Range
  <2> QED  BY <2>2, <2>3
<1>4. ASSUME IsInjective(s), p \notin Range(s) PROVE IsInjective(Append(s, p))
  <2>1. SUFFICES ASSUME NEW i \in DOMAIN Append(s, p), NEW j \in DOMAIN Append(s, p),
                        Append(s, p)[i] = Append(s, p)[j]
                 PROVE  i = j
    BY DEF IsInjective
  <2>2. (i \in DOMAIN s \/ i = Len(s) + 1) /\ (j \in DOMAIN s \/ j = Len(s) + 1)
    BY <1>1
  <2>3. \A k \in DOMAIN s : s[k] # p
    BY <1>4 DEF Range
  <2> QED  BY <1>1, <1>4, <2>1, <2>2, <2>3 DEF IsInjective
<1> QED  BY <1>2, <1>3, <1>4

(* The part of PacketHasOnePlace that is about the queues. *)
QueuesApart ==
  /\ \A a \in Addr : IsInjective(queue[a])
  /\ \A a, b \in Addr : a # b => Range(queue[a]) \cap Range(queue[b]) = {}

(* The first packet leaves the queue of n, and with it all queues. *)
LEMMA QueueTail ==
  ASSUME TypeOK, QueuesApart, NEW n \in Addr, queue[n] # <<>>,
         queue' = [queue EXCEPT ![n] = Tail(@)]
  PROVE  /\ QueuesApart'
         /\ Head(queue[n]) \in InQueues
         /\ InQueues' = InQueues \ {Head(queue[n])}
<1>1. queue[n] \in Seq(Packet)
  BY DEF TypeOK
<1>2. /\ Head(queue[n]) \in Range(queue[n])
      /\ IsInjective(Tail(queue[n]))
      /\ Range(Tail(queue[n])) = Range(queue[n]) \ {Head(queue[n])}
  BY <1>1, TailRange DEF QueuesApart
<1>3. /\ queue'[n] = Tail(queue[n])
      /\ \A a \in Addr : a # n => queue'[a] = queue[a]
  BY DEF TypeOK
<1>4. \A a \in Addr : Range(queue'[a]) = Range(queue[a]) \ {Head(queue[n])}
  BY <1>2, <1>3 DEF QueuesApart
<1>5. \A a \in Addr : IsInjective(queue'[a])
  BY <1>2, <1>3 DEF QueuesApart
<1>6. QueuesApart'
  BY <1>4, <1>5 DEF QueuesApart
<1> QED  BY <1>2, <1>4, <1>6 DEF InQueues

(* A packet that is in no queue enters one. *)
LEMMA QueueAppend ==
  ASSUME TypeOK, QueuesApart, NEW n \in Addr, NEW p \in Packet, p \notin InQueues,
         queue' = [queue EXCEPT ![n] = Append(@, p)]
  PROVE  QueuesApart' /\ InQueues' = InQueues \cup {p}
<1>1. queue[n] \in Seq(Packet)
  BY DEF TypeOK
<1>2. \A a \in Addr : p \notin Range(queue[a])
  BY DEF InQueues
<1>3. /\ IsInjective(Append(queue[n], p))
      /\ Range(Append(queue[n], p)) = Range(queue[n]) \cup {p}
  BY <1>1, <1>2, AppendRange DEF QueuesApart
<1>4. /\ queue'[n] = Append(queue[n], p)
      /\ \A a \in Addr : a # n => queue'[a] = queue[a]
  BY DEF TypeOK
<1>5. /\ Range(queue'[n]) = Range(queue[n]) \cup {p}
      /\ \A a \in Addr : a # n => Range(queue'[a]) = Range(queue[a])
  BY <1>3, <1>4
<1>6. \A a \in Addr : IsInjective(queue'[a])
  BY <1>3, <1>4 DEF QueuesApart
<1>7. QueuesApart'
  BY <1>2, <1>5, <1>6 DEF QueuesApart
<1> QED  BY <1>5, <1>7 DEF InQueues

(* Outside its callback no flush has a packet. *)
PlaceInv ==
  /\ PacketHasOnePlace
  /\ pc = "callback" <=> removed # NoPacket

LEMMA OnePlaceParts ==
  PacketHasOnePlace <=>
    /\ QueuesApart /\ IsInjective(dequeued)
    /\ allocated = InQueues \cup Dequeued \cup Flushing
    /\ InQueues \cap Dequeued = {}
    /\ Flushing \cap (InQueues \cup Dequeued) = {}
BY DEF PacketHasOnePlace, QueuesApart

(* A transmission moves its packet from the queue to dequeued_ringbuf, or  *)
(* moves nothing.                                                          *)
LEMMA FinishTxMoves ==
  ASSUME TypeOK, PacketHasOnePlace, NEW n \in Addr, NEW p \in Packet,
         queue[n] # <<>>, p = Head(queue[n]), NEW ok \in BOOLEAN, FinishTx(n, p, ok),
         UNCHANGED <<allocated, removed>>
  PROVE  /\ p \in InQueues
         /\ Flushing' = Flushing /\ QueuesApart' /\ IsInjective(dequeued')
         /\ \/ /\ InQueues' = InQueues \ {p}
               /\ Dequeued' = Dequeued \cup {p}
            \/ /\ InQueues' = InQueues /\ Dequeued' = Dequeued
               /\ ~LastAttempt(p)
<1>1. /\ QueuesApart /\ IsInjective(dequeued)
      /\ InQueues \cap Dequeued = {}
  BY OnePlaceParts
<1>2. p \in InQueues /\ dequeued \in Seq(Packet)
  <2>1. Head(queue[n]) \in Range(queue[n])
    BY <1>1, TailRange DEF TypeOK, QueuesApart
  <2> QED  BY <2>1 DEF InQueues, TypeOK
<1>3. Flushing' = Flushing
  BY DEF Flushing
<1>4. CASE TakenOut(p, ok)
  <2>1. /\ queue' = [queue EXCEPT ![n] = WithoutFirst(@)]
        /\ dequeued' = Append(dequeued, p)
    BY <1>4 DEF FinishTx
  <2>2. queue' = [queue EXCEPT ![n] = Tail(@)]
    BY <2>1 DEF WithoutFirst
  <2>3. QueuesApart' /\ InQueues' = InQueues \ {p}
    BY <1>1, <2>2, QueueTail
  <2>4. Dequeued' = Dequeued \cup {p} /\ IsInjective(dequeued')
    <3>1. p \notin Range(dequeued)
      BY <1>1, <1>2 DEF Dequeued
    <3> QED  BY <1>1, <1>2, <2>1, <3>1, AppendRange DEF Dequeued
  <2> QED  BY <1>2, <1>3, <2>3, <2>4
<1>5. CASE ~TakenOut(p, ok)
  <2>1. UNCHANGED <<queue, dequeued>>
    BY <1>5 DEF FinishTx
  <2>2. ~LastAttempt(p)
    BY <1>5 DEF TakenOut
  <2> QED  BY <1>1, <1>2, <1>3, <2>1, <2>2 DEF InQueues, Dequeued, QueuesApart
<1> QED  BY <1>4, <1>5

LEMMA FinishTxPlace ==
  ASSUME TypeOK, PacketHasOnePlace, NEW n \in Addr, queue[n] # <<>>,
         NEW ok \in BOOLEAN, FinishTx(n, Head(queue[n]), ok),
         UNCHANGED <<allocated, removed>>
  PROVE  PacketHasOnePlace'
<1> DEFINE p == Head(queue[n])
<1>1. p \in Packet
  BY DEF TypeOK
<1>2. /\ p \in InQueues
      /\ Flushing' = Flushing /\ QueuesApart' /\ IsInjective(dequeued')
      /\ \/ InQueues' = InQueues \ {p} /\ Dequeued' = Dequeued \cup {p}
         \/ InQueues' = InQueues /\ Dequeued' = Dequeued
  BY <1>1, FinishTxMoves
<1>3. /\ allocated = InQueues \cup Dequeued \cup Flushing
      /\ InQueues \cap Dequeued = {}
      /\ Flushing \cap (InQueues \cup Dequeued) = {}
  BY OnePlaceParts
<1>4. /\ allocated' = InQueues' \cup Dequeued' \cup Flushing'
      /\ InQueues' \cap Dequeued' = {}
      /\ Flushing' \cap (InQueues' \cup Dequeued') = {}
  BY <1>2, <1>3
<1> QED  BY <1>2, <1>4 DEF PacketHasOnePlace, QueuesApart

(* Every step keeps every packet in one place. *)
LEMMA PlaceStep == ASSUME IInv, PlaceInv, [Next]_vars PROVE PlaceInv'
<1>0. /\ TypeOK /\ CallerInv /\ SlotInv /\ PacketHasOnePlace
      /\ pc = "callback" <=> removed # NoPacket
      /\ QueuesApart /\ IsInjective(dequeued)
      /\ allocated = InQueues \cup Dequeued \cup Flushing
      /\ InQueues \cap Dequeued = {}
      /\ Flushing \cap (InQueues \cup Dequeued) = {}
  BY OnePlaceParts DEF IInv, PlaceInv
<1> USE DEF slotVars, flushVars, backoffVars
<1>1. ASSUME UNCHANGED <<queue, dequeued, removed, allocated>>,
             (pc = "callback") <=> (pc' = "callback")
      PROVE  PlaceInv'
  BY <1>0, <1>1 DEF PlaceInv, PacketHasOnePlace, InQueues, Dequeued, Flushing
<1>2. ASSUME NEW a \in Addr, AddPacket(a) PROVE PlaceInv'
  <2>1. CASE UNCHANGED <<allocated, transmissions, queue>>
    BY <1>1, <1>2, <2>1 DEF AddPacket
  <2>2. ASSUME NEW p \in Packet \ allocated, allocated' = allocated \cup {p},
               queue' = [queue EXCEPT ![a] = Append(@, p)]
        PROVE  PlaceInv'
    <3>1. p \notin InQueues /\ p \notin Dequeued /\ p \notin Flushing
      BY <1>0
    <3>2. QueuesApart' /\ InQueues' = InQueues \cup {p}
      BY <1>0, <2>2, <3>1, QueueAppend
    <3>3. /\ dequeued' = dequeued /\ removed' = removed /\ pc' = pc
      BY <1>2 DEF AddPacket
    <3>4. Dequeued' = Dequeued /\ Flushing' = Flushing /\ IsInjective(dequeued')
      BY <1>0, <3>3 DEF Dequeued, Flushing
    <3> QED  BY <1>0, <2>2, <3>1, <3>2, <3>3, <3>4
                DEF PlaceInv, PacketHasOnePlace, QueuesApart
  <2> QED  BY <1>2, <2>1, <2>2 DEF AddPacket
<1>3. CASE UpdateTimeSource \/ Associate
  BY <1>1, <1>3 DEF UpdateTimeSource, Associate
<1>4. CASE ReportDequeued
  <2>1. /\ dequeued # <<>> /\ dequeued' = Tail(dequeued)
        /\ allocated' = allocated \ {Head(dequeued)}
        /\ UNCHANGED <<queue, removed, pc>>
    BY <1>4 DEF ReportDequeued, Free
  <2>2. /\ Head(dequeued) \in Dequeued /\ IsInjective(dequeued')
        /\ Dequeued' = Dequeued \ {Head(dequeued)}
    BY <1>0, <2>1, TailRange DEF Dequeued, TypeOK
  <2>3. InQueues' = InQueues /\ Flushing' = Flushing /\ QueuesApart'
    BY <1>0, <2>1 DEF InQueues, Flushing, QueuesApart
  <2> QED  BY <1>0, <2>1, <2>2, <2>3 DEF PlaceInv, PacketHasOnePlace, QueuesApart
<1>5. CASE TakeLock \/ ReleaseLock \/ FindUnused
  BY <1>1, <1>5 DEF TakeLock, ReleaseLock, FindUnused
<1>6. CASE StartReset \/ FreePacketsTo
  BY <1>1, <1>6 DEF StartReset, FreePacketsTo, StartFlush
<1>7. CASE FlushPacket
  <2>1. ~tsch_locked /\ removed = NoPacket
    BY <1>0, <1>7 DEF FlushPacket, CallerInv
  <2>2. PICK a \in to_flush :
          /\ queue[a] # <<>> /\ removed' = Head(queue[a]) /\ pc' = "callback"
          /\ queue' = [queue EXCEPT ![a] = Tail(@)]
    BY <1>7, <2>1 DEF FlushPacket, IsEmpty
  <2>3. a \in Addr /\ Head(queue[a]) \in Packet
    BY <1>0, <2>2 DEF TypeOK
  <2>4. /\ QueuesApart' /\ Head(queue[a]) \in InQueues
        /\ InQueues' = InQueues \ {Head(queue[a])}
    BY <1>0, <2>2, <2>3, QueueTail
  <2>5. removed' # NoPacket /\ Flushing = {} /\ Flushing' = {Head(queue[a])}
    BY <2>1, <2>2, <2>3, QueueAssumption DEF Flushing
  <2>6. Dequeued' = Dequeued /\ dequeued' = dequeued /\ allocated' = allocated
    BY <1>7 DEF FlushPacket, Dequeued
  <2> QED  BY <1>0, <2>2, <2>4, <2>5, <2>6 DEF PlaceInv, PacketHasOnePlace, QueuesApart
<1>8. CASE FinishFlushPacket
  <2>1. /\ allocated' = allocated \ {removed} /\ removed' = NoPacket
        /\ pc = "callback" /\ pc' = "flush" /\ UNCHANGED <<queue, dequeued>>
    BY <1>8 DEF FinishFlushPacket, ReportFlushed, Free
  <2>2. Flushing = {removed} /\ Flushing' = {}
    BY <1>0, <2>1 DEF Flushing
  <2>3. InQueues' = InQueues /\ Dequeued' = Dequeued /\ QueuesApart'
    BY <1>0, <2>1 DEF InQueues, Dequeued, QueuesApart
  <2> QED  BY <1>0, <2>1, <2>2, <2>3 DEF PlaceInv, PacketHasOnePlace, QueuesApart
<1>9. CASE FinishFlushNbr \/ FinishFlush
  BY <1>1, <1>9 DEF FinishFlushNbr, FinishFlush
<1>10. ASSUME NEW n \in Addr, queue[n] # <<>>, NEW ok \in BOOLEAN,
              FinishTx(n, Head(queue[n]), ok), UNCHANGED <<allocated, removed, pc>>
       PROVE  PlaceInv'
  BY <1>0, <1>10, FinishTxPlace DEF PlaceInv
<1>11. CASE StartTx
  <2>1. PICK n \in table \cup {Eb, Broadcast} :
           /\ queue[n] # <<>>
           /\ \/ FinishTx(n, Head(queue[n]), FALSE)
              \/ UNCHANGED <<queue, dequeued>>
    BY <1>0, <1>11, StartTxCases
  <2>2. n \in Addr
    BY <1>0, <2>1 DEF TypeOK, Addr
  <2>3. CASE FinishTx(n, Head(queue[n]), FALSE)
    BY <1>10, <1>11, <2>1, <2>2, <2>3 DEF StartTx
  <2>4. CASE UNCHANGED <<queue, dequeued>>
    BY <1>0, <1>11, <2>4
       DEF StartTx, PlaceInv, PacketHasOnePlace, InQueues, Dequeued, Flushing
  <2> QED  BY <2>1, <2>3, <2>4
<1>12. CASE EndTx
  <2>1. PICK ok \in BOOLEAN : FinishTx(current_neighbor, current_packet, ok)
    BY <1>12 DEF EndTx
  <2>2. /\ current_neighbor \in Addr /\ queue[current_neighbor] # <<>>
        /\ current_packet = Head(queue[current_neighbor])
    BY <1>0, <1>12 DEF EndTx, TypeOK, Addr, SlotInv, SlotHoldsHead
  <2> QED  BY <1>10, <1>12, <2>1, <2>2 DEF EndTx
<1>13. CASE PassTxLink \/ UNCHANGED vars
  BY <1>0, <1>13 DEF PassTxLink, vars, PlaceInv, PacketHasOnePlace, InQueues,
                     Dequeued, Flushing
<1> QED
  BY <1>2, <1>3, <1>4, <1>5, <1>6, <1>7, <1>8, <1>9, <1>11, <1>12, <1>13
     DEF Next, Flush

LEMMA InitPlace == Init => PlaceInv
<1> SUFFICES ASSUME Init PROVE PlaceInv  OBVIOUS
<1>1. \A a \in Addr : IsInjective(queue[a]) /\ Range(queue[a]) = {}
  BY DEF Init, IsInjective, Range
<1>2. IsInjective(dequeued) /\ Range(dequeued) = {}
  BY DEF Init, IsInjective, Range
<1> QED  BY <1>1, <1>2 DEF Init, PlaceInv, PacketHasOnePlace, InQueues, Dequeued, Flushing

(* No packet is leaked, freed twice or in two places. *)
THEOREM PacketsKeepOnePlace ==
  FlushesDuringSlot = FALSE => (Spec => []PacketHasOnePlace)
<1> SUFFICES ASSUME FlushesDuringSlot = FALSE PROVE Spec => []PacketHasOnePlace
  OBVIOUS
<1>1. Init => PlaceInv
  BY InitPlace
<1>2. IInv /\ PlaceInv /\ [Next]_vars => PlaceInv'
  BY PlaceStep
<1>3. Spec => []IInv
  BY Invariance
<1> QED  BY <1>1, <1>2, <1>3, PTL DEF Spec, PlaceInv

-----------------------------------------------------------------------------
(* The queues implement the life of a packet.                              *)

(* A transmission is an attempt. *)
LEMMA FinishTxIsAttempt ==
  ASSUME TypeOK, PacketHasOnePlace, NEW n \in Addr, NEW p \in Packet,
         queue[n] # <<>>, p = Head(queue[n]), NEW ok \in BOOLEAN, FinishTx(n, p, ok),
         UNCHANGED <<allocated, removed>>
  PROVE  PacketLife!Attempt(p)
<1>1. /\ p \in InQueues /\ Flushing' = Flushing
      /\ \/ InQueues' = InQueues \ {p} /\ Dequeued' = Dequeued \cup {p}
         \/ InQueues' = InQueues /\ Dequeued' = Dequeued /\ ~LastAttempt(p)
  BY FinishTxMoves
<1>2. transmissions' = [transmissions EXCEPT ![p] = @ + 1]
  BY DEF FinishTx
<1>3. Life[p] = "queued"
  BY <1>1 DEF Life
<1>4. CASE InQueues' = InQueues \ {p} /\ Dequeued' = Dequeued \cup {p}
  <2>1. Life' = [Life EXCEPT ![p] = "done"]
    BY <1>1, <1>4 DEF Life
  <2> QED  BY <1>2, <1>3, <2>1 DEF PacketLife!Attempt, PacketLife!Becomes
<1>5. CASE InQueues' = InQueues /\ Dequeued' = Dequeued /\ ~LastAttempt(p)
  <2>1. Life' = Life
    BY <1>1, <1>5 DEF Life
  <2>2. transmissions[p] + 1 < MaxTransmissions
    BY <1>5, QueueAssumption DEF LastAttempt, TypeOK
  <2> QED  BY <1>2, <1>3, <2>1, <2>2 DEF PacketLife!Attempt
<1> QED  BY <1>1, <1>4, <1>5

(* Every step of the queues is a step in the life of a packet, or none. *)
LEMMA LifeStep ==
  ASSUME IInv, PlaceInv, [Next]_vars
  PROVE  [PacketLife!LifeNext]_<<Life, transmissions>>
<1>0. /\ TypeOK /\ CallerInv /\ SlotInv /\ PacketHasOnePlace
      /\ pc = "callback" <=> removed # NoPacket
      /\ QueuesApart /\ IsInjective(dequeued)
      /\ allocated = InQueues \cup Dequeued \cup Flushing
      /\ InQueues \cap Dequeued = {}
      /\ Flushing \cap (InQueues \cup Dequeued) = {}
  BY OnePlaceParts DEF IInv, PlaceInv
<1> USE DEF slotVars, flushVars, backoffVars
<1> DEFINE Goal == [PacketLife!LifeNext]_<<Life, transmissions>>
<1>1. ASSUME UNCHANGED <<queue, dequeued, removed, transmissions>> PROVE Goal
  <2>1. Life' = Life
    BY <1>1 DEF Life, InQueues, Dequeued, Flushing
  <2> QED  BY <1>1, <2>1
<1>2. ASSUME NEW a \in Addr, AddPacket(a) PROVE Goal
  <2>1. CASE UNCHANGED <<allocated, transmissions, queue>>
    BY <1>1, <1>2, <2>1 DEF AddPacket
  <2>2. ASSUME NEW p \in Packet \ allocated,
               transmissions' = [transmissions EXCEPT ![p] = 0],
               queue' = [queue EXCEPT ![a] = Append(@, p)]
        PROVE  Goal
    <3>1. p \notin InQueues /\ p \notin Dequeued /\ p \notin Flushing
      BY <1>0
    <3>2. InQueues' = InQueues \cup {p}
      BY <1>0, <2>2, <3>1, QueueAppend
    <3>3. Dequeued' = Dequeued /\ Flushing' = Flushing
      BY <1>2 DEF AddPacket, Dequeued, Flushing
    <3>4. Life[p] = "free"
      BY <3>1 DEF Life
    <3>5. Life' = [Life EXCEPT ![p] = "queued"]
      BY <3>2, <3>3 DEF Life
    <3>6. PacketLife!Accept(p)
      BY <2>2, <3>4, <3>5 DEF PacketLife!Accept, PacketLife!Becomes
    <3> QED  BY <3>6 DEF PacketLife!LifeNext
  <2> QED  BY <1>2, <2>1, <2>2 DEF AddPacket
<1>3. CASE ReportDequeued
  <2>1. /\ dequeued # <<>> /\ dequeued' = Tail(dequeued)
        /\ UNCHANGED <<queue, removed, transmissions>>
    BY <1>3 DEF ReportDequeued
  <2>2. /\ Head(dequeued) \in Dequeued /\ Head(dequeued) \in Packet
        /\ Dequeued' = Dequeued \ {Head(dequeued)}
    BY <1>0, <2>1, TailRange DEF Dequeued, TypeOK
  <2>3. InQueues' = InQueues /\ Flushing' = Flushing
    BY <2>1 DEF InQueues, Flushing
  <2>4. Life[Head(dequeued)] = "done"
    BY <1>0, <2>2 DEF Life
  <2>5. Life' = [Life EXCEPT ![Head(dequeued)] = "free"]
    BY <1>0, <2>2, <2>3 DEF Life
  <2>6. PacketLife!Report(Head(dequeued))
    BY <2>1, <2>4, <2>5 DEF PacketLife!Report, PacketLife!Becomes
  <2> QED  BY <2>2, <2>6 DEF PacketLife!LifeNext
<1>4. CASE FlushPacket
  <2>1. ~tsch_locked /\ removed = NoPacket
    BY <1>0, <1>4 DEF FlushPacket, CallerInv
  <2>2. PICK a \in to_flush :
          /\ queue[a] # <<>> /\ removed' = Head(queue[a])
          /\ queue' = [queue EXCEPT ![a] = Tail(@)]
    BY <1>4, <2>1 DEF FlushPacket, IsEmpty
  <2>3. a \in Addr /\ Head(queue[a]) \in Packet
    BY <1>0, <2>2 DEF TypeOK
  <2> DEFINE p == Head(queue[a])
  <2>4. p \in InQueues /\ InQueues' = InQueues \ {p}
    BY <1>0, <2>2, <2>3, QueueTail
  <2>5. Flushing = {} /\ Flushing' = {p}
    BY <2>1, <2>2, <2>3, QueueAssumption DEF Flushing
  <2>6. Dequeued' = Dequeued /\ transmissions' = transmissions
    BY <1>4 DEF FlushPacket, Dequeued
  <2>7. Life[p] = "queued"
    BY <2>3, <2>4 DEF Life
  <2>8. Life' = [Life EXCEPT ![p] = "done"]
    BY <2>3, <2>4, <2>5, <2>6 DEF Life
  <2>9. PacketLife!Flushed(p)
    BY <2>6, <2>7, <2>8 DEF PacketLife!Flushed, PacketLife!Becomes
  <2> QED  BY <2>3, <2>9 DEF PacketLife!LifeNext
<1>5. CASE FinishFlushPacket
  <2>1. /\ removed' = NoPacket /\ removed \in Packet
        /\ UNCHANGED <<queue, dequeued, transmissions>>
    BY <1>0, <1>5 DEF FinishFlushPacket, TypeOK
  <2>2. Flushing = {removed} /\ Flushing' = {}
    BY <2>1, QueueAssumption DEF Flushing
  <2>3. InQueues' = InQueues /\ Dequeued' = Dequeued
    BY <2>1 DEF InQueues, Dequeued
  <2>4. Life[removed] = "done"
    BY <1>0, <2>1, <2>2 DEF Life
  <2>5. Life' = [Life EXCEPT ![removed] = "free"]
    BY <1>0, <2>2, <2>3 DEF Life
  <2>6. PacketLife!Report(removed)
    BY <2>1, <2>4, <2>5 DEF PacketLife!Report, PacketLife!Becomes
  <2> QED  BY <2>1, <2>6 DEF PacketLife!LifeNext
<1>6. ASSUME NEW n \in Addr, queue[n] # <<>>, NEW ok \in BOOLEAN,
             FinishTx(n, Head(queue[n]), ok), UNCHANGED <<allocated, removed>>
      PROVE  Goal
  <2>1. Head(queue[n]) \in Packet
    BY <1>0, <1>6 DEF TypeOK
  <2>2. PacketLife!Attempt(Head(queue[n]))
    BY <1>0, <1>6, <2>1, FinishTxIsAttempt
  <2> QED  BY <2>1, <2>2 DEF PacketLife!LifeNext
<1>7. CASE StartTx
  <2>1. PICK n \in table \cup {Eb, Broadcast} :
           /\ queue[n] # <<>>
           /\ \/ FinishTx(n, Head(queue[n]), FALSE)
              \/ UNCHANGED <<queue, dequeued, transmissions>>
    BY <1>0, <1>7, StartTxCases
  <2>2. n \in Addr
    BY <1>0, <2>1 DEF TypeOK, Addr
  <2>3. UNCHANGED <<allocated, removed>>
    BY <1>7 DEF StartTx
  <2>4. CASE FinishTx(n, Head(queue[n]), FALSE)
    BY <1>6, <2>1, <2>2, <2>3, <2>4
  <2> QED  BY <1>1, <2>1, <2>3, <2>4
<1>8. CASE EndTx
  <2>1. PICK ok \in BOOLEAN : FinishTx(current_neighbor, current_packet, ok)
    BY <1>8 DEF EndTx
  <2>2. /\ current_neighbor \in Addr /\ queue[current_neighbor] # <<>>
        /\ current_packet = Head(queue[current_neighbor])
    BY <1>0, <1>8 DEF EndTx, TypeOK, Addr, SlotInv, SlotHoldsHead
  <2> QED  BY <1>6, <1>8, <2>1, <2>2 DEF EndTx
<1>9. CASE \/ UpdateTimeSource \/ Associate \/ TakeLock \/ ReleaseLock
           \/ FindUnused \/ StartReset \/ FreePacketsTo
           \/ FinishFlushNbr \/ FinishFlush \/ PassTxLink \/ UNCHANGED vars
  BY <1>1, <1>9
     DEF UpdateTimeSource, Associate, TakeLock, ReleaseLock, FindUnused, StartReset,
         FreePacketsTo, StartFlush, FinishFlushNbr, FinishFlush, PassTxLink, vars
<1> QED
  BY <1>2, <1>3, <1>4, <1>5, <1>7, <1>8, <1>9 DEF Next, Flush

(* The queues implement the life of a packet: it is transmitted at most    *)
(* max_transmissions times and reported exactly once.                      *)
THEOREM QueuesImplementPacketLife ==
  FlushesDuringSlot = FALSE => (Spec => ImplementsPacketLife)
<1> SUFFICES ASSUME FlushesDuringSlot = FALSE PROVE Spec => ImplementsPacketLife
  OBVIOUS
<1>1. Init => PacketLife!LifeInit
  <2> SUFFICES ASSUME Init PROVE PacketLife!LifeInit  OBVIOUS
  <2>1. \A a \in Addr : Range(queue[a]) = {}
    BY DEF Init, Range
  <2>2. InQueues = {} /\ Dequeued = {} /\ Flushing = {}
    BY <2>1 DEF Init, InQueues, Dequeued, Flushing, Range
  <2> QED  BY <2>2 DEF Init, PacketLife!LifeInit, Life
<1>2. IInv /\ PlaceInv /\ [Next]_vars => [PacketLife!LifeNext]_<<Life, transmissions>>
  BY LifeStep
<1>3. Spec => [](IInv /\ PlaceInv)
  <2>1. Init => PlaceInv
    BY InitPlace
  <2>2. IInv /\ PlaceInv /\ [Next]_vars => PlaceInv'
    BY PlaceStep
  <2>3. Spec => []IInv
    BY Invariance
  <2> QED  BY <2>1, <2>2, <2>3, PTL DEF Spec
<1> QED
  BY <1>1, <1>2, <1>3, PTL
     DEF Spec, ImplementsPacketLife, PacketLife!LifeSpec, PacketLife!lifeVars
=============================================================================
