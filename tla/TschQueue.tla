------------------------------- MODULE TschQueue -------------------------------
(***************************************************************************)
(* The packet queues of tsch-queue.c, between process context, which adds, *)
(* flushes and frees packets, and the Tx slot, which sends them.           *)
(*                                                                         *)
(* Packets are the blocks of packet_memb: a block that is freed may be     *)
(* allocated again while a pointer to it survives.  The rings are single   *)
(* words updated atomically, so a ring is a sequence and a put or a get is *)
(* one step.  No Tx slot runs while process context holds the TSCH lock    *)
(* (LockContract), but links pass.                                         *)
(*                                                                         *)
(* As in every QL-TSCH schedule all links are shared and addressed to      *)
(* tsch_broadcast_address: no unicast neighbour has Tx links of its own.   *)
(***************************************************************************)
EXTENDS Naturals, Sequences, FiniteSets, Functions

CONSTANTS
  Nbr,                \* addresses of unicast neighbours
  Eb, Broadcast,      \* tsch_eb_address, tsch_broadcast_address
  Packet,             \* packet_memb: QUEUEBUF_NUM blocks
  RingCapacity,       \* TSCH_QUEUE_NUM_PER_NEIGHBOR - 1
  DequeuedCapacity,   \* TSCH_DEQUEUED_ARRAY_SIZE - 1
  MaxTransmissions,   \* of every packet: max_transmissions
  MinBE, MaxBE,       \* TSCH_MAC_MIN_BE, TSCH_MAC_MAX_BE
  NoPacket, NoNbr,    \* the NULL pointers
  FlushesDuringSlot   \* upper layers flush queues of a node that runs slots

Addr == Nbr \cup {Eb, Broadcast}

ASSUME QueueAssumption ==
  /\ Eb \notin Nbr /\ Broadcast \notin Nbr /\ Eb # Broadcast
  /\ NoNbr \notin Addr /\ NoPacket \notin Packet
  /\ RingCapacity \in Nat /\ DequeuedCapacity \in Nat
  /\ MaxTransmissions \in Nat
  /\ MinBE \in Nat /\ MaxBE \in Nat /\ MinBE <= MaxBE
  /\ FlushesDuringSlot \in BOOLEAN

VARIABLES
  table,              \* the unicast neighbours in tsch_neighbors
  time_source,        \* the one with is_time_source
  queue,              \* tx_ringbuf and tx_array of every neighbour
  backoff_window, backoff_exponent,
  allocated,          \* the blocks in use
  transmissions,
  dequeued,           \* dequeued_ringbuf and dequeued_array
  slot, current_neighbor, current_packet,
  network,            \* "in" one, just "left" it, or "out" and reset
  tsch_locked,
  pc,                 \* where process context is, and, while it flushes,
  caller, to_flush,   \* ... for whom, which neighbours it still has to,
  removed,            \* ... and the packet it just took out of a queue
  due                 \* history: Tx links to let pass, of those drawn

slotVars == <<slot, current_neighbor, current_packet>>
flushVars == <<caller, to_flush, removed>>
backoffVars == <<backoff_window, backoff_exponent, due>>
vars == <<table, time_source, queue, backoffVars, allocated, transmissions,
          dequeued, slotVars, network, tsch_locked, pc, flushVars>>

Pow2 == [n \in 0 .. MaxBE |-> 2 ^ n]

TypeOK ==
  /\ table \subseteq Nbr
  /\ time_source \in table \cup {NoNbr}
  /\ queue \in [Addr -> Seq(Packet)]
  /\ \A a \in Addr : Len(queue[a]) <= RingCapacity
  /\ backoff_window \in [Nbr -> Nat]
  /\ backoff_exponent \in [Nbr -> MinBE .. MaxBE]
  /\ due \in [Nbr -> Nat]
  /\ allocated \subseteq Packet
  /\ transmissions \in [Packet -> Nat]
  /\ dequeued \in Seq(Packet)
  /\ slot \in {"sleep", "tx"}
  /\ current_neighbor \in Addr \cup {NoNbr}
  /\ current_packet \in Packet \cup {NoPacket}
  /\ network \in {"in", "left", "out"}
  /\ tsch_locked \in BOOLEAN
  /\ pc \in {"idle", "wait", "locked", "flush", "callback"}
  /\ caller \in {"none", "reset", "free_packets", "remove"}
  /\ to_flush \subseteq Addr
  /\ removed \in Packet \cup {NoPacket}

(* tsch_queue_init. *)
Init ==
  /\ table = {}
  /\ time_source = NoNbr
  /\ queue = [a \in Addr |-> <<>>]
  /\ backoff_window = [n \in Nbr |-> 0]
  /\ backoff_exponent = [n \in Nbr |-> MinBE]
  /\ due = [n \in Nbr |-> 0]
  /\ allocated = {}
  /\ transmissions = [p \in Packet |-> 0]
  /\ dequeued = <<>>
  /\ slot = "sleep" /\ current_neighbor = NoNbr /\ current_packet = NoPacket
  /\ network = "out"
  /\ tsch_locked = FALSE
  /\ pc = "idle" /\ caller = "none" /\ to_flush = {} /\ removed = NoPacket

-----------------------------------------------------------------------------
(* tsch_queue_backoff_reset, for the neighbours in S. *)
BackoffReset(S) ==
  /\ backoff_window' =
       [n \in Nbr |-> IF n \in S THEN 0 ELSE backoff_window[n]]
  /\ backoff_exponent' =
       [n \in Nbr |-> IF n \in S THEN MinBE ELSE backoff_exponent[n]]
  /\ due' = [n \in Nbr |-> IF n \in S THEN 0 ELSE due[n]]

(* tsch_queue_add_nbr: a new neighbour is entered under the lock.  When    *)
(* the table has no room the call fails, and nothing has changed.          *)
KnowNbr(a) ==
  IF a \in Nbr \ table
    THEN /\ slot = "sleep"
         /\ table' = table \cup {a}
         /\ BackoffReset({a})
    ELSE UNCHANGED <<table, backoffVars>>

HasRoom_OneMore(a) == Len(queue[a]) <= RingCapacity
HasRoom(a) == Len(queue[a]) < RingCapacity

(* Upper layers call between the calls of others, and from the callback of *)
(* a packet that a flush reports.  A reset in progress may or may not come *)
(* to a neighbour that is entered meanwhile.                               *)
UpperLayerCalls == pc \in {"idle", "callback"}

Meet(a) ==
  /\ KnowNbr(a)
  /\ to_flush' \in {to_flush} \cup
       (IF caller = "reset" /\ a \in Nbr \ table THEN {to_flush \cup {a}} ELSE {})

(* tsch_queue_add_packet.  Without a free entry of the ring, a free block  *)
(* or a queuebuf (the block is freed again) the packet is not accepted.    *)
AddPacket(a) ==
  /\ UpperLayerCalls
  /\ Meet(a)
  /\ \/ /\ HasRoom(a)
        /\ \E p \in Packet \ allocated :
             /\ allocated' = allocated \cup {p}
             /\ transmissions' = [transmissions EXCEPT ![p] = 0]
             /\ queue' = [queue EXCEPT ![a] = Append(@, p)]
     \/ UNCHANGED <<allocated, transmissions, queue>>
  /\ UNCHANGED <<time_source, dequeued, slotVars, network, tsch_locked, pc,
                 caller, removed>>

(* tsch_queue_update_time_source, to a neighbour or to none. *)
UpdateTimeSource ==
  /\ UpperLayerCalls
  /\ \/ time_source' = NoNbr /\ UNCHANGED <<table, backoffVars, to_flush>>
     \/ \E n \in Nbr : time_source' = n /\ Meet(n)
  /\ UNCHANGED <<queue, allocated, transmissions, dequeued, slotVars,
                 network, tsch_locked, pc, caller, removed>>

(* tsch_queue_free_packet, after the callback of the packet. *)
Free(p) == allocated' = allocated \ {p}

(* tsch_tx_process_pending of tsch.c reports a dequeued packet. *)
ReportDequeued ==
  /\ pc = "idle"
  /\ dequeued # <<>>
  /\ Free(Head(dequeued))
  /\ dequeued' = Tail(dequeued)
  /\ UNCHANGED <<table, time_source, queue, backoffVars, transmissions,
                 slotVars, network, tsch_locked, pc, flushVars>>

-----------------------------------------------------------------------------
(* A Tx link may serve, in this order: the queue of EBs on an advertising  *)
(* link, that of broadcasts, that of any neighbour whose backoff expired.  *)
Ready == {n \in table : queue[n] # <<>> /\ backoff_window[n] = 0}

Servable(advertising) ==
  IF advertising /\ queue[Eb] # <<>> THEN {Eb}
  ELSE IF queue[Broadcast] # <<>> THEN {Broadcast}
  ELSE Ready

(* tsch_queue_packet_sent takes the first packet out of the queue when the *)
(* transmission succeeded or was the last one allowed.                     *)
LastAttempt_OneMore(p) == transmissions[p] + 1 > MaxTransmissions
LastAttempt(p) == transmissions[p] + 1 >= MaxTransmissions
TakenOut(p, ok) == ok \/ LastAttempt(p)

WithoutFirst(s) == IF s = <<>> THEN s ELSE Tail(s)

(* tsch_queue_update_all_backoff_windows, as a Tx link passes. *)
OneLess_Never(windows) == windows
OneLess(windows) == [n \in Nbr |-> IF windows[n] = 0 THEN 0 ELSE windows[n] - 1]

(* tsch_queue_backoff_inc: one more than drawn, for the decrement at the   *)
(* end of the same slot.                                                   *)
WindowOf_AsDrawn(drawn) == drawn
WindowOf(drawn) == drawn + 1

(* The end of the slot: the backoff windows count the link that passes,    *)
(* unless the node leaves its network.                                     *)
EndSlot(windows, counted) ==
  \/ backoff_window' = OneLess(windows) /\ due' = counted /\ UNCHANGED network
  \/ backoff_window' = windows /\ due' = counted /\ network' = "left"

(* The CSMA state of a unicast neighbour after a transmission, then the    *)
(* end of the slot.                                                        *)
UpdateBackoff(n, ok) ==
  IF n \notin Nbr
    THEN EndSlot(backoff_window, OneLess(due)) /\ UNCHANGED backoff_exponent
  ELSE IF ok
    THEN /\ backoff_exponent' = [backoff_exponent EXCEPT ![n] = MinBE]
         /\ EndSlot([backoff_window EXCEPT ![n] = 0],
                    [OneLess(due) EXCEPT ![n] = 0])
    ELSE LET be == IF backoff_exponent[n] < MaxBE
                     THEN backoff_exponent[n] + 1 ELSE MaxBE
         IN  /\ backoff_exponent' = [backoff_exponent EXCEPT ![n] = be]
             /\ \E drawn \in 0 .. Pow2[be] - 1 :
                  EndSlot([backoff_window EXCEPT ![n] = WindowOf(drawn)],
                          [OneLess(due) EXCEPT ![n] = drawn])

(* tsch_tx_slot once the transmission of p for n has a status. *)
FinishTx(n, p, ok) ==
  /\ transmissions' = [transmissions EXCEPT ![p] = @ + 1]
  /\ IF TakenOut(p, ok)
       THEN /\ queue' = [queue EXCEPT ![n] = WithoutFirst(@)]
            /\ dequeued' = Append(dequeued, p)
       ELSE UNCHANGED <<queue, dequeued>>
  /\ UpdateBackoff(n, ok)
  /\ slot' = "sleep" /\ current_neighbor' = NoNbr /\ current_packet' = NoPacket

(* A Tx link with a packet to send, and room to store it afterwards: the   *)
(* radio fails to take it, or the slot waits for the time to transmit.     *)
(* While the lock is requested or held there is no such link.              *)
RoomAhead_Unchecked == TRUE
RoomAhead == Len(dequeued) < DequeuedCapacity

StartTx ==
  /\ slot = "sleep"
  /\ network = "in"
  /\ ~tsch_locked /\ pc # "wait"
  /\ RoomAhead
  /\ \E advertising \in BOOLEAN : \E n \in Servable(advertising) :
       LET p == Head(queue[n])
       IN  \/ FinishTx(n, p, FALSE)
           \/ /\ slot' = "tx" /\ current_neighbor' = n /\ current_packet' = p
              /\ UNCHANGED <<queue, backoffVars, transmissions, dequeued,
                             network>>
  /\ UNCHANGED <<table, time_source, allocated, tsch_locked, pc, flushVars>>

(* The status is known: transmitted, acknowledged, or not. *)
EndTx ==
  /\ slot = "tx"
  /\ \E ok \in BOOLEAN : FinishTx(current_neighbor, current_packet, ok)
  /\ UNCHANGED <<table, time_source, allocated, tsch_locked, pc, flushVars>>

(* A Tx link passes without a transmission: no packet is ready, or there   *)
(* is no room in dequeued_ringbuf, or the slot was skipped or missed.      *)
(* While the lock is held no window counts it.                             *)
PassTxLink ==
  /\ slot = "sleep"
  /\ network = "in"
  /\ IF tsch_locked
       THEN /\ due' = OneLess(due) /\ UNCHANGED backoff_window
            /\ network' \in {network, "left"}
       ELSE EndSlot(backoff_window, OneLess(due))
  /\ UNCHANGED <<table, time_source, queue, backoff_exponent, allocated,
                 transmissions, dequeued, slotVars, tsch_locked, pc,
                 flushVars>>

-----------------------------------------------------------------------------
(* Process context in a critical section: tsch_get_lock waits for the end  *)
(* of the slot; the lock may be held over several links.                   *)
TakeLock ==
  /\ pc \in {"idle", "wait"}
  /\ slot = "sleep"
  /\ tsch_locked' = TRUE
  /\ pc' = "locked"
  /\ UNCHANGED <<table, time_source, queue, backoffVars, allocated,
                 transmissions, dequeued, slotVars, network, flushVars>>

(* tsch_queue_remove_nbr releases the lock before it flushes. *)
Released_AfterTheFlush == caller # "remove"
Released == TRUE

ReleaseLock ==
  /\ pc = "locked"
  /\ tsch_locked' = ~Released
  /\ pc' = IF caller = "remove" THEN "flush" ELSE "idle"
  /\ UNCHANGED <<table, time_source, queue, backoffVars, allocated,
                 transmissions, dequeued, slotVars, network, flushVars>>

(* tsch_queue_free_unused_neighbors finds a neighbour without packets that *)
(* is not the time source; to remove it, it waits for the lock.            *)
Unused_ThoughQueued(n) == n # time_source
Unused(n) == n # time_source /\ queue[n] = <<>>

FindUnused ==
  /\ pc = "idle"
  /\ pc' = "wait" /\ caller' = "remove"
  /\ \E n \in table : Unused(n) /\ to_flush' = {n}
  /\ UNCHANGED <<table, time_source, queue, backoffVars, allocated,
                 transmissions, dequeued, slotVars, network, tsch_locked,
                 removed>>

(* tsch_queue_reset, which tsch.c calls after the network was left, and    *)
(* tsch_queue_free_packets_to flush without the lock.                      *)
StartFlush(for, S) ==
  /\ pc = "idle"
  /\ pc' = "flush" /\ caller' = for /\ to_flush' = S
  /\ UNCHANGED <<table, time_source, queue, backoffVars, allocated,
                 transmissions, dequeued, slotVars, network, tsch_locked,
                 removed>>

StartReset ==
  network = "left" /\ StartFlush("reset", table \cup {Eb, Broadcast})
FreePacketsTo ==
  /\ FlushesDuringSlot \/ network = "out"
  /\ \E n \in table : StartFlush("free_packets", {n})

(* While the lock is held tsch_queue_is_empty answers no, and              *)
(* tsch_queue_remove_packet_from_queue finds nothing: the loop goes round. *)
IsEmpty(a) == ~tsch_locked /\ queue[a] = <<>>

(* tsch_queue_flush_nbr_queue takes the first packet of a neighbour out of *)
(* its queue ...                                                           *)
FlushPacket ==
  /\ pc = "flush"
  /\ \E a \in to_flush :
       /\ ~IsEmpty(a)
       /\ IF tsch_locked
            THEN UNCHANGED <<queue, removed, pc>>
            ELSE /\ removed' = Head(queue[a])
                 /\ queue' = [queue EXCEPT ![a] = Tail(@)]
                 /\ pc' = "callback"
  /\ UNCHANGED <<table, time_source, backoffVars, allocated, transmissions,
                 dequeued, slotVars, network, tsch_locked, caller, to_flush>>

(* ... then reports and frees it.                                          *)
ReportFlushed_NotFreed == allocated' = allocated
ReportFlushed == Free(removed)

FinishFlushPacket ==
  /\ pc = "callback"
  /\ pc' = "flush"
  /\ ReportFlushed
  /\ removed' = NoPacket
  /\ UNCHANGED <<table, time_source, queue, backoffVars, transmissions,
                 dequeued, slotVars, network, tsch_locked, caller, to_flush>>

(* The queue of a neighbour is empty: the reset goes on with its backoff,  *)
(* the removal with the entry.                                             *)
FinishFlushNbr ==
  /\ pc = "flush"
  /\ \E a \in to_flush :
       /\ IsEmpty(a)
       /\ to_flush' = to_flush \ {a}
       /\ IF caller = "reset" THEN BackoffReset({a}) ELSE UNCHANGED backoffVars
       /\ table' = IF caller = "remove" THEN table \ {a} ELSE table
  /\ UNCHANGED <<time_source, queue, allocated, transmissions, dequeued,
                 slotVars, network, tsch_locked, pc, caller, removed>>

FinishFlush ==
  /\ pc = "flush"
  /\ to_flush = {}
  /\ pc' = "idle" /\ caller' = "none"
  /\ network' = IF caller = "reset" THEN "out" ELSE network
  /\ UNCHANGED <<table, time_source, queue, backoffVars, allocated,
                 transmissions, dequeued, slotVars, tsch_locked, to_flush,
                 removed>>

Flush == FlushPacket \/ FinishFlushPacket \/ FinishFlushNbr \/ FinishFlush

(* tsch.c joins a network. *)
Associate ==
  /\ pc = "idle"
  /\ network = "out"
  /\ network' = "in"
  /\ UNCHANGED <<table, time_source, queue, backoffVars, allocated,
                 transmissions, dequeued, slotVars, tsch_locked, pc, flushVars>>

Next ==
  \/ \E a \in Addr : AddPacket(a)
  \/ UpdateTimeSource \/ ReportDequeued \/ Associate
  \/ TakeLock \/ ReleaseLock \/ FindUnused
  \/ StartReset \/ FreePacketsTo \/ Flush
  \/ StartTx \/ EndTx \/ PassTxLink

Spec == Init /\ [][Next]_vars

(* Process context goes on where it is interrupted; the process that       *)
(* reports packets is polled and gets its turn between critical sections;  *)
(* a slot in progress ends; and critical sections are short and rare       *)
(* enough not to coincide with every link that passes, nor with every one  *)
(* that has something to send.                                             *)
FairSpec ==
  /\ Spec
  /\ WF_vars(ReleaseLock) /\ WF_vars(Flush) /\ WF_vars(StartReset)
  /\ WF_vars(pc = "wait" /\ TakeLock) /\ SF_vars(ReportDequeued)
  /\ WF_vars(EndTx) /\ SF_vars(StartTx)
  /\ SF_vars(PassTxLink /\ ~tsch_locked /\ network' = "in")
=============================================================================
