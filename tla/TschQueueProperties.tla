-------------------------- MODULE TschQueueProperties --------------------------
(***************************************************************************)
(* What is checked of TschQueue.                                           *)
(***************************************************************************)
EXTENDS TschQueue

InQueues == UNION {Range(queue[a]) : a \in Addr}
Dequeued == Range(dequeued)
Flushing == {removed} \ {NoPacket}

(* A block is in use exactly while one queue, dequeued_ringbuf or a flush  *)
(* has the packet: none is leaked, freed while somebody has it, or in two  *)
(* places, where it would be reported and freed twice.                     *)
PacketHasOnePlace ==
  /\ allocated = InQueues \cup Dequeued \cup Flushing
  /\ \A a \in Addr : IsInjective(queue[a])
  /\ IsInjective(dequeued)
  /\ \A a, b \in Addr : a # b => Range(queue[a]) \cap Range(queue[b]) = {}
  /\ InQueues \cap Dequeued = {}
  /\ Flushing \cap (InQueues \cup Dequeued) = {}

(* The pointers a Tx slot keeps over its yields: current_neighbor is still *)
(* in the table, and current_packet still the first packet of its queue,   *)
(* which packet_sent is going to take out without looking.                 *)
SlotHoldsHead ==
  slot = "tx" =>
    /\ current_neighbor \in table \cup {Eb, Broadcast}
    /\ queue[current_neighbor] # <<>>
    /\ current_packet = Head(queue[current_neighbor])

(* The place in dequeued_ringbuf that tsch_tx_slot peeked at before it     *)
(* yielded is there when it puts the packet.                               *)
DequeuedNeverOverflows == Len(dequeued) <= DequeuedCapacity

(* A neighbour sits out the Tx links its last failure drew ("number of     *)
(* shared slots to skip") before a packet to it goes out again, although a *)
(* window is counted down in the very slot that draws it, and is not while *)
(* the lock is held.                                                       *)
NeverSendsInBackoff ==
  slot = "tx" /\ current_neighbor \in Nbr => due[current_neighbor] = 0

(* tsch_queue_packet_sent "returns 1 if the packet remains in queue after  *)
(* the call, 0 if it was removed": the slot stores the packet as dequeued  *)
(* exactly when it was taken out of its queue.                             *)
PacketSentTellsTheTruth ==
  [][EndTx =>
       IF dequeued' = dequeued
         THEN current_packet \in Range(queue'[current_neighbor])
         ELSE /\ queue[current_neighbor] # <<>>
              /\ Head(queue[current_neighbor]) = current_packet]_vars

(* The queues, the slot and the flushes implement the life of a packet.    *)
Life ==
  [p \in Packet |-> IF p \in InQueues THEN "queued"
                    ELSE IF p \in Dequeued \cup Flushing THEN "done"
                    ELSE "free"]
PacketLife ==
  INSTANCE PacketLife WITH life <- Life, tries <- transmissions
ImplementsPacketLife == PacketLife!LifeSpec

(* When the upper layers send nothing more and the node stays in its       *)
(* network, every packet is reported in the end, over failures, backoff,   *)
(* a full dequeued_ringbuf and links skipped for the lock.                 *)
NoMoreTraffic == <>[][\A a \in Addr : ~AddPacket(a)]_vars
EveryPacketReported ==
  NoMoreTraffic /\ <>[](network = "in") => <>[](allocated = {})

(* tsch_queue_is_empty answers 0 while the lock is held: a flush that ran  *)
(* under it would not end.  Nor would one for an upper layer that sends    *)
(* again from every callback: callbacks must stop to.                      *)
CallbacksStopSending ==
  <>[][pc = "callback" => \A a \in Addr : ~AddPacket(a)]_vars
FlushEnds == CallbacksStopSending => (pc = "flush" ~> pc = "idle")
=============================================================================
