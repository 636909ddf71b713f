------------------------------ MODULE PacketLife ------------------------------
(***************************************************************************)
(* What the packet queues promise the upper layer: a packet that is        *)
(* accepted is transmitted a limited number of times, and its sent         *)
(* callback is called exactly once, after which its block is free.         *)
(***************************************************************************)
EXTENDS Naturals

CONSTANTS Packet, MaxTransmissions

VARIABLES life, tries

lifeVars == <<life, tries>>

LifeInit ==
  /\ life = [p \in Packet |-> "free"]
  /\ tries = [p \in Packet |-> 0]

Becomes(p, from, to) ==
  life[p] = from /\ life' = [life EXCEPT ![p] = to]

Accept(p) ==
  /\ Becomes(p, "free", "queued")
  /\ tries' = [tries EXCEPT ![p] = 0]

(* A transmission: it succeeds, or the packet is given up, or stays.       *)
Attempt(p) ==
  /\ \/ Becomes(p, "queued", "done")
     \/ tries[p] + 1 < MaxTransmissions /\ life[p] = "queued" /\ UNCHANGED life
  /\ tries' = [tries EXCEPT ![p] = @ + 1]

Flushed(p) == Becomes(p, "queued", "done") /\ UNCHANGED tries

Report(p) == Becomes(p, "done", "free") /\ UNCHANGED tries

LifeNext ==
  \E p \in Packet : Accept(p) \/ Attempt(p) \/ Flushed(p) \/ Report(p)

LifeSpec == LifeInit /\ [][LifeNext]_lifeVars
=============================================================================
