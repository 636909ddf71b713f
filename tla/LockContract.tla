----------------------------- MODULE LockContract -----------------------------
(***************************************************************************)
(* What the TSCH lock guarantees to process context, without its flags.    *)
(* A process that wants the lock waits until no slot is in progress, and   *)
(* no slot starts while it waits.  While it is in its critical section no  *)
(* slot transmits; a slot may still receive.                               *)
(***************************************************************************)

VARIABLES
  process,   \* "out", "waiting" for the lock, or "in" its critical section
  radio      \* the slot in progress: "none", "tx", "rx"; or the node "stopped"

contractVars == <<process, radio>>

Init == process = "out" /\ radio = "none"

Want ==
  /\ process = "out"
  /\ radio # "stopped"
  /\ process' = "waiting"
  /\ UNCHANGED radio

Enter ==
  /\ process = "waiting"
  /\ radio = "none"
  /\ process' = "in"
  /\ UNCHANGED radio

Leave ==
  /\ process = "in"
  /\ radio # "stopped"
  /\ process' = "out"
  /\ UNCHANGED radio

StartTx ==
  /\ radio = "none"
  /\ process = "out"
  /\ radio' = "tx"
  /\ UNCHANGED process

StartRx ==
  /\ radio = "none"
  /\ process # "waiting"
  /\ radio' = "rx"
  /\ UNCHANGED process

EndSlot ==
  /\ radio \in {"tx", "rx"}
  /\ radio' = "none"
  /\ UNCHANGED process

(* A reception may find that its link was removed, and stops the node. *)
Stop ==
  /\ radio = "rx"
  /\ radio' = "stopped"
  /\ UNCHANGED process

Next == Want \/ Enter \/ Leave \/ StartTx \/ StartRx \/ EndSlot \/ Stop

Spec == Init /\ [][Next]_contractVars

(* Every slot ends, and a waiting process enters. *)
FairSpec ==
  Spec /\ WF_contractVars(Enter) /\ WF_contractVars(EndSlot \/ Stop)
=============================================================================
