----------------------------- MODULE MCQLearning -----------------------------
(* Three timeslots, a coarse Q-table, and APT counters that wrap after three *)
(* receptions, one of which may interrupt each scan.                         *)
EXTENDS QLearning
=============================================================================
