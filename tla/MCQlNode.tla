------------------------------- MODULE MCQlNode -------------------------------
(* Three unicast timeslots: the old action, the new one, and another.        *)
EXTENDS QlNodeProperties
=============================================================================
