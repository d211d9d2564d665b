------------------------------ MODULE MCGuests ------------------------------
(* A platform for TLC: two guests with vmids of their own.                   *)
EXTENDS Guests

MCVmidOf == [g \in Guest |-> IF g = "app" THEN 101 ELSE 102]
MCTypeOf == [g \in Guest |-> "lxc"]
MCNicCount == [g \in Guest |-> 1]
=============================================================================
