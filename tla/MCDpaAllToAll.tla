---------------------------- MODULE MCDpaAllToAll ----------------------------
(* Instances of DpaAllToAll. *)
EXTENDS DpaAllToAll

(* One process fails and the others are in time, or nobody fails and anybody *)
(* may be late.                                                              *)
MCEnvironments ==
  {[faults |-> 1, late |-> FALSE], [faults |-> 0, late |-> TRUE]}
=============================================================================
