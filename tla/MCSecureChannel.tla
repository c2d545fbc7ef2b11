--------------------------- MODULE MCSecureChannel ---------------------------
(* Instances of SecureChannel for TLC: a channel that is full after one    *)
(* message, with interrupts or with failures as well, and one with room.   *)
EXTENDS SecureChannel

Messages(h, d) == [s \in Sides |-> IF s = "host" THEN h ELSE d]

Narrow == [msgs |-> Messages(2, 2), cap |-> 1, interrupt |-> TRUE, fail |-> FALSE]
Failing == [msgs |-> Messages(1, 2), cap |-> 1, interrupt |-> TRUE, fail |-> TRUE]
Roomy == [msgs |-> Messages(3, 2), cap |-> 3, interrupt |-> FALSE, fail |-> FALSE]
Calm == [Narrow EXCEPT !.interrupt = FALSE]

AllEnvs == {Narrow, Failing, Roomy}
CalmEnvs == {Calm}
=============================================================================
