------------------------------ MODULE MCSwitch ------------------------------
(* Two pipes and three entries: a position and a handle can be used again    *)
(* while an entry of the pipe that had it before is still known somewhere.   *)
EXTENDS Switch, TLC

CONSTANTS port0, i1, i2, s1, s2, p1, p2, x1, x2, x3, f1, f2

MCPorts == {port0}
MCPipeIds == {i1, i2}
MCEntryIds == {f1, f2}
MCSlots == {s1, s2}
MCPipes == {p1, p2}
MCEntries == {x1, x2, x3}

AllEnvironments == [collide : BOOLEAN, pace : {"slow", "one", "all"}]
Distinct == {[collide |-> FALSE, pace |-> "one"]}

(* No definition tells the members of one of these sets apart. *)
SwitchSymmetry ==
  Permutations(MCPipeIds) \cup Permutations(MCEntryIds) \cup Permutations(MCSlots)
    \cup Permutations(MCPipes) \cup Permutations(MCEntries)
=============================================================================
