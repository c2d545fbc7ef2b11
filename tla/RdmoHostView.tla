---------------------------- MODULE RdmoHostView ----------------------------
(* The memory of the host, as RdmoWorker changes it, is the log that       *)
(* RecvQueue promises.                                                     *)
EXTENDS RdmoWorker

Hole == [ep |-> Unknown, id |-> 0]

(* What the host reads in cell a of queue q. *)
CellOf(q, a) ==
    LET writers == {r \in Arrived : /\ Placed(r) /\ reqs[r].q = q
                                    /\ a \in Cells(r) /\ <<r, 1>> \in landed}
    IN  IF writers = {} THEN Hole
        ELSE LET r == CHOOSE x \in writers : TRUE IN [ep |-> Ep(r), id |-> r]

HostView == INSTANCE RecvQueue
    WITH visible <- [q \in Queues |-> [i \in 1 .. ptr[q] |-> CellOf(q, i - 1)]]

\* The worker implements the log of RecvQueue: what the host sees below a queue's
\* pointer only grows, without holes, in the order each connection sent it.
ImplementsRecvQueue == HostView!Spec
=============================================================================
