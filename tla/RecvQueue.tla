------------------------------ MODULE RecvQueue ------------------------------
(***************************************************************************)
(* What the host of an RDMO receive queue may rely on (rdmo_server in      *)
(* applications/urom_rdmo/host/urom_rdmo_core.c polls the queue's pointer  *)
(* and then reads the cells below it): the cells below the pointer are a   *)
(* log.  They only ever grow at the end, none of them is a hole whose      *)
(* payload has not been written, and the appends of one connection are in  *)
(* it in the order they were sent.                                         *)
(***************************************************************************)
EXTENDS Integers, SequencesExt

CONSTANTS
    Queues,
    Hole      \* what the host reads in a cell that no append has written

VARIABLE visible  \* the cells below the pointer of each queue

Init == visible = [q \in Queues |-> <<>>]

(* An entry says which connection it came from and when it was sent. *)
SentOrder(log) ==
    \A i, j \in DOMAIN log : i < j /\ log[i].ep = log[j].ep => log[i].id <= log[j].id

Publish(q) ==
    /\ IsStrictPrefix(visible[q], visible'[q])
    /\ Hole \notin Range(visible'[q])
    /\ SentOrder(visible'[q])
    /\ \A other \in Queues \ {q} : visible'[other] = visible[other]

Next == \E q \in Queues : Publish(q)

Spec == Init /\ [][Next]_visible
=============================================================================
