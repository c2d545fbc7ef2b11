---------------------------- MODULE MCRdmoWorker ----------------------------
(* One client, two connections and up to two queues; a configuration picks *)
(* the queues and what the initiators may send.                            *)
EXTENDS RdmoHostView, TLC

CONSTANTS e1, e2, c1, q1, q2

MCEps == {e1, e2}
MCClients == {c1}
OneQueue == {q1}
TwoQueues == {q1, q2}
SecondQueue == {q2}
MCOwner == [q \in Queues |-> c1]
ConnectionSymmetry == Permutations(MCEps)

Request(op, e, q, isRndv, iovs) ==
    [op |-> op, ep |-> e, client |-> c1, fence |-> op = "flush", q |-> q, dq |-> q,
     len |-> 1, rndv |-> isRndv, iovs |-> iovs]

(* What rdmo_append, rdmo_flush and rdmo_scatter of urom_rdmo_core.c send. *)
Appends(q) == {Request("append", e, q, FALSE, <<>>) : e \in MCEps}
Flushes == {Request("flush", e, Unknown, FALSE, <<>>) : e \in MCEps}
Scatters(iovs) == {Request("scatter", e, Unknown, FALSE, iovs) : e \in MCEps}

(* Appends whose payload UCX delivers by rendezvous. *)
RndvAppends(q) == {Request("append", e, q, TRUE, <<>>) : e \in MCEps}

EagerShapes == Appends(q1) \cup Flushes
MixedShapes == Appends(q1) \cup Appends(q2) \cup Scatters(<<q1, q2>>) \cup Flushes
RndvShapes == EagerShapes \cup RndvAppends(q1)

(* A bound: the last of MaxReqs requests comes only when all of them are eager *)
(* appends to one queue and flushes.                                           *)
LastIsEager ==
    Len(reqs') = MaxReqs => \A r \in Ids : reqs'[r] \in EagerShapes

MixedNext == WorkerNext /\ LastIsEager

MixedSpec == WorkerInit /\ [][MixedNext]_vars /\ WorkerFairness

(* Everything at once: malformed requests and both kinds of payload. *)
AnyShapes ==
    RndvShapes \cup Scatters(<<q1>>) \cup Scatters(<<OutOfBounds>>)
    \cup Appends(Unknown)
=============================================================================
