------------------------------ MODULE Allreduce ------------------------------
(***************************************************************************)
(* The allreduce application.  In non-offloaded mode the clients exchange  *)
(* their vectors with one another; in offloaded mode each client gives its *)
(* vector to its daemon, the daemons exchange what their clients sum up    *)
(* to, and each daemon returns the result to its clients.  The processes   *)
(* that exchange vectors are the peers.                                    *)
(*                                                                         *)
(* A process is one thread that runs UCX callbacks from its progress loop, *)
(* so each callback is one step.  A vector is the bag of the contributions *)
(* reduced into it; <<c, id>> is what client c submitted for operation id. *)
(* Sums and products are taken as commutative and exact.                   *)
(*                                                                         *)
(* UCX is external: a send completes some time after it was posted, before *)
(* or after the receiver got an eager message, and only after the receiver *)
(* has fetched the data of a rendezvous.  The data is read from the        *)
(* sender's buffer when it leaves it.  A send that completes at once is    *)
(* one whose completion is the next step.                                  *)
(***************************************************************************)
EXTENDS Naturals, Sequences, FiniteSets, Bags, SequencesExt

CONSTANTS
  Topologies,   \* the configurations of a run; see Init
  Null          \* C's NULL

VARIABLES
  topo,         \* the configuration of this behaviour
  node,         \* per process, its state
  msgs          \* the active messages on their way

vars == <<topo, node, msgs>>

-----------------------------------------------------------------------------
(* Configuration (struct allreduce_config). *)

Clients == IF topo.offloaded THEN DOMAIN topo.daemon ELSE topo.peers
Nodes == Clients \cup topo.peers
DestNum == Cardinality(topo.peers) - 1               \* dest_addresses.num
ClientsOf(d) == {c \in Clients : topo.daemon[c] = d}
LastId == topo.bs * topo.batches                       \* the last operation
Ids == 0..LastId
Slot(id) == id % topo.bs                             \* in allreduce_vectors

(* A zero-length operation, the barrier, reduces nothing. *)
Reduce(id, dst, src) == IF id = 0 THEN dst ELSE dst (+) src
Own(c, id) == SetToBag({<<c, id>>})
Junk == SetToBag({<<Null, 0>>})                      \* an unfilled vector

NewNode ==
  [sreq |-> [id \in Ids |-> Null],                   \* super_requests_hash
   vec |-> [i \in 0..topo.bs - 1 |-> Junk],          \* allreduce_vectors
   next |-> 0,                                       \* allreduce_next_id
   active |-> 0,                     \* client_active_allreduce_requests
   got |-> [id \in Ids |-> Null],    \* what each operation left in its vector
   errno |-> FALSE,                                  \* callback_errno is set
   up |-> TRUE,                                      \* the process runs
   ready |-> ~topo.slow]             \* its handler for client vectors is set

(* Mutant of NewSuper: one operation too many is counted. *)
MutantExtraOp ==
  [ops |-> 2 * DestNum + 2, result |-> Null, nreq |-> 0, reqs |-> <<>>,
   peer |-> Null, recv |-> <<>>, vecs |-> [p \in topo.peers |-> Junk]]

(* allreduce_super_request_allocate: a receive and a send per peer, and one *)
(* more that scatter completes itself.  vecs holds what the vectors taken   *)
(* from the pool for the peers contain; peer and recv say which is which.   *)
NewSuper ==
  [ops |-> 2 * DestNum + 1, result |-> Null, nreq |-> 0, reqs |-> <<>>,
   peer |-> Null, recv |-> <<>>, vecs |-> [p \in topo.peers |-> Junk]]

(* allreduce_super_request_get *)
Super(nd, id) == IF nd.sreq[id] = Null THEN NewSuper ELSE nd.sreq[id]

Message(am, n, to, id) ==
  [am |-> am, from |-> n, to |-> to, id |-> id,
   sent |-> FALSE, st |-> "posted", data |-> Null]

Rndv(m) == topo.rndv /\ m.id # 0

(* The vector a message is sent from, as it is now: the result vector of    *)
(* its operation, which at a client is one of allreduce_vectors.            *)
Payload(m) ==
  LET nd == node[m.from]
  IN  IF m.from \in Clients THEN nd.vec[Slot(m.id)]
      ELSE IF nd.sreq[m.id] = Null THEN Junk ELSE nd.sreq[m.id].result

-----------------------------------------------------------------------------
(* Callbacks, as functions of the state nd of the process n: the new state  *)
(* and the messages posted.                                                 *)

(* allreduce_complete_operation_callback with UCS_OK.  The last of the      *)
(* operations of a super request reduces what the peers sent into the       *)
(* result; a client then is done with it, a daemon sends it to its clients. *)
Complete(n, nd, id) ==
  LET s == [nd.sreq[id] EXCEPT !.ops = @ - 1]
      mine == IF n \in Clients THEN nd.vec[s.result] ELSE s.result
      all == IF s.peer = Null THEN mine ELSE Reduce(id, mine, s.vecs[s.peer])
  IN  IF s.ops > 0
      THEN [nd |-> [nd EXCEPT !.sreq[id] = s], post |-> {}]
      ELSE IF n \in Clients
      THEN [nd |-> [nd EXCEPT !.vec[s.result] = all, !.got[id] = all,
                              !.active = @ - 1, !.sreq[id] = Null],
            post |-> {}]
      ELSE [nd |-> [nd EXCEPT !.sreq[id] =
                      [s EXCEPT !.result = all, !.peer = Null, !.reqs = <<>>]],
            post |-> {Message("ctrl", n, c, id) : c \in Range(s.reqs)}]

(* allreduce_scatter *)
Scatter(n, nd, id) ==
  LET r == Complete(n, nd, id)
  IN  [nd |-> r.nd,
       post |-> {Message("op", n, p, id) : p \in topo.peers \ {n}} \cup r.post]

(* allreduce_gather_callback: the first vector of a peer is kept as the     *)
(* peers' result, the others in recv_vectors.                               *)
Gather(nd, id, from) ==
  LET s == [Super(nd, id) EXCEPT !.vecs[from] = Junk]
  IN  [nd EXCEPT !.sreq[id] =
         IF s.peer # Null THEN [s EXCEPT !.recv = Append(@, from)]
                          ELSE [s EXCEPT !.peer = from]]

(* allreduce_reduce_all over the vectors of the peers *)
ReducePeers(s, id) ==
  [s EXCEPT !.vecs[s.peer] =
     FoldLeft(LAMBDA acc, p : Reduce(id, acc, s.vecs[p]), @, s.recv)]

(* Mutant of GatherDone: a vector is reduced into the result when it comes. *)
MutantReduceEarly(n, nd, id, from, data) ==
  LET i == nd.sreq[id].result
  IN  Complete(n, IF n \in Clients /\ i # Null
                  THEN [nd EXCEPT !.vec[i] = Reduce(id, @, data)] ELSE nd, id)

(* Mutant of GatherDone: the test for the last vector is off by one. *)
MutantNeverLast(n, nd, id, from, data) ==
  LET s == [nd.sreq[id] EXCEPT !.vecs[from] = data]
  IN  Complete(n, [nd EXCEPT !.sreq[id] =
        IF Len(s.recv) = DestNum THEN ReducePeers(s, id) ELSE s], id)

(* _allreduce_gather_callback, with the data in place *)
GatherDone(n, nd, id, from, data) ==
  LET s == [nd.sreq[id] EXCEPT !.vecs[from] = data]
      t == IF Len(s.recv) + 1 = DestNum /\ Len(s.recv) > 0
           THEN ReducePeers(s, id) ELSE s
  IN  Complete(n, [nd EXCEPT !.sreq[id] = t], id)

(* daemon_am_recv_data_complete_callback: the vector of client c is reduced *)
(* into the result; the vector of the last client starts the exchange.      *)
ClientVector(n, nd, id, c, data) ==
  LET s == Super(nd, id)
      t == [s EXCEPT !.nreq = @ + 1, !.reqs = Append(@, c),
                     !.result = IF @ = Null THEN data ELSE Reduce(id, @, data)]
      nd1 == [nd EXCEPT !.sreq[id] = t]
  IN  IF t.nreq = Cardinality(ClientsOf(n)) THEN Scatter(n, nd1, id)
      ELSE [nd |-> nd1, post |-> {}]

(* client_am_recv_data_complete_callback *)
Result(nd, id, data) ==
  LET v == IF id = 0 THEN nd.vec[Slot(id)] ELSE data
  IN  [nd EXCEPT !.vec[Slot(id)] = v, !.got[id] = v, !.active = @ - 1,
                 !.sreq[id] = Null]

(* A message is complete: what its receive callback does at process n. *)
Received(n, nd, m, data) ==
  IF m.am = "op" THEN GatherDone(n, nd, m.id, m.from, data)
  ELSE IF n \in Clients
  THEN [nd |-> Result(nd, m.id, data), post |-> {}]
  ELSE ClientVector(n, nd, m.id, m.from, data)

(* Mutant of ResultSent: the super request is not released. *)
MutantKeepSuper(nd, id) == [nd EXCEPT !.sreq[id].nreq = @ - 1]

(* daemon_allreduce_complete_client_operation_callback, whatever the status *)
ResultSent(nd, id) ==
  LET s == [nd.sreq[id] EXCEPT !.nreq = @ - 1]
  IN  [nd EXCEPT !.sreq[id] = IF s.nreq = 0 THEN Null ELSE s]

(* The callback of a send that succeeded. *)
Sent(m, nd) ==
  IF m.am = "op" THEN Complete(m.from, nd, m.id)
  ELSE [nd |-> ResultSent(nd, m.id), post |-> {}]

-----------------------------------------------------------------------------
Init ==
  /\ topo \in Topologies
  /\ node = [n \in Nodes |-> NewNode]
  /\ msgs = {}

(* allreduce_batch_submit of the next batch, once allreduce_batch_wait has  *)
(* seen the end of the one before.  The barrier is a batch of one.          *)
BatchIds(nd) == IF nd.next = 0 THEN {0} ELSE nd.next..nd.next + topo.bs - 1

SubmitOne(c, r, id) ==
  LET s == [Super(r.nd, id) EXCEPT !.result = Slot(id)]
      nd == [r.nd EXCEPT !.vec[Slot(id)] = Own(c, id), !.sreq[id] = s,
                         !.active = @ + 1]
      t == IF topo.offloaded
           THEN [nd |-> nd, post |-> {Message("ctrl", c, topo.daemon[c], id)}]
           ELSE Scatter(c, nd, id)
  IN  [nd |-> t.nd, post |-> r.post \cup t.post]

Submit(c) ==
  /\ node[c].up /\ ~node[c].errno
  /\ node[c].active = 0
  /\ node[c].next <= LastId
  /\ LET ids == BatchIds(node[c])
         r == FoldLeft(LAMBDA acc, id : SubmitOne(c, acc, id),
                       [nd |-> [node[c] EXCEPT !.next = @ + Cardinality(ids)],
                        post |-> {}],
                       SetToSortSeq(ids, <))
     IN  /\ node' = [node EXCEPT ![c] = r.nd]
         /\ msgs' = msgs \cup r.post

(* daemon_run sets the handler for the vectors of the clients; the listener *)
(* has been open since communication_init.                                  *)
DaemonRun(d) ==
  /\ topo.offloaded /\ d \in topo.peers
  /\ node[d].up /\ ~node[d].ready
  /\ node' = [node EXCEPT ![d].ready = TRUE]
  /\ UNCHANGED msgs

(* allreduce_offloaded_complete_ctrl_send_callback only reports a failure:  *)
(* the completion of a client's send to its daemon is not followed.         *)
Untracked(m) == m.am = "ctrl" /\ m.from \in Clients

(* Message m becomes m1; a message both sent and received is gone. *)
Replace(m, m1) ==
  (msgs \ {m}) \cup
    (IF m1.st = "received" /\ (m1.sent \/ Untracked(m)) THEN {} ELSE {m1})

(* common_request_callback for a send *)
SendDone(m) ==
  /\ node[m.from].up /\ ~m.sent /\ ~Untracked(m)
  /\ Rndv(m) => m.st = "received"
  /\ LET r == Sent(m, node[m.from])
         m1 == [m EXCEPT !.sent = TRUE,
                         !.data = IF m.st = "received" THEN Null ELSE Payload(m)]
     IN  /\ node' = [node EXCEPT ![m.from] = r.nd]
         /\ msgs' = Replace(m, m1) \cup r.post

Handled(m) ==
  \/ m.am = "op"
  \/ m.to \in Clients
  \/ node[m.to].ready

(* am_recv_callback for an eager message: the data is copied and the        *)
(* receive callback called at once.                                         *)
EagerReceive(m) ==
  /\ ~Rndv(m) /\ m.st = "posted"
  /\ m.sent \/ node[m.from].up
  /\ node[m.to].up /\ Handled(m)
  /\ LET nd == IF m.am = "op" THEN Gather(node[m.to], m.id, m.from)
               ELSE node[m.to]
         r == Received(m.to, nd, m, IF m.sent THEN m.data ELSE Payload(m))
     IN  /\ node' = [node EXCEPT ![m.to] = r.nd]
         /\ msgs' = Replace(m, [m EXCEPT !.st = "received", !.data = Null])
                      \cup r.post

(* am_recv_callback for the announcement of a rendezvous: the buffer is     *)
(* chosen and the transfer started.                                         *)
RndvArrive(m) ==
  /\ Rndv(m) /\ m.st = "posted"
  /\ node[m.to].up /\ Handled(m)
  /\ node' = IF m.am = "op"
             THEN [node EXCEPT ![m.to] = Gather(@, m.id, m.from)] ELSE node
  /\ msgs' = Replace(m, [m EXCEPT !.st = "arrived"])

(* common_request_callback for the data of a rendezvous *)
RndvReceive(m) ==
  /\ m.st = "arrived"
  /\ node[m.to].up
  /\ LET r == Received(m.to, node[m.to], m, Payload(m))
     IN  /\ node' = [node EXCEPT ![m.to] = r.nd]
         /\ msgs' = Replace(m, [m EXCEPT !.st = "received"]) \cup r.post

(* UCX drops a message for which no handler is set. *)
Unhandled(m) ==
  /\ m.st = "posted"
  /\ node[m.to].up /\ ~Handled(m)
  /\ msgs' = Replace(m, [m EXCEPT !.st = "received", !.data = Null])
  /\ UNCHANGED node

(* A send completes with an error, and the message is lost if it was not    *)
(* received.  The callbacks report it through callback_errno, except that   *)
(* of a daemon's answer, which looks at no status.                          *)
SendFails(m) ==
  /\ topo.fails
  /\ node[m.from].up /\ ~m.sent
  /\ node' = [node EXCEPT ![m.from] =
                IF m.am = "ctrl" /\ m.from \notin Clients
                THEN ResultSent(@, m.id) ELSE [@ EXCEPT !.errno = TRUE]]
  /\ msgs' = msgs \ {m}

(* allreduce_ucx_progress returns callback_errno: a client exits, a daemon  *)
(* leaves its loop.                                                         *)
Exit(n) ==
  /\ node[n].up /\ node[n].errno
  /\ node' = [node EXCEPT ![n].up = FALSE]
  /\ UNCHANGED msgs

Progress ==
  /\ \/ \E c \in Clients : Submit(c)
     \/ \E d \in Nodes : DaemonRun(d)
     \/ \E m \in msgs :
          \/ SendDone(m)
          \/ EagerReceive(m)
          \/ RndvArrive(m)
          \/ RndvReceive(m)
          \/ Unhandled(m)
     \/ \E n \in Nodes : Exit(n)
  /\ UNCHANGED topo

Fault == (\E m \in msgs : SendFails(m)) /\ UNCHANGED topo

Next == Progress \/ Fault

(* Every process polls its worker until it ends, so some step that can be   *)
(* taken is taken in the end.                                               *)
Spec == Init /\ [][Next]_vars /\ WF_vars(Progress)
-----------------------------------------------------------------------------
Vector(v) == IsABag(v)

(* The state of every process has its type; a client waits for as many     *)
(* operations as it has super requests of its own.                         *)
TypeOK ==
  /\ topo \in Topologies
  /\ \A n \in Nodes :
       LET nd == node[n]
       IN  /\ \A id \in Ids : nd.sreq[id] # Null =>
                /\ nd.sreq[id].ops \in 0..2 * DestNum + 1
                /\ Len(nd.sreq[id].recv) < DestNum \/ DestNum = 0
                /\ \A p \in topo.peers : Vector(nd.sreq[id].vecs[p])
           /\ nd.next \in 0..LastId + 1
           /\ nd.active =
                Cardinality({id \in Ids : id < nd.next /\ nd.got[id] = Null})
           /\ {nd.errno, nd.up, nd.ready} \subseteq BOOLEAN
  /\ \A m \in msgs : m.from \in Nodes /\ m.to \in Nodes \ {m.from}

(* The application implements ReduceSpec: whatever the interleaving of the *)
(* callbacks, an operation ends at a client only after every client has    *)
(* submitted it, with each client's vector in the result exactly once.     *)
Reduction == INSTANCE ReduceSpec WITH
  plan <- [clients |-> Clients, bs |-> topo.bs, last |-> LastId],
  next <- [c \in Clients |-> node[c].next],
  got <- [c \in Clients |-> node[c].got]
ImplementsReduction == Reduction!RSpec

(* The result of an operation has each client's vector once: the vectors   *)
(* of the peers are reduced only when all of them have been received       *)
(* (_allreduce_gather_callback).                                           *)
EachVectorOnce ==
  \A c \in Clients, id \in Ids :
    node[c].got[id] # Null => node[c].got[id] = Reduction!Full(c, id)

(* A vector is not changed while a send of it is pending                   *)
(* (allreduce_complete_operation_callback reduces into the result only     *)
(* after the sends have completed; a client resets its vectors only after  *)
(* the batch has ended).                                                   *)
SendStable ==
  [][\A m \in msgs \cap msgs' : m.data = Null /\ m.st # "received" =>
       Payload(m)' = Payload(m)]_vars

(* The pools are made for two batches (allreduce_init_mempools: "this is   *)
(* the maximum amount that can be held at once"): no process has super     *)
(* requests of more than two batches whose exchange has not ended.         *)
Batch(id) == (id + topo.bs - 1) \div topo.bs
TwoBatches ==
  \A n \in Nodes :
    Cardinality({Batch(id) : id \in {i \in Ids :
      node[n].sreq[i] # Null /\ node[n].sreq[i].ops > 0}}) <= 2

(* Nothing is left behind: when every client has finished and every send   *)
(* has completed, no process holds a super request, so all vectors are     *)
(* back in their pools.                                                    *)
Finished(c) == node[c].next > LastId /\ node[c].active = 0
NothingLeft ==
  (msgs = {} /\ \A c \in Clients : Finished(c)) =>
    \A n \in Nodes, id \in Ids : node[n].sreq[id] = Null

(* Without failures, and with daemons whose handlers are set before their  *)
(* clients connect, every client finishes all its batches.                 *)
EveryBatchEnds ==
  ~topo.fails /\ ~topo.slow => <>(\A c \in Clients : Finished(c))
=============================================================================
