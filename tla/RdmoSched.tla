------------------------------ MODULE RdmoSched ------------------------------
(***************************************************************************)
(* The request scheduler of the UROM RDMO worker                           *)
(* (applications/urom_rdmo/dpu/worker_rdmo_ops.c).  The worker runs on one *)
(* thread: UCX calls urom_worker_rdmo_am_cb when a request arrives and     *)
(* urom_worker_rdmo_op_cb when an operation it posted completes.  A        *)
(* request is started at once, parked on its client's paused_ops, or       *)
(* parked on its endpoint's fenced_ops; a completion releases parked       *)
(* requests.                                                               *)
(*                                                                         *)
(* What ops->progress does to memory is left to RdmoWorker.  Here it only  *)
(* has a result: done is TRUE when it returned DOCA_SUCCESS (the callers   *)
(* tell no other results apart), and p is the value it left in             *)
(* client->pause.                                                          *)
(*                                                                         *)
(* The loops of check_paused and check_fenced take one step per request.   *)
(* `at' says where the running handler is, and no other handler runs until *)
(* it is back at "idle".                                                   *)
(***************************************************************************)
EXTENDS Integers, Sequences, FiniteSets

CONSTANTS
    Eps,      \* initiator connections: struct urom_worker_rdmo_ep
    Clients,  \* struct urom_worker_rdmo_client
    Shapes,   \* the requests an initiator may send
    MaxReqs   \* bound: how many requests arrive

ASSUME ShapesAssumption ==
    \A q \in Shapes : q.ep \in Eps /\ q.client \in Clients /\ q.fence \in BOOLEAN

ASSUME MaxReqsAssumption == MaxReqs \in Nat

VARIABLES
    reqs,     \* the requests that arrived, in the order they arrived
    where,    \* where each request is
    fenced,   \* ep->fenced_ops
    oreqs,    \* ep->oreqs
    paused,   \* client->paused_ops
    pause,    \* client->pause
    at,       \* the place of the running handler, "idle" between handlers
    cur       \* the request urom_worker_rdmo_req_complete was called with

schedVars == <<reqs, where, fenced, oreqs, paused, pause, at, cur>>

Ids == 1 .. MaxReqs
Arrived == 1 .. Len(reqs)

Ep(r) == reqs[r].ep
Client(r) == reqs[r].client

SchedInit ==
    /\ reqs = <<>>
    /\ where = [r \in Ids |-> "none"]
    /\ fenced = [e \in Eps |-> <<>>]
    /\ oreqs = [e \in Eps |-> 0]
    /\ paused = [c \in Clients |-> <<>>]
    /\ pause = [c \in Clients |-> FALSE]
    /\ at = "idle"
    /\ cur = 0

-----------------------------------------------------------------------------
MutantNoFenceWait(q) == fenced[q.ep] # <<>>
MutantNoListTest(q) == q.fence /\ oreqs[q.ep] # 0

(* The test of req_start: may request q not start now? *)
MustFence(q) == fenced[q.ep] # <<>> \/ (q.fence /\ oreqs[q.ep] # 0)

(* The test of req_queue: is the client's gate closed? *)
Gated(q) == paused[q.client] # <<>> \/ pause[q.client]

(* oreqs++, ops->progress and, if it is done, req_free. *)
Launch(r, q, done, p) ==
    /\ where' = [where EXCEPT ![r] = IF done THEN "freed" ELSE "active"]
    /\ oreqs' = [oreqs EXCEPT ![q.ep] = IF done THEN @ ELSE @ + 1]
    /\ pause' = [pause EXCEPT ![q.client] = p]

(* A new request has arrived: urom_worker_rdmo_am_cb builds it. *)
Arrive(q) ==
    /\ at = "idle"
    /\ Len(reqs) < MaxReqs
    /\ reqs' = Append(reqs, q)
    /\ UNCHANGED <<at, cur>>

ReqQueuePause(q) ==
    /\ Arrive(q)
    /\ Gated(q)
    /\ paused' = [paused EXCEPT ![q.client] = Append(@, Len(reqs) + 1)]
    /\ where' = [where EXCEPT ![Len(reqs) + 1] = "paused"]
    /\ UNCHANGED <<fenced, oreqs, pause>>

ReqQueueFence(q) ==
    /\ Arrive(q)
    /\ ~ Gated(q)
    /\ MustFence(q)
    /\ fenced' = [fenced EXCEPT ![q.ep] = Append(@, Len(reqs) + 1)]
    /\ where' = [where EXCEPT ![Len(reqs) + 1] = "fenced"]
    /\ UNCHANGED <<oreqs, paused, pause>>

ReqQueueStart(q, done, p) ==
    /\ Arrive(q)
    /\ ~ Gated(q)
    /\ ~ MustFence(q)
    /\ Launch(Len(reqs) + 1, q, done, p)
    /\ UNCHANGED <<fenced, paused>>

-----------------------------------------------------------------------------
(* An operation of request r completed and ops->progress is not done yet. *)
OpCbContinue(r, p) ==
    /\ at = "idle"
    /\ where[r] = "active"
    /\ pause' = [pause EXCEPT ![Client(r)] = p]
    /\ UNCHANGED <<reqs, where, fenced, oreqs, paused, at, cur>>

MutantSkipPaused(r, p) ==
    /\ at = "idle"
    /\ where[r] = "active"
    /\ where' = [where EXCEPT ![r] = "freed"]
    /\ oreqs' = [oreqs EXCEPT ![Ep(r)] = @ - 1]
    /\ pause' = [pause EXCEPT ![Client(r)] = p]
    /\ at' = "check_fenced"
    /\ cur' = r
    /\ UNCHANGED <<reqs, fenced, paused>>

(* An operation of request r completed and ops->progress is done: the      *)
(* request is freed, then check_paused and check_fenced run.               *)
OpCbComplete(r, p) ==
    /\ at = "idle"
    /\ where[r] = "active"
    /\ where' = [where EXCEPT ![r] = "freed"]
    /\ oreqs' = [oreqs EXCEPT ![Ep(r)] = @ - 1]
    /\ pause' = [pause EXCEPT ![Client(r)] = p]
    /\ at' = "check_paused"
    /\ cur' = r
    /\ UNCHANGED <<reqs, fenced, paused>>

(* The while condition of check_paused. *)
PausedMore(c) == ~ pause[c] /\ paused[c] # <<>>

(* One turn of the loop: extract the head and req_start it, which parks it *)
(* again ...                                                               *)
CheckPausedFence ==
    LET c == Client(cur)
        r == Head(paused[c])
    IN  /\ at = "check_paused"
        /\ PausedMore(c)
        /\ MustFence(reqs[r])
        /\ paused' = [paused EXCEPT ![c] = Tail(@)]
        /\ fenced' = [fenced EXCEPT ![Ep(r)] = Append(@, r)]
        /\ where' = [where EXCEPT ![r] = "fenced"]
        /\ UNCHANGED <<reqs, oreqs, pause, at, cur>>

(* ... or launches it. *)
CheckPausedStart(r, done, p) ==
    LET c == Client(cur)
    IN  /\ at = "check_paused"
        /\ PausedMore(c)
        /\ r = Head(paused[c])
        /\ ~ MustFence(reqs[r])
        /\ paused' = [paused EXCEPT ![c] = Tail(@)]
        /\ Launch(r, reqs[r], done, p)
        /\ UNCHANGED <<reqs, fenced, at, cur>>

MutantSkipFenced ==
    /\ at = "check_paused"
    /\ ~ PausedMore(Client(cur))
    /\ at' = "idle"
    /\ UNCHANGED <<reqs, where, fenced, oreqs, paused, pause, cur>>

CheckPausedEnd ==
    /\ at = "check_paused"
    /\ ~ PausedMore(Client(cur))
    /\ at' = "check_fenced"
    /\ UNCHANGED <<reqs, where, fenced, oreqs, paused, pause, cur>>

(* The early return of check_fenced, or its loop is entered. *)
CheckFencedEnter ==
    LET e == Ep(cur)
    IN  /\ at = "check_fenced"
        /\ at' = IF oreqs[e] # 0 \/ fenced[e] = <<>> THEN "idle" ELSE "fenced_loop"
        /\ UNCHANGED <<reqs, where, fenced, oreqs, paused, pause, cur>>

(* The loop of check_fenced goes on: the list is not empty and its head is *)
(* not a fence behind an outstanding request.                              *)
FencedMore(e) ==
    /\ fenced[e] # <<>>
    /\ ~ (reqs[Head(fenced[e])].fence /\ oreqs[e] # 0)

CheckFencedStart(r, done, p) ==
    LET e == Ep(cur)
    IN  /\ at = "fenced_loop"
        /\ FencedMore(e)
        /\ r = Head(fenced[e])
        /\ fenced' = [fenced EXCEPT ![e] = Tail(@)]
        /\ Launch(r, reqs[r], done, p)
        /\ UNCHANGED <<reqs, paused, at, cur>>

CheckFencedEnd ==
    /\ at = "fenced_loop"
    /\ ~ FencedMore(Ep(cur))
    /\ at' = "idle"
    /\ UNCHANGED <<reqs, where, fenced, oreqs, paused, pause, cur>>

-----------------------------------------------------------------------------
SchedNext ==
    \/ \E q \in Shapes : ReqQueuePause(q) \/ ReqQueueFence(q)
    \/ \E q \in Shapes, done, p \in BOOLEAN : ReqQueueStart(q, done, p)
    \/ \E r \in Arrived, p \in BOOLEAN : OpCbContinue(r, p) \/ OpCbComplete(r, p)
    \/ \E r \in Arrived, done, p \in BOOLEAN :
          CheckPausedStart(r, done, p) \/ CheckFencedStart(r, done, p)
    \/ CheckPausedFence
    \/ CheckPausedEnd
    \/ CheckFencedEnter
    \/ CheckFencedEnd

SchedSpec == SchedInit /\ [][SchedNext]_schedVars

-----------------------------------------------------------------------------
(* Properties *)

Places == {"none", "paused", "fenced", "active", "freed"}
HandlerPlaces == {"idle", "check_paused", "check_fenced", "fenced_loop"}

\* The type invariant of the scheduler's lists and counters
\* (struct urom_worker_rdmo_ep, _client and _req).
SchedTypeOK ==
    /\ reqs \in Seq(Shapes) /\ Len(reqs) <= MaxReqs
    /\ where \in [Ids -> Places]
    /\ fenced \in [Eps -> Seq(Arrived)]
    /\ oreqs \in [Eps -> Int]
    /\ paused \in [Clients -> Seq(Arrived)]
    /\ pause \in [Clients -> BOOLEAN]
    /\ at \in HandlerPlaces
    /\ cur \in 0 .. Len(reqs)
    /\ at # "idle" => cur # 0

Started(r) == where[r] \in {"active", "freed"}

(* Every connection is used for one client only, as urom_rdmo_core.c does. *)
DedicatedEps == \A q1, q2 \in Shapes : q1.ep = q2.ep => q1.client = q2.client

\* "Complete outstanding ops on this connection before executing request"
\* (UROM_RDMO_REQ_FLAG_FENCE): when a request that carries the flag has been
\* started, every request that arrived before it on its connection is complete.
FenceRespected ==
    \A r1, r2 \in Arrived :
        r1 < r2 /\ Ep(r1) = Ep(r2) /\ reqs[r2].fence /\ Started(r2) => where[r1] = "freed"

\* Requests of one connection are started in the order they arrived, whichever
\* of paused_ops and fenced_ops they waited on.
StartsInOrder ==
    \A r1, r2 \in Arrived :
        r1 < r2 /\ Ep(r1) = Ep(r2) /\ Started(r2) => Started(r1)

\* No lost wake-up: between handlers, a request waits on fenced_ops only behind a
\* request of its connection whose completion will run check_fenced.
FencedHeld ==
    at = "idle" =>
        \A e \in Eps : fenced[e] # <<>> =>
            \E r \in Arrived : Ep(r) = e /\ where[r] = "active"

-----------------------------------------------------------------------------
(* The inductive invariant behind FenceRespected, StartsInOrder, FencedHeld *)

Members(s) == {s[i] : i \in 1 .. Len(s)}
Increasing(s) == \A i, j \in 1 .. Len(s) : i < j => s[i] < s[j]

FencedOn(e) == {r \in Arrived : Ep(r) = e /\ where[r] = "fenced"}
PausedOn(c) == {r \in Arrived : Client(r) = c /\ where[r] = "paused"}

(* A parked request is on exactly the list `where' says, in arrival order. *)
Parked ==
    /\ \A r \in Ids : where[r] = "none" <=> r > Len(reqs)
    /\ \A e \in Eps : Members(fenced[e]) = FencedOn(e) /\ Increasing(fenced[e])
    /\ \A c \in Clients : Members(paused[c]) = PausedOn(c) /\ Increasing(paused[c])

(* The requests of one connection are started, then fenced, then paused. *)
Ordered ==
    \A r1, r2 \in Arrived : r1 < r2 /\ Ep(r1) = Ep(r2) =>
        /\ Started(r2) => Started(r1)
        /\ where[r2] = "fenced" => where[r1] # "paused"

ActiveOn(e) == {r \in Arrived : Ep(r) = e /\ where[r] = "active"}

(* oreqs counts the started and not yet freed requests of the connection. *)
Counted == \A e \in Eps : oreqs[e] = Cardinality(ActiveOn(e))

(* A connection whose fenced_ops is not empty has an outstanding request,  *)
(* except while the handler that will look at the list is running.         *)
Held ==
    \A e \in Eps : fenced[e] # <<>> /\ (at = "idle" \/ Ep(cur) # e) => oreqs[e] # 0

SchedInv == SchedTypeOK /\ Parked /\ Ordered /\ Counted /\ Held /\ FenceRespected

=============================================================================
