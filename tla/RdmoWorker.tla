----------------------------- MODULE RdmoWorker -----------------------------
(***************************************************************************)
(* The RDMO worker with its progress handlers: flush, append and scatter   *)
(* (applications/urom_rdmo/dpu/worker_rdmo_ops.c), the pointer cache, the  *)
(* operations they post through UCX and the host memory they change.       *)
(*                                                                         *)
(* Every step is a step of RdmoSched together with what ops->progress does *)
(* in it, so the scheduler's state and guards are the ones of that module. *)
(*                                                                         *)
(* A registered memory region holds one receive queue: the pointer word,   *)
(* and Cap cells that the pointer, an offset from 0, runs through.         *)
(*                                                                         *)
(* UCX and the NIC are external, and modelled by what ucp_api.h promises.  *)
(* A Put may be complete for the worker before it is in host memory.       *)
(* Operations on the client's endpoint take effect in any order, except    *)
(* that a fence separates the ones before it from the ones after it, that  *)
(* operations on one pointer word keep their order, and that a flush       *)
(* completes when everything before it has taken effect.  The fetch of a   *)
(* rendezvous payload runs on the initiator's endpoint and is not ordered  *)
(* by any of these.                                                        *)
(***************************************************************************)
EXTENDS RdmoSched

CONSTANTS
    Queues,    \* registered memory regions: client->mkeys
    Owner,     \* the client each region belongs to
    SmQueues,  \* regions that ucp_rkey_ptr can map into the worker
    MemhQueues,\* regions registered with a memory handle (xGVMI)
    Cap,       \* cells of a queue: rdmo_mkey->len
    Unknown,   \* an rkey that is not registered
    OutOfBounds, \* an iov outside its region
    MayFail,   \* may UCX calls and allocations fail?
    Waits      \* do initiators wait for the response to a flush (rdmo_flush)?

ASSUME WorkerAssumption ==
    /\ IsFiniteSet(Queues) /\ Owner \in [Queues -> Clients]
    /\ SmQueues \subseteq Queues /\ MemhQueues \subseteq Queues
    /\ Cap \in Nat /\ MayFail \in BOOLEAN /\ Waits \in BOOLEAN
    /\ Unknown \notin Queues /\ OutOfBounds \notin Queues

ASSUME RequestsAssumption ==
    \A q \in Shapes :
        /\ q.op \in {"flush", "append", "scatter"}
        /\ q.len \in Nat /\ q.rndv \in BOOLEAN
        /\ q.iovs \in Seq(Queues \cup {Unknown, OutOfBounds})

VARIABLES
    ctx0,    \* req->ctx[0], the stage of a request
    ctx1,    \* req->ctx[1]: the pointer of an append, the pending Puts of a scatter
    cache,   \* mkey->mem_cache: the cached pointer, or NotCached
    comp,    \* completions of each request that UCX has not reported yet
    rma,     \* what is posted on each client's endpoint and not yet in effect
    rndv,    \* appends whose rendezvous payload is being fetched
    ptr,     \* host memory: the pointer words
    landed,  \* host memory: <<request, piece>> whose payload has been written
    acked    \* flush requests whose response was sent

dataVars == <<ctx0, ctx1, cache, comp, rma, rndv, ptr, landed, acked>>
vars == <<schedVars, dataVars>>

NotCached == -1
Mkeys(c) == {q \in Queues : Owner[q] = c}
Cached(c) == {q \in Mkeys(c) : cache[q] # NotCached}

WorkerInit ==
    /\ SchedInit
    /\ ctx0 = [r \in Ids |-> 0]
    /\ ctx1 = [r \in Ids |-> 0]
    /\ cache = [q \in Queues |-> NotCached]
    /\ comp = [r \in Ids |-> 0]
    /\ rma = [c \in Clients |-> <<>>]
    /\ rndv = {}
    /\ ptr = [q \in Queues |-> 0]
    /\ landed = {}
    /\ acked = {}

-----------------------------------------------------------------------------
(* What is posted on an endpoint: a Put of piece n of request r to queue q, *)
(* a Put of n to the pointer word of q, a Get of that word for r, a Get     *)
(* whose result nobody reads, a fence, a flush that completes for r.        *)
Op(kind, r, q, n) == [kind |-> kind, req |-> r, q |-> q, n |-> n]
Fence == Op("fence", 0, Unknown, 0)

Post(c, ops) == rma' = [rma EXCEPT ![c] = @ \o ops]

(* The orders in which a loop may visit the members of a finite set. *)
Orders(S) == {s \in [1 .. Cardinality(S) -> S] : S = Members(s)}

(* Mutant of WithFence: no fence is posted. *)
MutantNoFence(s) == s

(* ucp_worker_fence, on one endpoint. *)
WithFence(s) == IF s = <<>> \/ s[Len(s)].kind = "fence" THEN s ELSE Append(s, Fence)

(* Handler of request r stops in stage k; n of its completions are to come. *)
Stage(r, k, n) == ctx0' = [ctx0 EXCEPT ![r] = k] /\ comp' = [comp EXCEPT ![r] = n]

(* urom_worker_rdmo_flush_progress, from stage 1: send the response. *)
FlushRespond(r, n, done) ==
    \/ /\ acked' = acked \cup {r}
       /\ Stage(r, 2, IF done THEN n ELSE n + 1)
    \/ /\ MayFail /\ ~ done
       /\ Stage(r, 1, n)
       /\ UNCHANGED acked

(* urom_worker_rdmo_mem_cache_flush: the cached pointers that are posted,  *)
(* the ones deleted but not posted (the pool is empty, or the Put fails    *)
(* and ends the loop), and the ones that stay.  A loop that ends is        *)
(* followed by a Get of the first pointer; a Put or a Get that fails       *)
(* leaves none (get is Unknown).                                           *)
CacheFlush(c, posted, lost, get) ==
    /\ posted \cap lost = {}
    /\ lost # {} => MayFail
    /\ lost = {} => posted = Cached(c)
    /\ get # Unknown => posted \cup lost = Cached(c)
    /\ get = Unknown => MayFail \/ Cached(c) = {}
    /\ cache' = [q \in Queues |-> IF q \in posted \cup lost THEN NotCached ELSE cache[q]]

FlushingGet(get) == IF get = Unknown THEN <<>> ELSE <<Op("read", 0, get, 0)>>

(* Mutant of PointerPuts: the cache is emptied, its pointers are not written. *)
MutantDropPointers(s, get) == IF s = <<>> THEN s ELSE FlushingGet(get)

(* The Puts of the cached pointers of the queues s, and the flushing Get. *)
PointerPuts(s, get) ==
    [i \in 1 .. Len(s) |-> Op("ptr", 0, s[i], cache[s[i]])] \o FlushingGet(get)

(* Stage 0: fence, write the cached pointers, flush the endpoint. *)
FlushRma(r, q, n, done) ==
    \E posted \in SUBSET Cached(q.client) : \E lost \in SUBSET Cached(q.client) :
    \E order \in Orders(posted) : \E get \in Cached(q.client) \cup {Unknown} :
        LET c == q.client
            fences == [d \in Clients |-> WithFence(rma[d])]
            s == fences[c] \o PointerPuts(order, get)
        IN  /\ CacheFlush(c, posted, lost, get)
            /\ get \in posted => get = order[1]
            /\ \/ /\ ~ done
                  /\ rma' = [fences EXCEPT ![c] = Append(s, Op("flush", r, Unknown, 0))]
                  /\ Stage(r, 1, n)
                  /\ UNCHANGED acked
               \/ /\ s = <<>>
                  /\ rma' = fences
                  /\ FlushRespond(r, n, done)
               \/ /\ MayFail /\ ~ done
                  /\ rma' = [fences EXCEPT ![c] = s]
                  /\ Stage(r, 0, n)
                  /\ UNCHANGED acked

FlushProgress(r, q, n, done, p) ==
    /\ p = pause[q.client]
    /\ UNCHANGED <<ctx1, rndv, ptr, landed>>
    /\ \/ ctx0[r] = 0 /\ FlushRma(r, q, n, done)
       \/ /\ ctx0[r] = 0 /\ MayFail /\ ~ done
          /\ Stage(r, 0, n)
          /\ UNCHANGED <<cache, rma, acked>>
       \/ /\ ctx0[r] = 1
          /\ FlushRespond(r, n, done)
          /\ UNCHANGED <<cache, rma>>
       \/ /\ ctx0[r] = 2 /\ done
          /\ Stage(r, 2, n)
          /\ UNCHANGED <<cache, rma, acked>>

-----------------------------------------------------------------------------
(* urom_worker_rdmo_append_progress, from stage 2: write the payload at a. *)
AppendPut(r, q, a, n, done) ==
    /\ ctx1' = [ctx1 EXCEPT ![r] = a]
    /\ \/ /\ q.dq \notin Mkeys(q.client) /\ done
          /\ Stage(r, 2, n)
          /\ UNCHANGED <<rma, rndv, ptr, landed>>
       \/ /\ q.dq \in Mkeys(q.client) /\ ~ done
          /\ \/ a + q.len > Cap
             \/ q.rndv /\ q.dq \notin MemhQueues
             \/ MayFail /\ (q.rndv \/ q.dq \notin SmQueues)
          /\ Stage(r, 2, n)
          /\ UNCHANGED <<rma, rndv, ptr, landed>>
       \/ /\ q.dq \in Mkeys(q.client) /\ a + q.len <= Cap
          /\ q.rndv /\ q.dq \in MemhQueues
          /\ Stage(r, 3, n)
          /\ rndv' = IF done THEN rndv ELSE rndv \cup {r}
          /\ landed' = IF done THEN landed \cup {<<r, 1>>} ELSE landed
          /\ UNCHANGED <<rma, ptr>>
       \/ /\ q.dq \in Mkeys(q.client) \ SmQueues /\ a + q.len <= Cap
          /\ ~ q.rndv
          /\ Stage(r, 3, IF done THEN n ELSE n + 1)
          /\ Post(q.client, <<Op("put", r, q.dq, 1)>>)
          /\ UNCHANGED <<rndv, ptr, landed>>
       \/ /\ q.dq \in Mkeys(q.client) \cap SmQueues /\ a + q.len <= Cap
          /\ ~ q.rndv /\ done
          /\ Stage(r, 2, n)
          /\ landed' = landed \cup {<<r, 1>>}
          /\ ptr' = [ptr EXCEPT ![q.q] = @ + q.len]
          /\ UNCHANGED <<rma, rndv>>

(* Mutant of AppendCache: the cached pointer is not advanced. *)
MutantKeepPointer(r, q, a, n, done, p) ==
    /\ cache' = [cache EXCEPT ![q.q] = a]
    /\ p = FALSE
    /\ AppendPut(r, q, a, n, done)

(* Stage 1: the pointer is known, advance it in the cache, open the gate.  *)
(* Inserting it may fail, which leaves the gate as it is.                  *)
AppendCache(r, q, a, n, done, p) ==
    \/ /\ cache' = [cache EXCEPT ![q.q] = a + q.len]
       /\ p = FALSE
       /\ AppendPut(r, q, a, n, done)
    \/ /\ MayFail /\ cache[q.q] = NotCached /\ ~ done
       /\ p = pause[q.client]
       /\ Stage(r, 1, n)
       /\ UNCHANGED <<ctx1, cache, rma, rndv, ptr, landed>>

(* Read the pointer from the host, with the gate closed. *)
AppendGet(r, q, n, p) ==
    \/ p = TRUE /\ Stage(r, 1, n) /\ Post(q.client, <<Op("get", r, q.q, 0)>>)
    \/ MayFail /\ p = pause[q.client] /\ Stage(r, 0, n) /\ UNCHANGED rma

(* Stage 0: the pointer comes from shared memory, from the cache or from   *)
(* a Get.                                                                  *)
AppendPointer(r, q, n, done, p) ==
    \/ /\ q.q \notin Mkeys(q.client) /\ done
       /\ p = pause[q.client]
       /\ Stage(r, 0, n)
       /\ UNCHANGED <<ctx1, cache, rma, rndv, ptr, landed>>
    \/ /\ q.q \in Mkeys(q.client) \cap SmQueues
       /\ p = pause[q.client]
       /\ AppendPut(r, q, ptr[q.q], n, done)
       /\ UNCHANGED cache
    \/ /\ q.q \in Cached(q.client) \ SmQueues
       /\ AppendCache(r, q, cache[q.q], n, done, p)
    \/ /\ q.q \in Mkeys(q.client) \ (SmQueues \cup Cached(q.client)) /\ ~ done
       /\ AppendGet(r, q, n, p)
       /\ UNCHANGED <<ctx1, cache, rndv, ptr, landed>>

AppendProgress(r, q, n, done, p) ==
    /\ UNCHANGED acked
    /\ \/ ctx0[r] = 0 /\ AppendPointer(r, q, n, done, p)
       \/ ctx0[r] = 1 /\ AppendCache(r, q, ctx1[r], n, done, p)
       \/ /\ ctx0[r] = 3 /\ done
          /\ p = pause[q.client]
          /\ Stage(r, 3, n)
          /\ UNCHANGED <<ctx1, cache, rma, rndv, ptr, landed>>

-----------------------------------------------------------------------------
(* Mutant of ScatterDone: the last pending Put is not waited for. *)
MutantLastPending(pending) == pending <= 1

(* Stage 3 of a scatter: no Put is pending. *)
ScatterDone(pending) == pending = 0

(* urom_worker_rdmo_scatter_progress, stage 0: iovs 1 .. last are written, *)
(* `waiting' are the Puts among them that UCX will complete by a callback. *)
ScatterPuts(r, q, last, waiting, c1, n) ==
    LET local == {i \in 1 .. last : q.iovs[i] \in SmQueues}
        pending == c1 + Cardinality(waiting)
    IN  /\ \E s \in Orders((1 .. last) \ local) :
              /\ Increasing(s)
              /\ Post(q.client, [j \in 1 .. Len(s) |-> Op("put", r, q.iovs[s[j]], s[j])])
        /\ landed' = landed \cup {<<r, i>> : i \in local}
        /\ ctx1' = [ctx1 EXCEPT ![r] = pending]
        /\ Stage(r, IF last = Len(q.iovs) THEN 1 ELSE 0, n + Cardinality(waiting))

ScatterLoop(r, q, c1, n, done) ==
    \E last \in 0 .. Len(q.iovs) :
        LET good(i) == q.iovs[i] \in Mkeys(q.client)
        IN  /\ \A i \in 1 .. last : good(i)
            /\ \E waiting \in SUBSET {i \in 1 .. last : q.iovs[i] \notin SmQueues} :
                  /\ ScatterPuts(r, q, last, waiting, c1, n)
                  /\ \/ last = Len(q.iovs) /\ (done <=> ScatterDone(c1 + Cardinality(waiting)))
                     \/ last < Len(q.iovs) /\ q.iovs[last + 1] = Unknown /\ done
                     \/ last < Len(q.iovs) /\ q.iovs[last + 1] = OutOfBounds /\ ~ done
                     \/ last < Len(q.iovs) /\ good(last + 1) /\ MayFail /\ ~ done

ScatterProgress(r, q, c1, n, done, p) ==
    /\ p = pause[q.client]
    /\ UNCHANGED <<cache, rndv, ptr, acked>>
    /\ \/ /\ ctx0[r] = 0 /\ q.rndv /\ ~ done
          /\ Stage(r, 0, n)
          /\ UNCHANGED <<ctx1, rma, landed>>
       \/ ctx0[r] = 0 /\ ~ q.rndv /\ ScatterLoop(r, q, c1, n, done)
       \/ /\ ctx0[r] = 1 /\ (done <=> ScatterDone(c1))
          /\ ctx1' = [ctx1 EXCEPT ![r] = c1]
          /\ Stage(r, 1, n)
          /\ UNCHANGED <<rma, landed>>

(* req->ops->progress, with n completions of r still to come. *)
Progress(r, q, n, done, p) ==
    \/ q.op = "flush" /\ FlushProgress(r, q, n, done, p)
    \/ q.op = "append" /\ AppendProgress(r, q, n, done, p)
    \/ q.op = "scatter" /\ ScatterProgress(r, q, ctx1[r], n, done, p)

(* The same from a completion callback, which for a scatter first counts   *)
(* the Put as complete (urom_worker_rdmo_scatter_op_send_cb).              *)
ProgressCb(r, done, p) ==
    LET q == reqs[r]
        n == comp[r] - 1
    IN  IF q.op = "scatter"
        THEN ScatterProgress(r, q, ctx1[r] - 1, n, done, p)
        ELSE Progress(r, q, n, done, p)

-----------------------------------------------------------------------------
(* An initiator that waits sends nothing on a connection before its last   *)
(* flush was answered.                                                     *)
MaySend(q) ==
    Waits => \A r \in Arrived : Ep(r) = q.ep /\ reqs[r].op = "flush" => r \in acked

AmCb(q) ==
    /\ MaySend(q)
    /\ \/ (ReqQueuePause(q) \/ ReqQueueFence(q)) /\ UNCHANGED dataVars
       \/ \E done, p \in BOOLEAN :
             ReqQueueStart(q, done, p) /\ Progress(Len(reqs) + 1, q, 0, done, p)

OpCb(r) ==
    /\ comp[r] > 0
    /\ \E p \in BOOLEAN :
          \/ OpCbContinue(r, p) /\ ProgressCb(r, FALSE, p)
          \/ OpCbComplete(r, p) /\ ProgressCb(r, TRUE, p)

CheckPaused ==
    \/ (CheckPausedFence \/ CheckPausedEnd) /\ UNCHANGED dataVars
    \/ \E r \in Arrived, done, p \in BOOLEAN :
          CheckPausedStart(r, done, p) /\ Progress(r, reqs[r], 0, done, p)

CheckFenced ==
    \/ (CheckFencedEnter \/ CheckFencedEnd) /\ UNCHANGED dataVars
    \/ \E r \in Arrived, done, p \in BOOLEAN :
          CheckFencedStart(r, done, p) /\ Progress(r, reqs[r], 0, done, p)

-----------------------------------------------------------------------------
(* UCX and the NIC *)

SameWord(a, b) == a.q = b.q /\ {a.kind, b.kind} \subseteq {"ptr", "get", "read"}

Ready(s, i) ==
    /\ s[i].kind # "fence"
    /\ s[i].kind = "flush" => i = 1
    /\ \A j \in 1 .. i - 1 : s[j].kind # "fence" /\ ~ SameWord(s[i], s[j])

(* What is left when operation i has taken effect. *)
Without(s, i) ==
    LET t == [j \in 1 .. Len(s) - 1 |-> IF j < i THEN s[j] ELSE s[j + 1]]
    IN  IF t # <<>> /\ Head(t).kind = "fence" THEN Tail(t) ELSE t

(* An operation may also fail: nothing is written, the callback runs all   *)
(* the same and urom_worker_rdmo_op_cb does not look at its status.        *)
RmaEffect(c, i, ok) ==
    LET o == rma[c][i]
    IN  /\ Ready(rma[c], i)
        /\ ok \/ MayFail
        /\ rma' = [rma EXCEPT ![c] = Without(@, i)]
        /\ landed' = IF ok /\ o.kind = "put" THEN landed \cup {<<o.req, o.n>>} ELSE landed
        /\ ptr' = IF ok /\ o.kind = "ptr" THEN [ptr EXCEPT ![o.q] = o.n] ELSE ptr
        /\ ctx1' = IF ok /\ o.kind = "get" THEN [ctx1 EXCEPT ![o.req] = ptr[o.q]] ELSE ctx1
        /\ comp' = IF o.kind \in {"get", "flush"} THEN [comp EXCEPT ![o.req] = @ + 1] ELSE comp
        /\ UNCHANGED <<schedVars, ctx0, cache, rndv, acked>>

RndvEffect(r, ok) ==
    /\ r \in rndv
    /\ ok \/ MayFail
    /\ rndv' = rndv \ {r}
    /\ landed' = IF ok THEN landed \cup {<<r, 1>>} ELSE landed
    /\ comp' = [comp EXCEPT ![r] = @ + 1]
    /\ UNCHANGED <<schedVars, ctx0, ctx1, cache, rma, ptr, acked>>

-----------------------------------------------------------------------------
NicStep ==
    \E ok \in BOOLEAN :
        \/ \E c \in Clients : \E i \in DOMAIN rma[c] : RmaEffect(c, i, ok)
        \/ \E r \in rndv : RndvEffect(r, ok)

WorkerStep == (\E r \in Arrived : OpCb(r)) \/ CheckPaused \/ CheckFenced

WorkerNext == (\E q \in Shapes : AmCb(q)) \/ WorkerStep \/ NicStep

WorkerSpec == WorkerInit /\ [][WorkerNext]_vars

(* urom_worker_rdmo_progress polls UCX for ever, and the NIC is not stuck. *)
WorkerFairness == WF_vars(WorkerStep \/ NicStep)

-----------------------------------------------------------------------------
(* Properties *)

Kinds == {"put", "ptr", "get", "read", "fence", "flush"}
PostedOps ==
    {o \in [kind : Kinds, req : 0 .. MaxReqs, q : Queues \cup {Unknown}, n : Nat] :
        /\ o.q = Unknown => o.kind \in {"fence", "flush"}
        /\ o.req = 0 => o.kind \in {"fence", "ptr", "read"}}

\* The type invariant of the progress handlers' state.
WorkerTypeOK ==
    /\ SchedTypeOK
    /\ ctx0 \in [Ids -> 0 .. 3]
    /\ ctx1 \in [Ids -> Nat]
    /\ cache \in [Queues -> Nat \cup {NotCached}]
    /\ comp \in [Ids -> Nat]
    /\ rma \in [Clients -> Seq(PostedOps)]
    /\ rndv \subseteq Arrived
    /\ ptr \in [Queues -> Nat]
    /\ landed \subseteq Arrived \X Nat
    /\ acked \subseteq Arrived

IsAppend(r) == reqs[r].op = "append"
(* Append r has its pointer, and with it its cells, which are in bounds. *)
Placed(r) == IsAppend(r) /\ ctx0[r] >= 2 /\ ctx1[r] + reqs[r].len <= Cap
Cells(r) == ctx1[r] .. ctx1[r] + reqs[r].len - 1

\* "Prevent concurrent AMOs": while an append has a Get of a queue's pointer
\* outstanding, no other append has one for the same queue.
AmosExclusive ==
    \A r1, r2 \in Arrived :
        r1 # r2 /\ IsAppend(r1) /\ IsAppend(r2) /\ ctx0[r1] = 1 /\ ctx0[r2] = 1
            => reqs[r1].q # reqs[r2].q

\* No append is lost: two appends to one queue never get the same cells,
\* although the pointer is read, cached, written back and read again.
AppendsDisjoint ==
    \A r1, r2 \in Arrived :
        r1 # r2 /\ Placed(r1) /\ Placed(r2) /\ reqs[r1].q = reqs[r2].q
            => Cells(r1) \cap Cells(r2) = {}

\* "Ensure payload is written before the queue pointer": whenever the host reads
\* the pointer word, the payload of every cell below it is in memory.
PayloadBeforePointer ==
    \A q \in Queues : \A a \in 0 .. ptr[q] - 1 :
        \E r \in Arrived : Placed(r) /\ reqs[r].q = q /\ a \in Cells(r) /\ <<r, 1>> \in landed

(* What the initiator of r1 may rely on once r1 is durable. *)
Durable(r1) ==
    CASE reqs[r1].op = "append" -> <<r1, 1>> \in landed /\ ptr[reqs[r1].q] >= ctx1[r1] + reqs[r1].len
      [] reqs[r1].op = "scatter" -> \A i \in DOMAIN reqs[r1].iovs : <<r1, i>> \in landed
      [] OTHER -> TRUE

\* When the response to a flush has been sent, the appends and scatters sent
\* before it on its connection are in host memory, and the pointers cover them.
FlushDurable ==
    \A r1 \in Arrived : \A r2 \in acked :
        r1 < r2 /\ Ep(r1) = Ep(r2) => Durable(r1)

\* No lost wake-up: between handlers, a request waits on paused_ops only while a
\* request of its client is outstanding, whose completion runs check_paused.
PausedHeld ==
    at = "idle" =>
        \A c \in Clients : paused[c] # <<>> =>
            \E r \in Arrived : Client(r) = c /\ where[r] = "active"

\* "Stage 3: Wait for all completions": a request is freed only when UCX has
\* reported every completion that would use it.
FreedIsQuiet ==
    \A r \in Arrived : where[r] = "freed" => comp[r] = 0

\* Every request that arrives is completed and freed: none waits for ever on
\* paused_ops or fenced_ops, or for a completion.
EveryRequestFreed == \A r \in Ids : r \in Arrived ~> where[r] = "freed"

-----------------------------------------------------------------------------
(* The inductive invariant behind PausedHeld. *)

(* A gate is closed only by an append that is waiting for its pointer, and  *)
(* opened when it has the pointer.                                          *)
GateHeld ==
    \A c \in Clients : pause[c] =>
        \E r \in Arrived : /\ Client(r) = c /\ where[r] = "active"
                           /\ IsAppend(r) /\ ctx0[r] = 1

(* A client with parked requests has an outstanding one, except while the   *)
(* handler that will look at its list is running.                           *)
WakeHeld ==
    \A c \in Clients : paused[c] # <<>> /\ ~ (at = "check_paused" /\ Client(cur) = c) =>
        \E r \in Arrived : Client(r) = c /\ where[r] = "active"

GateInv == SchedInv /\ ctx0 \in [Ids -> 0 .. 3] /\ GateHeld /\ WakeHeld

-----------------------------------------------------------------------------
(* The inductive invariant behind FreedIsQuiet. *)

(* UCX will report the completion of operation o to the request that posted it. *)
Awaited(o) == o.kind \in {"get", "flush"}

(* What is posted for a request is posted after it arrived. *)
PostedArrived == \A c \in Clients : \A i \in DOMAIN rma[c] : rma[c][i].req \in Arrived \cup {0}

(* Of the operations ops, request r waits for the i-th only. *)
OnlyAwaited(ops, r, i) == \A j \in DOMAIN ops : Awaited(ops[j]) /\ ops[j].req = r => j = i

(* A flush or an append waits for one completion at a time: that of an      *)
(* operation on its client's endpoint ...                                   *)
AwaitedBy(r, c, i) ==
    /\ r \in Arrived /\ where[r] = "active" /\ reqs[r].client = c
    /\ reqs[r].op # "scatter" /\ comp[r] = 0 /\ r \notin rndv
    /\ OnlyAwaited(rma[c], r, i)

OneAwaited ==
    \A c \in Clients : \A i \in DOMAIN rma[c] :
        Awaited(rma[c][i]) => AwaitedBy(rma[c][i].req, c, i)

(* ... or that of the fetch of its payload. *)
OneFetch ==
    \A r \in rndv :
        r \in Arrived /\ where[r] = "active" /\ reqs[r].op # "scatter" /\ comp[r] = 0

(* A scatter with an unregistered region completes without its last Puts.   *)
Cut(q) == q.op = "scatter" /\ Unknown \in Members(q.iovs)

(* The completions k to come of a request q: a scatter counts them in ctx[1] *)
(* and posts nothing of a rendezvous payload.                               *)
Counts(q, c1, k) ==
    IF q.op = "scatter" THEN c1 = k /\ (q.rndv => k = 0) ELSE k <= 1

Completions ==
    \A r \in Ids :
        /\ ~ Started(r) => comp[r] = 0 /\ ctx1[r] = 0
        /\ where[r] = "freed" => comp[r] = 0 \/ Cut(reqs[r])
        /\ r \in Arrived => Counts(reqs[r], ctx1[r], comp[r])

QuietInv == WorkerTypeOK /\ PostedArrived /\ OneAwaited /\ OneFetch /\ Completions
=============================================================================
