# TLA+ models of the DOCA applications

The repository holds NVIDIA's DOCA applications (`src/doca/applications`), the
samples and headers of the DOCA libraries and their binaries. The applications
are separate programs that talk to one another over a Comm Channel, UCX, gRPC or
the network. This directory holds TLA+ models of the applications whose
correctness depends on the order of events, the TLC runs that check them, and
TLAPS proofs.

1. [The system](#1-the-system): inventory of the components
2. [The models](#2-the-models): modules, state and actions, and the code they stand for
3. [The runs](#3-the-runs): what each run checks, bounds and fairness
4. [The proofs](#4-the-proofs): theorems, their inductive invariants, what is only model-checked
5. [Findings](#5-findings): where the code and its comments disagree
6. [What is not modelled](#6-what-is-not-modelled)
7. [Plan](#7-plan)

`PROJECT.json` lists the components, runs, mutants, source map, findings,
hazards and theorems. To repeat a run or a proof:

    tlc -config Rdmo.cfg MCRdmoWorker
    tlc -config DmaCopy.cfg DmaCopy
    tlapm RdmoWorkerProofs.tla

## 1. The system

| Component | State | Operations | Hard behaviour |
|---|---|---|---|
| **urom_rdmo worker** (`urom_rdmo/dpu`) | clients, endpoints, memory keys with a pointer cache, requests on `paused_ops` and `fenced_ops`, counters | message and completion callbacks, `req_start`, `check_paused`, `check_fenced`, flush / append / scatter handlers, control commands | completions in any order, fences, a gate around the pointer read, rendezvous payloads, failures in every stage |
| **dma_copy** | two programs, a Comm Channel, an exported buffer, one DMA task | negotiate, export, send address, DMA, status, save, tear down | buffers freed while the device works, messages told apart by order, either side failing |
| **secure_channel** | three threads on each side, `ctx->peer`, SIGINT, SIGUSR1, a bounded queue | send, receive, wait, cancel, join, destroy | signals that come early or stay pending, lost wake-ups, cancellation, partial set-up |
| **file_integrity** | client and server, hash state, file on disk | hash, send in blocks, hash incrementally, compare, finish | a failing task in the middle, time limits, a file that changes, old content |
| **ipsec_security_gw** | rules, sequence numbers, anti-replay windows, flow pipes, a policy socket | number, check and slide the window, insert rules on several cores, read policies | replayed and reordered packets, wrap-around, rule arrays that move under the packet cores |
| **allreduce** | super requests, batches, connections, vector pools | submit, scatter, gather, reduce, finish, connect, disconnect | peers ahead by a batch, receives that complete late, vectors still being sent, failing sends |
| **switch, common/flow_pipes_manager** | three hash tables (pipes, entries, pipes of a port) | create / destroy pipe, add / remove entry, flush | ids that collide, insertions that fail half way, completions that come after their command |
| **file_compression** | as file_integrity, with a checksum | compress, send in blocks, decompress, finish | errors reported as success |
| **simple_fwd_vnf** | flow table with locked buckets, counters | find, add, age, destroy | packet cores and the aging thread on one entry |
| **psp_gateway** | sessions, keys, crypto ids, ACL and encryption entries | miss packet, request and create tunnel, connect the hosts of the list | sessions shared without a lock, requests that cross, a failed request that is never repeated |
| **dpa_all_to_all** | stages of N processes, kernel threads, remote events, receive buffers | connect, exchange, launch, put, wait, gather | one process failing or late, memory let go of under a kernel |
| **l2_reflector** | queue indices, owner bits, buffer ring | step a queue, process a packet | wrap-around, reuse of buffers |
| **pcc** | mailbox flag, bandwidth, counters, stop flag | mailbox, sampling, stop | flag seen before data, an interrupt lost |
| **app_shield_agent**, **yara_inspection** | one loop each | attest, scan | error paths |
| **nat** | rules read once | build pipes | none |
| **common** (others) | none | set-up, parsing, packing | none |
| **samples** | one context and task each | set up, submit, clean up | the life cycle of a context |

The programs meet in few places. The host and DPU programs of one application,
the processes of one allreduce or all to all and two gateways that talk to each
other are composed in one module each. Inside the RDMO worker the scheduler calls
the progress handlers, which are composed in `RdmoWorker`. The flow pipes manager
is used by the switch only, and `Switch` extends its module. Everything below
them (UCX, MPI, gRPC, DOCA Flow, the NIC, the Comm Channel, the DMA, SHA and DPA
devices, the network) is external and modelled by what the code relies on.

## 2. The models

### RdmoSched: the request scheduler of the RDMO worker

`urom_rdmo/dpu/worker_rdmo_ops.c`. The worker runs on one thread. UCX calls
`urom_worker_rdmo_am_cb` when a request arrives and `urom_worker_rdmo_op_cb` when
something the worker posted completes. A request is started, parked on its
client's `paused_ops` while the client's gate `pause` is closed, or parked on its
connection's `fenced_ops`. A completion frees the request, then runs
`check_paused` and `check_fenced`.

| Model | Code |
|---|---|
| `fenced`, `oreqs`, `paused`, `pause` | `ep->fenced_ops`, `ep->oreqs`, `client->paused_ops`, `client->pause` |
| `where` | on which list a request is, active, or freed |
| `at`, `cur` | the place of the running handler, and the request it was called with |
| `ReqQueuePause`, `ReqQueueFence`, `ReqQueueStart` | the three ways out of `req_queue` and `req_start` |
| `OpCbContinue`, `OpCbComplete` | `op_cb`, and `req_complete` if the handler is done |
| `CheckPaused...`, `CheckFenced...` | one turn of each loop, and its end |

What a progress handler does is reduced to its result (`done`) and to what it
leaves in `pause`; both are arbitrary here.

### RdmoWorker: the progress handlers, composed with the scheduler

Extends `RdmoSched`. Every step is a step of the scheduler together with the
stage of `flush_progress`, `append_progress` or `scatter_progress` that runs in
it. `ctx0` and `ctx1` are `req->ctx`, `cache` is the pointer cache of a memory
key, `rma` is what is posted on an endpoint and not yet in host memory, `ptr` and
`landed` are host memory. The rules for `rma` (`Ready`) are what UCX promises:
operations take effect in any order except across a fence or on one word, and a
flush completes when everything before it is done. The Get that ends the writing back
of the cached pointers reads one of them, and is sent only if no Put failed.

`RecvQueue` is the abstract specification of a receive queue as the host sees it:
a log that grows at the end, without holes, in the order each connection sent.
`RdmoHostView` maps the cells below the pointer to that log and states
`ImplementsRecvQueue`; it is a module of its own so that the proofs about the
worker do without it.

### DmaCopy

`dma_copy/dma_copy_core.c`, both programs from the negotiation to `destroy_cc`.
`pc` says where a program is: each receive, send, buffer access and DMA is a
place. The Comm Channel is a FIFO in each direction. A behaviour runs in one
environment `env`, chosen in the initial state from the constant `Envs`: whether
local calls and channel calls may fail, and whether a receiver learns that its
peer ended. `SecureChannel` and `FileIntegrity` have an `env` of the same kind, so
that one run covers several environments and a property names the ones it is
about.

### SecureChannel

`secure_channel/secure_channel_core.c`, for each side the main, the sending and
the receiving thread; a step is one access to what threads share. SIGINT may
come at any time. SIGUSR1 is pending from `pthread_kill` until the sender takes
it in `sigwait`.

### FileIntegrity

`file_integrity/file_integrity_core.c`. A file is a sequence of bytes, and its
hash is the sequence itself (no collisions).

### AntiReplay: sequence numbers of the IPsec gateway in software

`ipsec_security_gw/flow_decrypt.c`, `anti_replay`, with the sender's numbering
(`flow_encrypt.c`) and the initial values (`sw_handling_sn_inc`,
`sw_handling_antireplay`, `parse_sn_initial`). The bitmap is the set of its bits;
arithmetic is modulo `SnMod`, 2^32 in the code. The network may lose, delay,
repeat and reorder: `Receive` takes any number that was ever sent.

### Allreduce and ReduceSpec

`allreduce/allreduce_core.c`, `allreduce_client.c` and `allreduce_daemon.c`, with
what `allreduce_ucx.c` does for them. A process is one thread that runs UCX
callbacks, so a callback is a step.

| Model | Code |
|---|---|
| `node[n].sreq`, `vec`, `next`, `active` | `super_requests_hash`, the client's vectors, `allreduce_next_id`, `client_active_allreduce_requests` |
| `node[n].errno`, `up`, `ready` | `callback_errno`, the process runs, the daemon's handler for client vectors is set |
| `msgs` | active messages, eager or waiting to be fetched |
| `Submit` | `allreduce_batch_submit`, with every message it posts |
| `EagerReceive`, `RndvArrive`, `RndvReceive` | the CTRL and peer handlers and the completion of a rendezvous |
| `SendDone`, `SendFails`, `Exit` | the completion of a send, with and without an error, and the exit that an error leads to |

A vector is the bag of contributions reduced into it, so a contribution that is
missing or counted twice shows. `ReduceSpec` is what an allreduce promises: an
operation ends at a client only after every client has submitted it, and leaves
there every client's vector, once. `ImplementsReduction` maps the state of the
clients to it and leaves out daemons, messages and super requests.

### PipesManager and Switch

`common/flow_pipes_manager.c` and `switch/switch_core.c`. `pipeInfo`,
`entryPipe` and `portPipes` are the three hash tables. `pipeInfo` is indexed by
the position of a key, because the entry table points to positions, which are
used again. Each function of the manager is an operator, and each of its failing
insertions a disjunct with its undo. `Switch` has one action per command that
changes state; `live`, `hw` and `queue` are what DOCA Flow has.

DOCA Flow and rte_hash are external, with these assumptions. The pipe queue is a
FIFO. `doca_flow_entries_process` takes out at least one operation, possibly
more, unless it runs out of time. Additions, control additions and removals are
queue operations. Destroying a pipe drops its queued operations. rte_hash copies
its keys; the insertion of a new key may fail, and that of an existing key
replaces its data. A behaviour has an environment: whether ids may collide, and
how much `doca_flow_entries_process` takes out.

### PspGateway

`psp_gateway/psp_gw_svc_impl.cpp`, with the entries `psp_gw_flows.cpp` makes for
it. `th` holds the threads: of each gateway the client thread (a packet core, or
the main thread at start-up) and one gRPC thread per request. No lock protects
`bulk` (the key generator), `sessions` and `nextId` (crypto ids), so every access
is a step of its own. `acl`, `slots` and `rules` are the entries of the ingress ACL
pipe, the keys of the shared resources and the entries of the encryption pipe.
Operations on a `std::map` are taken as atomic. SPI 0 stands for none, and what is
read of a wiped or missing key is no key.

### DpaAllToAll

`dpa_all_to_all/host/dpa_all_to_all_core.c` and `device/dpa_all_to_all_dev.c`.
`pos` is the stage of each process in `dpa_a2a`: the barrier, a connection to
every process, five exchanges, the kernel, the barrier after it and two gathers.
`kernel`, `conn`, `event` and `recv` are the device's side. Operations on one
connection take effect in order and are complete for the poster once they are
acknowledged. MPI sends of the connection data are taken as eager. Each process
makes one call, as `main` does.

## 3. The runs

| Run | Question |
|---|---|
| `rdmo` | With initiators that wait for the answer to a flush, is what the host reads a log without holes (`ImplementsRecvQueue`, `AppendsDisjoint`)? Does an answered flush mean that earlier requests are in host memory? Is a freed request free of completions to come, and is every request freed when nothing fails? |
| `rdmo_failures` | When any UCX call or allocation fails and requests are malformed: does a fenced request wait for everything before it on its connection, do requests start in order, and is none parked with nobody left to release it? |
| `dma_copy` | When local calls fail, and when the channel fails too: does the device only work on live buffers, is a success that either program reports real, is the host told, and do both programs end? |
| `secure_channel` | Does SIGINT end both programs at any time? Does the endpoint outlive the threads? Is nothing sent before the peer is known? Is only a waiting sender cancelled? Does every message arrive when nothing disturbs? |
| `file_integrity` | Does an accepted file hold what was hashed, with nothing behind it but the tail of a longer old file, and is a rejected file one that changed? Do the client and the server end when the other has failed or stopped? |
| `anti_replay` | Does no number pass twice, and are only stale packets dropped? |
| `allreduce` | Does the application implement `ReduceSpec`? Is no vector changed under a pending send, is nothing left behind, and does every batch end when nothing fails? |
| `switch` | Do the three tables agree after any commands and failures, is every handle in them live, can every entry be named, does a command change only the entries it is about, and is an entry that fails not reported as created when the queue is drained? |
| `psp` | Does a gateway accept what the other encrypts, whatever crossed or failed, and do the tunnels come to be at start-up and on demand? |
| `dpa_a2a` | Has a process that returns all its blocks, does no kernel work on memory that is not there, and does everyone end when one process fails or is late? |
| `allreduce_rndv`, `psp_reinject` | end with a violation: the findings of section 5 |

**Bounds.**

- RDMO: two connections of one client, the smallest number at which one is
  released by the completions of the other. `rdmo` has a queue on a remote region
  and one in shared memory, four cells each, and three requests of any kind, enough
  for one active, one fenced and one paused. A fourth comes only if all four are
  appends to the remote queue and flushes (`LastIsEager`), so that there is an append
  before and after a flush on each connection: 165 507 states. Four requests of all
  kinds (1.36 million states, a quarter of an hour) hold as well.
- `DmaCopy`: file sizes 0 to 3 around a device limit of 2, on either side, both or
  none.
- `SecureChannel`: two messages each way over a channel of one, which is full
  after the first; one and two messages with failing calls; three and two over a
  channel with room.
- `FileIntegrity`: sizes 1 to 5 with blocks of 2, so that a file has one block,
  whole blocks, or a rest; an old file of 0, 1 or 4 bytes, shorter or longer than
  the new one.
- `AntiReplay`: a window of 3 over 9 numbers, from every initial number
  `parse_sn_initial` accepts; windows overlap, are jumped over, and reach the wrap.
- `Allreduce`: seven topologies (`MCTopologies`): three clients; two clients with
  two batches of two by rendezvous; two clients with failing sends; two daemons
  with two clients and one; a daemon that is slow to start; a daemon with failing
  sends; a daemon with four batches, in which a client can be two ahead. Failures
  are combined with eager messages only. More than two peers use eager messages,
  because of the finding.
- `Switch`: two pipes and positions, two ids for pipes and two for entries, three
  entry handles: a position, an id and a handle are each used again.
- `PspGateway`: two gateways, each with at most two requests and three keys, two
  tunnels, and one failure: enough for requests that cross and for a retry
  (111 699 states). `MaxTunnels` is both the number of crypto ids and the size of
  the pipes, as in the code.
- `DpaAllToAll`: two processes with two kernel threads, one failure anywhere or
  any process late. Three processes have more than 36 million states; the proofs
  cover the safety properties for every number.

**Symmetry** is used in `rdmo_failures` (connections) and `switch` (ids, positions,
handles), without liveness properties. **Deadlock** is not checked where the
programs end, `quit` stops the command line or a bound stops the model; it is
checked in `anti_replay`.

**Fairness.** No strong fairness is used.

- `RdmoWorker`: weak fairness of the worker and the NIC, because
  `urom_worker_rdmo_progress` is called in a loop and the NIC works off what was
  posted.
- `DmaCopy`: weak fairness of each program; a program that polls must go on only
  if a message or the end of its peer is there (`MustRun`), so that no failure of
  the channel is forced to happen.
- `SecureChannel`: weak fairness of each thread, which is what the operating
  system's scheduler gives.
- `FileIntegrity`: weak fairness of both programs; a wait with a time limit ends.
- `Allreduce`: weak fairness of progress as a whole, as every process polls its
  worker until it ends; a failing send is never required.
- `PspGateway`: weak fairness of each thread and of the client's steps: a call is
  answered, a thread comes to an end. No failure is required except the refusal
  of a full pipe.
- `DpaAllToAll`: weak fairness of each process, kernel thread and connection. A
  time limit passes once a process has failed, or in the environment in which
  processes may be late.
- `Switch` and `AntiReplay` have safety properties only.

**What the liveness properties leave out.** `EveryoneEnds` (DPA) excuses the two
windows in which the code waits without a limit: a failure before the first
barrier (`dpa_all_to_all_core.c:1772`), and one between the last exchange and the
barrier after the kernel. `OnDemandConnects` asks for room for two requests that
cross and for no failure, `StartupConnects` for one tunnel more for each failure:
a failed try uses up a crypto id and an ACL entry. `EveryBatchEnds` asks for
daemons that are ready before their clients connect. `InterruptEnds` is about calls
that do not fail. `ClientEnds` leaves out the
failing allocation of section 5.

**Mutants.** Each property of each passing run has a mutant, a plausible bug in
one mapped definition, under which TLC finds the property violated.

**Defined, but not in a run.** Type invariants, `SchedInv`, `GateInv`, `QuietInv`, `ArInv`
and `NoOrphanPipes` hold in the runs' states and are proved where section 4 says so.
`AmosExclusive` and `PayloadBeforePointer` (for requests that come eagerly, from
initiators that wait), `FailureReported`, `InStep` and `TwoBatches` hold when they
are added to the configuration of their module; `ImplementsRecvQueue`, the proof and
`NothingLeft` say more than they do.

## 4. The proofs

| Theorem | Statement |
|---|---|
| `SchedTypeCorrect`, `SchedulerInvariant` | `SchedSpec => []SchedTypeOK`, `SchedSpec => []SchedInv` |
| `FenceTheorem`, `OrderTheorem`, `HeldTheorem` | `FenceRespected`, `StartsInOrder`, `FencedHeld` of `SchedSpec` |
| `WorkerImplementsSched` | `WorkerSpec => SchedSpec` |
| `WorkerFence`, `WorkerOrder` | `FenceRespected`, `StartsInOrder` of `WorkerSpec` |
| `WorkerGates`, `WorkerPausedHeld` | `WorkerSpec => []GateInv`, `PausedHeld` of `WorkerSpec` |
| `WorkerTypeCorrect`, `WorkerQuiet` | `WorkerSpec => []WorkerTypeOK`, `WorkerSpec => []QuietInv` |
| `WorkerFreedIsQuiet` | `FreedIsQuiet` of `WorkerSpec` |
| `WindowTypeCorrect`, `WindowInvariant` | `ArSpec => []ArTypeOK`, `ArSpec => []ArInv` |
| `NoReplayTheorem`, `OnlyStaleDroppedTheorem` | `NoReplay`, `OnlyStaleDropped` of `ArSpec` |
| `DmaTypeCorrect`, `DmaInvariant` | `DmaSpec => []DmaTypeOK`, `DmaSpec => []DmaInv` |
| `DmaLiveBuffers`, `DmaHostFaithful`, `DmaDpuFaithful` | `DmaOverLiveBuffers`, `HostFaithful`, `DpuFaithful` of `DmaSpec` |
| `ScTypeCorrect`, `ScInvariant` | `ScSpec => []ScTypeOK`, `ScSpec => []ScInv` |
| `ScSendsHavePeer`, `ScEpOutlivesThreads`, `ScFailureReported`, `ScCancelsWaiting` | `SendsHavePeer`, `EpOutlivesThreads`, `FailureReported`, `CancelsWaiting` (an action property) of `ScSpec` |
| `FiTypeCorrect`, `FiInvariant` | `FiSpec => []FiTypeOK`, `FiSpec => []FiInv` |
| `FiRejectsOnlyChanges`, `FiVerdictSound` | `RejectsOnlyChanges`, `VerdictSound` of `FiSpec` |
| `FiAcceptsHashed` | an accepted file is the one hashed, if the server's path held no longer file and no hash task fails |
| `ManagerTablesAgree` | `TablesAgree` through every operation of the pipes manager |
| `SwitchTypeCorrect` | `SwSpec => []SwTypeOK` |
| `SwitchTablesAgree`, `SwitchHandlesLive`, `SwitchNoOrphanPipes` | `TablesAgree`, `HandlesLive`, `NoOrphanPipes` of `SwSpec` |
| `SwitchEntriesFound`, `SwitchOnlyOwnEntries`, `SwitchDrainedIsExact` | `EntriesFound`, `OnlyOwnEntries` (an action property), `DrainedIsExact` of `SwSpec` |
| `A2aInitInv`, `A2aInvariant` | `A2aInit => A2aInv`, `A2aSpec => []A2aInv` |
| `A2aReceived`, `A2aTargetsLive` | `Received`, `TargetsLive` of `A2aSpec` |

**The scheduler** (first part of `RdmoWorkerProofs`). The theorems hold for any set of
connections, clients and request shapes and any number of requests. All but
`SchedTypeCorrect` and `WorkerImplementsSched` assume `DedicatedEps`, that a
connection is used for requests of one client: the host library connects each
client separately. Without it, requests of one connection may be paused by two
gates and overtake one another. None of the properties is inductive.
`SchedInv` adds:

- `Parked`: each list holds exactly the requests `where` puts there, in arrival
  order. Without it the head of a list could be any request.
- `Ordered`: along one connection requests are started, then fenced, then
  paused. This is why taking from either list keeps the order.
- `Counted`: `oreqs` is the number of active requests of the connection. The
  code tests the counter, the property speaks of the requests.
- `Held`: a connection with parked requests has an outstanding one, except while
  the handler that will look at the list runs.

There is one lemma per action, below it one step per conjunct. Lists are reasoned
about through `Members` and `Increasing`, whose behaviour under `Append` and
`Tail` is stated in a few lemmas.

**The worker** (`RdmoHandlerProofs` for what one handler does, `RdmoWorkerProofs`
for the steps). Every step of the worker is a step of the
scheduler or leaves its variables alone, so fence and order carry over, whatever
the handlers do and whichever UCX call fails. `PausedHeld` is about the handlers:
the scheduler alone could leave a gate closed with nobody behind it. `GateInv` adds
to `SchedInv` that a gate is closed only while an append of its client waits for
its pointer (`GateHeld`), because every step that completes such an append opens
it, and that a client with parked requests has an active one, except while
`check_paused` is looking at its list (`WakeHeld`). `GateHeld` is needed where
`check_paused` returns because the gate is closed. It assumes `DedicatedEps` too.
A request whose handler failed counts as active: it is never completed, which
section 6 notes (`worker_rdmo_ops.c:548`).

`FreedIsQuiet` says of one request what follows only from knowing where every
completion comes from. `QuietInv` adds to the types that what is posted was posted
for a request that arrived (`PostedArrived`); that a flush or an append waits for
one completion at a time, of an operation on its client's endpoint (`OneAwaited`) or
of the fetch of its payload (`OneFetch`), and is active while it does; and that the
completions to come of a scatter are as many as `ctx[1]` counts (`Completions`). It
holds whichever UCX call or allocation fails. `WorkerFreedIsQuiet` has one more
hypothesis, that no scatter names an unregistered region (`Cut`): line 695 of
`worker_rdmo_ops.c` returns success in the middle of the list, with Puts pending.
Each handler is summarised by what it may leave to come (`QuietStep`), and the steps
that run a handler share one lemma (`RanQuiet`).

**The anti-replay window** (`AntiReplayProofs`). For every window size and every
`SnMod` above it. `ArInv` says that what passed is not above the window and is
marked inside it (`Marked`), that what is marked passed (`Honest`), and that the
window does not wrap and ends at its initial place or with a number that passed
(`Anchored`). `Marked` gives `NoReplay`, `Honest` and `Anchored` give
`OnlyStaleDropped`. That the window does not wrap rests on the test of
`parse_sn_initial`.

**DMA copy** (`DmaCopyProofs`). For any file sizes, device limit and
environments, failures of the channel included. What a program may do next
depends on what is between the two, so the properties alone are far from
inductive. `DmaInv` gives, for each place of the host, where the DPU may be and
which messages are between them (`Before`, `Exchange`, `During`), and for each
place of the DPU what it may find (`Inbox`). `Settled` says that exactly one side
has the file once the negotiation is over and that both agree which. `HostBuffer`
and `DpuBuffer` tie buffers and their contents to places, `HostGone` says what a
host that has ended may leave. The invariant was checked with TLC over six
environments before it was proved. `HostFaithful` holds whatever fails;
`DmaOverLiveBuffers` and `DpuFaithful` are stated for a channel whose calls do not
fail, because of section 5. There is one lemma per action; the failures of
the DPU that tell the host share the lemma `GivesUp`.

**Secure channel** (`SecureChannelProofs`). For any number of messages, any
capacity of the channel, interrupts at any time and any failing calls. `ScInv`
counts the messages (`Conserved`: what is on its way, in the receiver's hand or
counted was sent), says how a sender comes to know its peer (`PeerKnown`), which
threads the main thread has created and joined at each of its places (`Joined`),
and that a sender without a connection has sent nothing (`Unconnected`, from
which `CancelsWaiting` follows, which is stated for calls that do not fail).

**File integrity** (`FileIntegrityProofs`). For files and messages of any size, an
old file of any size, a file that changes after it was hashed, and any failure.
`FiInv` numbers the messages of the client: the k-th one is the hash, the number of
messages, or the block between two offsets (`Right`), those on their way are the
ones after what the server has taken (`Queue`), and at each place of the server
what it has written and hashed is the first so many bytes (`Progress`, `OnDisk`).
The server does not truncate the file at its path (section 5), so `VerdictSound`
says that an accepted file is the hashed one written over the old one (`Longer` and
`Tailed` follow the tail that may stay). `FiAcceptsHashed` assumes `OldFits`, that no
file at the path is longer than the one sent, and has the two equal. The lemmas on
the arithmetic of the blocks (`Multiples`, `Split`) say that the messages the client
announces end exactly at the end of the file.

**Pipes manager and switch** (`SwitchProofs`). For any number of ports, ids,
positions and handles. `PmInv`, the type and `TablesAgree`, is preserved by each
function of the manager with each failure and undo; the commands only compose
these. `SwInv` adds the type of what DOCA Flow has, `HandlesLive`,
`NoOrphanPipes` and `OnePort` (the switch makes its pipes on port 0). `HandlesLive`
needs `NoOrphanPipes`: a pipe that only DOCA Flow had could lose its entries while
the tables name them. What `pipes_manager_get_entry` finds needs one more
conjunct, `Named`: the entry table leads to the position of the pipe that has the
entry, also after the position was used again. `EntriesFound` follows, and each
command changes what is found in its own entries only (`NextFound`). For
`DrainedIsExact` the queue must be known to be a sequence of operations on entries
(`Queued`), also when a destroyed pipe takes its operations out of the middle, and
no entry may be left in doubt between two commands (`Drained`).

**DPA all to all** (`DpaAllToAllProofs`). For every number of processes and
threads, any failures and delays. `A2aInv` says that nobody is behind a collective
stage that somebody has left (`Stages`), that a thread is through with a process
only when its event is set and its connection quiet (`Kernels`), that a block is
there once its signal may take effect (`Blocks`), and that a process that did not
fail holds its memory from the first exchange to the first gather (`Memory`).

**Only model-checked.** Liveness (fairness and `ENABLED` are outside of what the
prover supports): `EveryRequestFreed`, `HostTold`, `BothEnd`, `InterruptEnds`,
`AllArrive`, `ClientEnds`, `ServerEnds`, `EveryBatchEnds`, `StartupConnects`,
`OnDemandConnects`, `EveryoneEnds`. The refinement of `RecvQueue` and the memory
properties of `RdmoWorker` (`AppendsDisjoint`, `FlushDurable`):
they speak of what UCX has accepted and not done yet, over sequences with fences.
`Allreduce` with `NothingLeft`, `SendStable` and its refinement of `ReduceSpec`: its
vectors are bags, which the provers do not know. `TunnelsAccepted` of `PspGateway`.

## 5. Findings

Two runs end with a violation of what a comment of the code says:

- `allreduce_rndv`. `_allreduce_gather_callback` reduces "if all clients vectors
  were received" (`allreduce_core.c:905`), but tests a counter that advances when a
  message arrives, not when its data is there (920, 965). With three peers and
  rendezvous receives a vector is reduced before its data is there, and again when
  it is.
- `psp_reinject`. `handle_miss_packet` sends a packet again because "A new tunnel
  was created" (`psp_gw_svc_impl.cpp:66`), but any session counts as a tunnel (51),
  and a request that fails leaves its session (112). The packet misses again, and no
  later packet requests the tunnel.

Other disagreements between code and comment that the models show. Each is
repeated by its configuration with the constants and the one property below:

| Code | What it does | Repeat with |
|---|---|---|
| `worker_rdmo_ops.c:279` | `check_fenced` starts appends without looking at `client->pause`: two pointer reads of one queue are outstanding, against "Prevent concurrent AMOs" (538) | `Rdmo.cfg`, `WorkerSpec`, `Queues <- OneQueue`, `SmQueues = {}`, `Shapes <- EagerShapes`, `Waits = FALSE`, `AmosExclusive` |
| `worker_rdmo_ops.c:592` | the fence does not order the fetch of a rendezvous payload: the pointer reaches the host first, against "Ensure payload is written before the queue pointer" (414) | the same with `MemhQueues <- OneQueue`, `Shapes <- RndvShapes`, `Waits = TRUE`, `PayloadBeforePointer` |
| `dma_copy_core.c:1380` | the host frees its buffer when a receive fails, while the DMA runs, against the comment at 1361 | `DmaCopy.cfg`, `Envs = {{"channel"}}`, `HostBufferKept` |
| `secure_channel_core.c:214` | a SIGUSR1 left pending looks like an interrupt when the queue is full, against the comment at 212 | `SecureChannel.cfg`, `ScSpec`, `Envs <- CalmEnvs`, `OnlyInterruptStops` |
| `file_integrity_core.c:487` | a failed partial hash task leads to a comparison of nothing, which succeeds, against the declaration at 316 | `FileIntegrity.cfg`, `FiSpec`, `OldSizes = {0}`, `Envs = {{"task"}}`, `HashCompared` |
| `switch_core.c:188` | the status of another, late entry is taken for that of the new one, which is reported as created | `Switch.cfg`, `Environments <- Distinct`, `CreatedIsActive` |

The models show more cases in which a property does not hold. The passing runs
leave them out through their constants, or the property states the condition.

RDMO, DMA copy, secure channel and file integrity:

- An append that does not fit has already advanced the cached pointer
  (`worker_rdmo_ops.c:547`; `PayloadBeforePointer` with `Cap` below the number of
  appends).
- A scatter with an unregistered region in the middle of its list completes with
  Puts pending (`worker_rdmo_ops.c:695`; `FreedIsQuiet`).
- An append by rendezvous to shared memory never advances the pointer
  (`worker_rdmo_ops.c:579`; `AppendsDisjoint`).
- A failed save leaves the DMA task allocated when the context is stopped
  (`dma_copy_core.c:904`).
- If the second thread cannot be created, the endpoint is destroyed under the
  first (`secure_channel_core.c:643`; `EpOutlivesThreads` asks for both threads).
- `sc_start` overwrites the sender's result with the receiver's
  (`secure_channel_core.c:703`; `FailureReported` is about the receiver).
- With failing calls, an interrupt may cancel a sender that was already joined
  (`secure_channel_core.c:304`; `CancelsWaiting`), and a program may not end
  (`InterruptEnds`).
- The tail of a longer file at the server's path stays
  (`file_integrity_core.c:796`; `VerdictSound` says exactly what stays), and so does a
  rejected file that cannot be removed (`file_integrity_core.c:902`).
- The finish message is sent on error paths as well, and the client takes it for
  success (`file_integrity_core.c:910`); after a failed allocation it is not sent
  (`file_integrity_core.c:889`; `ClientEnds`).

Allreduce:

- A daemon sets its handler for client vectors in `daemon_run`
  (`allreduce_daemon.c:184`) but listens before that: vectors that come early are
  dropped, and the barrier of their clients does not end (`EveryBatchEnds`
  excuses a slow daemon).
- "maximum amount that can be held at once" (`allreduce_core.c:1376`) does not
  hold for super requests that are reduced and wait for late send completions.
  `TwoBatches` counts those that still have operations to come.
- `error_callback` only reconnects: a process that waits for one that ended waits
  for ever (`EveryBatchEnds` is stated without failures).

Pipes manager and switch:

- The test for an entry that exists (`flow_pipes_manager.c:308`) looks up the
  address of a pointer and never finds one. `generateID` (36) hashes the contents,
  though its comment says "pointer to id mapping". Equal contents give equal ids,
  and an entry is lost (`EntriesFound`, `OnlyOwnEntries` ask for distinct ids).
- When the removal fails in DOCA Flow (`switch_core.c:324`) the entry stays, and no
  command can name it.

PSP gateway:

- Two threads at one key generator may hand out a wiped key
  (`psp_gw_svc_impl.cpp:316`). `TunnelsAccepted` excuses gateways where two threads
  met (`overlap`); without that it is violated where one gateway creates its tunnels
  at start-up and the other on demand.
- In that mixed mode the gateway on demand may stay without a tunnel: it takes the
  session its peer made for a tunnel (`OnDemandConnects` asks for both on demand).
- Requests that cross leave two rules for one host, `remove_encrypt_entry` is never
  called, and a restart of one gateway is not noticed by the other.

DPA all to all:

- When the launch or the wait fails, the buffer is freed while it is registered and
  others write to it (`dpa_all_to_all_core.c:1658`; `TargetsLive` excuses the
  process that failed).
- A process that fails before the first barrier (1772), or from the last exchange
  to the barrier after the kernel, leaves the others waiting for ever
  (`EveryoneEnds`, `Uncovered`).

## 6. What is not modelled

`PROJECT.json` maps the models to the lines they stand for, a few thousand of some
170 000. Most of the rest has no state whose order matters: the samples (each a
set-up, one task and a clean-up), the headers of the libraries, the parsing of
command lines and JSON, and the set-up of devices, ports and pipes. What is left
beyond that is listed here and in section 7.

- Parsing, logging, set-up of devices and contexts: the models start after them.
  `nat`, the helpers in `common` other than the pipes manager, and the overlay
  scripts consist of these.
- The libraries, the headers and the SHA engine, of which only a readme is here.
  Their behaviour is taken from how the applications use them.
- In `RdmoWorker`: the control commands (a request never outlives its client,
  queue or key), 64-bit addresses, two clients on one connection, and requests
  whose pointer and data are in regions of different kinds.
- In the IPsec gateway: everything but the sequence numbers of software mode.
- In `Allreduce`: connection set-up and the handshakes, the GPU build.
- In `Switch`: which pipe an entry forwards to, and whether that pipe still exists;
  the memory of the keys (`destroy_pipes_manager` frees pointers into the key
  store).
- In `PspGateway`: the master key rotation and `RequestKeyRotation`, the pipes made
  at start-up, sampling, statistics, and restarts.
- In `DpaAllToAll`: the distribution of the parameters, and more than one call.
- The applications marked `not_modelled` in `PROJECT.json`.

What can go wrong in these parts, besides the hazards that `PROJECT.json` lists:

| Where | What |
|---|---|
| `urom_rdmo/dpu/worker_rdmo_ops.c:115` | the request pool is exhausted while pointers are flushed, or when a request arrives |
| `urom_rdmo/dpu/worker_rdmo_ops.c:335` | `op_cb` ignores the status: after a failed Get the append goes to address zero |
| `urom_rdmo/dpu/worker_rdmo_ops.c:548` | an append that fails with the gate closed leaves `client->pause` set for ever |
| `urom_rdmo/dpu/worker_rdmo_ops.c:570` | `ctx[1] + length` may wrap around in the bounds checks |
| `urom_rdmo/dpu/worker_rdmo_ops.c:641` | `sm_ptr` is not set when the pointer region is remote and the data region is shared memory |
| `urom_rdmo/dpu/worker_rdmo.c:427` | `mr_dereg`, `rq_destroy` and `ep_del` free records that requests in flight name |
| `dma_copy/dma_copy_core.c:313` | `file_size` is older than the `fread`: a file that shrank fails, one that grew is cut off |
| `secure_channel/secure_channel_core.c:283` | arming an event after an empty receive must report a message that came in between; the model assumes it does |
| `secure_channel/secure_channel_core.c:674` | a failing set-up leaves the mutex, or the endpoint and device of a refused host |
| `file_integrity/file_integrity_core.c:337` | `timeout * 1000 * 1000` overflows an int above 2147 seconds, and the wait does not end |
| `ipsec_security_gw/flow_encrypt.c:1896` | `current_sn` wraps after 2^32 packets without a new key; the receiver drops what follows |
| `ipsec_security_gw/ipsec_security_gw.c:676` | `realloc` moves the rules while the packet cores hold the old address |
| `ipsec_security_gw/ipsec_security_gw.c:612` | `wait_for_traffic` clears `force_quit`: an earlier SIGINT is lost |
| `ipsec_security_gw/ipsec_security_gw.c:292` | `num_of_tries` is set once, not per burst; what a later burst leaves is neither sent nor freed |
| `ipsec_security_gw/ipsec_security_gw.c:974` | when a worker fails the contexts are freed while other workers use them |
| `allreduce/allreduce_ucx.c:906` | `allreduce_ucx_connect` and its callers test for a negative error, `am_send` returns a positive one: a failed connection counts as made |
| `allreduce/allreduce_ucx.c:801` | `error_callback` frees a connection that requests in flight name |
| `psp_gateway/psp_gw_pkt_rss.cpp:99` | a packet given to the transmit queue is also freed with its burst |
| `dpa_all_to_all/host/dpa_all_to_all_core.c:1073` | a failing `calloc` in `prepare_dpa_a2a_rdmas` destroys the connections and returns success |
| `dpa_all_to_all/host/dpa_all_to_all_core.c:1626` | a failing launch frees `req->resources` and leaves the pointer |
| `dpa_all_to_all/host/dpa_all_to_all_core.c:1786` | a gather that times out has its buffers freed with the operation outstanding |
| `file_compression/file_compression_core.c:668` | a message of the wrong size (668, 691) or beyond the file (729) leads to the finish message with success in `result` |
| `file_compression/file_compression_core.c:616` | the client takes any finish message for success |
| `file_compression/file_compression_core.c:659` | the first receive of the server has no time limit |
| `file_compression/file_compression_core.c:123` | `init_compress_resources` returns the result of its clean-up in place of the error |
| `app_shield_agent/app_shield_agent_core.c:439` | a failing system context is cleaned up and reported as success |
| `yara_inspection/yara_inspection.c:117` | the number of matches is read although the scan may have failed |
| `l2_reflector/device/l2_reflector_device.c:128` | send buffers are reused round robin without a look at the completions |
| `l2_reflector/device/l2_reflector_device.c:159` | the owner bit flips when the completion index wraps |
| `pcc/device/rp/pcc_rp_dev.c:256` | `mailbox_done` is set before the fence: it may be seen before the bandwidth |
| `pcc/host/pcc.c:129` | `host_stop` is cleared after the handler was installed: a SIGINT in between is lost |
| `simple_fwd_vnf/simple_fwd_ft.c:310` | `simple_fwd_ft_find` walks a bucket without its lock, and its caller keeps an entry the aging thread may free |
| `simple_fwd_vnf/simple_fwd_ft.c:103` | `destroy_entry` reads the index of the bucket before it has the lock |
| `simple_fwd_vnf/simple_fwd_ft.c:384` | `fid_ctr`, `stats.add` and `stats.rm` are changed by several cores without a lock |
| `simple_fwd_vnf/simple_fwd.c:1400` | an entry gets `age_sec` before `expiration`: the aging thread may free it at once, against "flows will be aged out in 5 - 60s" (1278) |
| `simple_fwd_vnf/simple_fwd.c:100` | an entry may be destroyed by the aging thread and by a core that handles DOCA Flow's aging events |

## 7. Plan

In order; each step is a module with its runs, mutants and map.

1. **RdmoControl**: open, close, client, queue and key commands while requests
   are in flight, over the state of `RdmoWorker`; a run with two clients on one
   connection.
2. **FlowTable** (simple_fwd_vnf): packet cores and the aging thread on locked
   buckets. The properties one would state (no access to a freed entry, no flow
   that ages early) do not hold, for the reasons of section 6, so it is a module of
   findings.
3. **FileCompression**: the protocol of `FileIntegrity` with its own error paths.
4. **IPsec gateway**: packet loops with bounded retries, the policy socket,
   insertion of rules by several cores, arrays that move.
5. **L2Reflector** (proof: ring indices and owner bits), **Pcc**.
6. **DocaContext**: the life cycle of a context, its tasks and its progress
   engine, as the samples use it, as an abstract specification that the
   applications' use of contexts refines.
7. **Proofs**: `AppendsDisjoint` of the worker, for initiators that wait; `NothingLeft` of the allreduce; `TunnelsAccepted` of the gateways.
