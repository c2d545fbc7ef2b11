----------------------------- MODULE DpaAllToAll -----------------------------
(***************************************************************************)
(* The DPA all to all (applications/dpa_all_to_all): N MPI processes, each *)
(* with a kernel on its DPA that writes one block into the receive buffer  *)
(* of every process and signals it there.                                  *)
(*                                                                         *)
(* The host program is a line of stages.  Stages with communication are    *)
(* entered, once the local work before them is done, and left when the     *)
(* others have entered: MPI_Barrier waits for ever, the other calls for    *)
(* MAX_MPI_WAIT_TIME.  What a process contributed to a stage stays         *)
(* available when it fails later.                                          *)
(*                                                                         *)
(* MPI, the DPA and the network are external: the operations a kernel      *)
(* posts on one connection take effect in order, and are complete for the  *)
(* kernel only when the target has acknowledged them.                      *)
(***************************************************************************)
EXTENDS Integers, Sequences

CONSTANTS
  N,              \* number of processes
  MaxThreads,     \* MAX_NUM_THREADS
  None,           \* a block that was not received
  Environments    \* faults: local operations that fail.  late: whether a
                  \* process may be so slow that others give up on it

ASSUME NAssumption == N \in Nat \ {0} /\ MaxThreads \in Nat \ {0}

ASSUME NoneAssumption == None \notin (0 .. N - 1) \X (0 .. N - 1)

ASSUME EnvironmentsAssumption ==
  Environments \subseteq [faults : Nat, late : BOOLEAN]

Ranks == 0 .. N - 1

NumThreads == IF N < MaxThreads THEN N ELSE MaxThreads
Threads == 0 .. NumThreads - 1

(* The processes that thread t of a kernel serves. *)
Mine(t) == {i \in Ranks : i % NumThreads = t}

(* It takes them in increasing order. *)
Firsts(todo) == {i \in todo : \A j \in todo : i <= j}

-----------------------------------------------------------------------------
(* The stages of dpa_a2a: the barrier, the connection to every process, the  *)
(* five exchanges of prepare_dpa_a2a_memory, the kernel, the barrier of      *)
(* dpa_alltoall and the two gathers.                                         *)

Start == 0
Connect(i) == 1 + i
FirstExchange == N + 1
LastExchange == N + 5
Launch == N + 6
Join == N + 7
FirstGather == N + 8
Done == N + 10

Connecting(p) == p \in Connect(0) .. Connect(N - 1)
Untimed(p) == p \in {Start, Launch, Join, Done}

VARIABLES
  env,      \* the environment of this behaviour
  pos,      \* the stage of every process
  in,       \* it has entered this stage
  failed,   \* it gave up in this stage
  mem,      \* its receive buffer and events
  kernel,   \* the threads of its kernel, with the processes still to serve
  conn,     \* operations outstanding on a connection, the acknowledgement last
  event,    \* kernel events: event[r][s] is set by s
  recv,     \* receive buffers, by block
  faults    \* failures that may still happen

vars == <<env, pos, in, failed, mem, kernel, conn, event, recv, faults>>

Block == (Ranks \X Ranks) \cup {None}
Phases == {"off", "post", "wait", "end"}
Outstanding ==
  {<<>>, <<"ack">>, <<"signal", "ack">>, <<"write", "signal", "ack">>}

A2aTypeOK ==
  /\ env \in Environments
  /\ pos \in [Ranks -> Start .. Done]
  /\ in \in [Ranks -> BOOLEAN]
  /\ failed \in [Ranks -> BOOLEAN]
  /\ mem \in [Ranks -> {"none", "live", "freed", "gone"}]
  /\ kernel \in [Ranks -> [Threads -> [phase : Phases, todo : SUBSET Ranks]]]
  /\ conn \in [Ranks -> [Ranks -> Outstanding]]
  /\ event \in [Ranks -> [Ranks -> BOOLEAN]]
  /\ recv \in [Ranks -> [Ranks -> Block]]
  /\ faults \in Nat

A2aInit ==
  /\ env \in Environments
  /\ pos = [r \in Ranks |-> Start]
  /\ in = [r \in Ranks |-> FALSE]
  /\ failed = [r \in Ranks |-> FALSE]
  /\ mem = [r \in Ranks |-> "none"]
  /\ kernel = [r \in Ranks |->
       [t \in Threads |-> [phase |-> "off", todo |-> {}]]]
  /\ conn = [r \in Ranks |-> [i \in Ranks |-> <<>>]]
  /\ event = [r \in Ranks |-> [i \in Ranks |-> FALSE]]
  /\ recv = [r \in Ranks |-> [i \in Ranks |-> None]]
  /\ faults = env.faults

-----------------------------------------------------------------------------
(* The host program.                                                         *)

Reached(s, p) == pos[s] > p \/ (pos[s] = p /\ in[s])

(* Mutant of Met: no barrier before the request is finalized. *)
MutantMet(r) ==
  IF Connecting(pos[r]) THEN Reached(pos[r] - Connect(0), Connect(r))
  ELSE pos[r] = Join \/ \A s \in Ranks : Reached(s, pos[r])

(* What the process waits for in its stage: the details of the process it    *)
(* connects to, or everyone.                                                 *)
Met(r) ==
  IF Connecting(pos[r]) THEN Reached(pos[r] - Connect(0), Connect(r))
  ELSE \A s \in Ranks : Reached(s, pos[r])

KernelEnded(r) == \A t \in Threads : kernel[r][t].phase = "end"

(* The memory is registered before it is announced, and let go by            *)
(* dpa_a2a_req_finalize.                                                     *)
MemAt(r) ==
  CASE pos[r] = FirstExchange -> "live"
    [] pos[r] = FirstGather -> "gone"
    [] OTHER -> mem[r]

(* The local work is done, the kernel included, and the call is made. *)
Enter(r) ==
  /\ ~failed[r] /\ ~in[r] /\ pos[r] \notin {Launch, Done}
  /\ pos[r] = Join => KernelEnded(r)
  /\ in' = [in EXCEPT ![r] = TRUE]
  /\ mem' = [mem EXCEPT ![r] = MemAt(r)]
  /\ UNCHANGED <<env, pos, failed, kernel, conn, event, recv, faults>>

Leave(r) ==
  /\ ~failed[r] /\ in[r] /\ Met(r)
  /\ pos' = [pos EXCEPT ![r] = @ + 1]
  /\ in' = [in EXCEPT ![r] = FALSE]
  /\ UNCHANGED <<env, failed, mem, kernel, conn, event, recv, faults>>

(* doca_dpa_kernel_launch_update_set *)
LaunchKernel(r) ==
  /\ ~failed[r] /\ pos[r] = Launch
  /\ pos' = [pos EXCEPT ![r] = Join]
  /\ kernel' = [kernel EXCEPT ![r] =
       [t \in Threads |-> [phase |-> "post", todo |-> Mine(t)]]]
  /\ UNCHANGED <<env, in, failed, mem, conn, event, recv, faults>>

(* Mutant of TimeOut: the connections are waited for without a limit. *)
MutantTimeOut(r) ==
  /\ ~failed[r] /\ in[r] /\ ~Met(r)
  /\ ~Untimed(pos[r]) /\ ~Connecting(pos[r])
  /\ env.late \/ \E s \in Ranks : failed[s]
  /\ failed' = [failed EXCEPT ![r] = TRUE]
  /\ mem' = [mem EXCEPT ![r] = "gone"]
  /\ UNCHANGED <<env, pos, in, kernel, conn, event, recv, faults>>

(* mpi_request_wait_timeout: the process cleans up and returns. *)
TimeOut(r) ==
  /\ ~failed[r] /\ in[r] /\ ~Met(r)
  /\ ~Untimed(pos[r])
  /\ env.late \/ \E s \in Ranks : failed[s]
  /\ failed' = [failed EXCEPT ![r] = TRUE]
  /\ mem' = [mem EXCEPT ![r] = "gone"]
  /\ UNCHANGED <<env, pos, in, kernel, conn, event, recv, faults>>

(* Local work fails.  dpa_a2a_init cleans up.  When the launch of the kernel *)
(* or the wait for it fails, the buffer is freed and its registration stays. *)
Fail(r) ==
  /\ ~failed[r] /\ ~in[r] /\ pos[r] # Done
  /\ faults > 0
  /\ faults' = faults - 1
  /\ failed' = [failed EXCEPT ![r] = TRUE]
  /\ \E m \in (IF pos[r] = Launch THEN {"freed", "gone"}
               ELSE IF pos[r] = Join THEN {"freed"} ELSE {"gone"}) :
       mem' = [mem EXCEPT ![r] = m]
  /\ UNCHANGED <<env, pos, in, kernel, conn, event, recv>>

-----------------------------------------------------------------------------
(* alltoall_kernel.                                                          *)

(* Mutant of PostWrite: the signal before the write. *)
MutantPostWrite(r, t) ==
  /\ kernel[r][t].phase = "post"
  /\ \E i \in Firsts(kernel[r][t].todo) :
       /\ conn' = [conn EXCEPT ![r][i] = <<"signal", "write", "ack">>]
       /\ kernel' = [kernel EXCEPT ![r][t].todo = @ \ {i}]
  /\ UNCHANGED <<env, pos, in, failed, mem, event, recv, faults>>

(* doca_dpa_dev_rdma_post_write, doca_dpa_dev_rdma_signal_set *)
PostWrite(r, t) ==
  /\ kernel[r][t].phase = "post"
  /\ \E i \in Firsts(kernel[r][t].todo) :
       /\ conn' = [conn EXCEPT ![r][i] = <<"write", "signal", "ack">>]
       /\ kernel' = [kernel EXCEPT ![r][t].todo = @ \ {i}]
  /\ UNCHANGED <<env, pos, in, failed, mem, event, recv, faults>>

AllPosted(r, t) ==
  /\ kernel[r][t].phase = "post" /\ kernel[r][t].todo = {}
  /\ kernel' = [kernel EXCEPT ![r][t] = [phase |-> "wait", todo |-> Mine(t)]]
  /\ UNCHANGED <<env, pos, in, failed, mem, conn, event, recv, faults>>

(* doca_dpa_dev_sync_event_wait_gt, doca_dpa_dev_rdma_synchronize *)
WaitEvent(r, t) ==
  /\ kernel[r][t].phase = "wait"
  /\ \E i \in Firsts(kernel[r][t].todo) :
       /\ event[r][i]
       /\ conn[r][i] = <<>>
       /\ kernel' = [kernel EXCEPT ![r][t].todo = @ \ {i}]
  /\ UNCHANGED <<env, pos, in, failed, mem, conn, event, recv, faults>>

AllArrived(r, t) ==
  /\ kernel[r][t].phase = "wait" /\ kernel[r][t].todo = {}
  /\ kernel' = [kernel EXCEPT ![r][t].phase = "end"]
  /\ UNCHANGED <<env, pos, in, failed, mem, conn, event, recv, faults>>

(* The network: the next operation from r to i takes effect, if the memory   *)
(* of i is still registered, or its acknowledgement arrives.                 *)
Land(r, i) ==
  /\ conn[r][i] # <<>>
  /\ mem[i] \in {"live", "freed"}
  /\ conn' = [conn EXCEPT ![r][i] = Tail(@)]
  /\ recv' = IF Head(conn[r][i]) = "write"
             THEN [recv EXCEPT ![i][r] = <<r, i>>] ELSE recv
  /\ event' = IF Head(conn[r][i]) = "signal"
              THEN [event EXCEPT ![i][r] = TRUE] ELSE event
  /\ UNCHANGED <<env, pos, in, failed, mem, kernel, faults>>

-----------------------------------------------------------------------------
KernelStep(r, t) ==
  PostWrite(r, t) \/ AllPosted(r, t) \/ WaitEvent(r, t) \/ AllArrived(r, t)

A2aNext ==
  \/ \E r \in Ranks :
       Enter(r) \/ Leave(r) \/ LaunchKernel(r) \/ TimeOut(r) \/ Fail(r)
  \/ \E r \in Ranks, t \in Threads : KernelStep(r, t)
  \/ \E r, i \in Ranks : Land(r, i)

(* Processes, kernels and the network go on; nothing has to fail, but a time *)
(* limit runs out.                                                           *)
A2aFairness ==
  /\ \A r \in Ranks :
       WF_vars(Enter(r) \/ Leave(r) \/ LaunchKernel(r) \/ TimeOut(r))
  /\ \A r \in Ranks, t \in Threads : WF_vars(KernelStep(r, t))
  /\ \A r, i \in Ranks : WF_vars(Land(r, i))

A2aSpec == A2aInit /\ [][A2aNext]_vars /\ A2aFairness

-----------------------------------------------------------------------------
(* Whatever failed or was late elsewhere, a process whose dpa_a2a_req_wait   *)
(* returned has received from every process the block meant for it: the      *)
(* signal follows the write on its connection, and every thread waits for    *)
(* the events of all the processes it serves.                                *)
Received ==
  \A r \in Ranks :
    Reached(r, Join) => \A s \in Ranks : recv[r][s] = <<s, r>>

(* A kernel works with memory that is there: nothing is outstanding towards  *)
(* a process before it has registered its buffer or after it let go of it,   *)
(* unless that process failed: the exchanges come before the kernel, and the *)
(* barrier between the wait and dpa_a2a_req_finalize.                        *)
TargetsLive ==
  \A r, i \in Ranks :
    conn[r][i] # <<>> => mem[i] = "live" \/ failed[i]

Ended(r) == failed[r] \/ pos[r] = Done

(* A process fails where the others have no time limit: at a barrier, or     *)
(* once they may have left the last exchange and run their kernels.          *)
Uncovered(s) ==
  failed[s] /\ (pos[s] = Start \/ (Reached(s, LastExchange) /\ pos[s] <= Join))

(* Every process ends: with its result, or because the time limits of the    *)
(* connections and the exchanges pass the failure of one process on to all,  *)
(* wherever it happens except where the code waits without a limit.          *)
EveryoneEnds == \A r \in Ranks : <>(Ended(r) \/ \E s \in Ranks : Uncovered(s))
=============================================================================
