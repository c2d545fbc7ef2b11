------------------------- MODULE DpaAllToAllProofs -------------------------
(***************************************************************************)
(* Proofs about DpaAllToAll, for every number of processes and threads.    *)
(***************************************************************************)
EXTENDS DpaAllToAll, TLAPS

(* Every process is served by a thread of the kernel, and by one only. *)
LEMMA Served ==
  /\ NumThreads \in Nat \ {0}
  /\ \A i \in Ranks : \E t \in Threads : i \in Mine(t)
  /\ \A t, u \in Threads : t # u => Mine(t) \cap Mine(u) = {}
<1>1. NumThreads \in Nat \ {0}
  BY NAssumption DEF NumThreads
<1>2. ASSUME NEW i \in Ranks PROVE \E t \in Threads : i \in Mine(t)
  <2>1. i % NumThreads \in 0 .. NumThreads - 1
    BY <1>1, NAssumption DEF Ranks
  <2> QED BY <2>1 DEF Mine, Threads
<1>3. \A t, u \in Threads : t # u => Mine(t) \cap Mine(u) = {}
  BY DEF Mine
<1> QED BY <1>1, <1>2, <1>3

(* What is left of the operations on a connection when one takes effect. *)
LEMMA Operations ==
  /\ Head(<<"write", "signal", "ack">>) = "write"
  /\ Tail(<<"write", "signal", "ack">>) = <<"signal", "ack">>
  /\ Head(<<"signal", "ack">>) = "signal"
  /\ Tail(<<"signal", "ack">>) = <<"ack">>
  /\ Head(<<"ack">>) = "ack"
  /\ Tail(<<"ack">>) = <<>>
OBVIOUS

(* The states of a connection that the invariant tells apart. *)
LEMMA Distinct ==
  /\ <<"write", "signal", "ack">> # <<>>
  /\ <<"signal", "ack">> # <<>>
  /\ <<"ack">> # <<>>
  /\ <<"write", "signal", "ack">> # <<"signal", "ack">>
  /\ <<"ack">> # <<"signal", "ack">>
OBVIOUS

-----------------------------------------------------------------------------
(* The stages: nobody is behind a collective stage that somebody has left.   *)
Stages ==
  /\ \A r \in Ranks : pos[r] \in {Launch, Done} => ~in[r]
  /\ \A r, s \in Ranks : pos[r] > LastExchange => Reached(s, LastExchange)
  /\ \A r, s \in Ranks : pos[r] > Join => Reached(s, Join)

(* The kernels: a thread is through with a process when its event is set and *)
(* the connection is quiet, and the host waits for all threads.              *)
Kernels ==
  /\ \A r \in Ranks, t \in Threads :
       /\ kernel[r][t].todo \subseteq Mine(t)
       /\ kernel[r][t].phase # "off" => pos[r] >= Join
       /\ kernel[r][t].phase = "end" => kernel[r][t].todo = {}
       /\ kernel[r][t].phase \in {"wait", "end"} =>
            \A i \in Mine(t) \ kernel[r][t].todo :
              event[r][i] /\ conn[r][i] = <<>>
  /\ \A r \in Ranks : Reached(r, Join) => KernelEnded(r)

(* The blocks: a block is there once its signal may take effect. *)
Blocks ==
  \A r, i \in Ranks :
    /\ event[i][r] => recv[i][r] = <<r, i>>
    /\ conn[r][i] = <<"signal", "ack">> => recv[i][r] = <<r, i>>

(* The memory of a process between its first exchange and its first gather. *)
Memory ==
  \A r \in Ranks :
    ~failed[r] /\ Reached(r, FirstExchange) /\ ~Reached(r, FirstGather)
      => mem[r] = "live"

A2aInv == A2aTypeOK /\ Stages /\ Kernels /\ Blocks /\ Memory /\ TargetsLive

(* A2aInv holds when the processes start. *)
THEOREM A2aInitInv == A2aInit => A2aInv
<1> SUFFICES ASSUME A2aInit PROVE A2aInv
  OBVIOUS
<1> USE NAssumption DEF A2aInit, Start, Done, Launch, Join, LastExchange,
      FirstExchange, FirstGather, Reached
<1>1. A2aTypeOK
  BY EnvironmentsAssumption DEF A2aTypeOK, Phases, Outstanding, Block
<1>2. Stages
  BY DEF Stages
<1>3. Kernels
  BY DEF Kernels
<1>4. Blocks
  BY Distinct DEF Blocks
<1>5. Memory
  BY DEF Memory
<1>6. TargetsLive
  BY DEF TargetsLive
<1> QED BY <1>1, <1>2, <1>3, <1>4, <1>5, <1>6 DEF A2aInv

-----------------------------------------------------------------------------
(* The host program.                                                         *)

(* A process enters a stage; the request is finalized only when no kernel has *)
(* anything outstanding towards this process.                                *)
LEMMA EnterInv ==
  ASSUME A2aInv, NEW r \in Ranks, Enter(r)
  PROVE  A2aInv'
<1> USE NAssumption DEF Start, Done, Launch, Join, LastExchange,
      FirstExchange, FirstGather
<1>0. A2aTypeOK /\ Stages /\ Kernels /\ Blocks /\ Memory /\ TargetsLive
  BY DEF A2aInv
<1>1. A2aTypeOK'
  BY <1>0 DEF A2aTypeOK, Enter, MemAt
<1>2. /\ pos \in [Ranks -> Start .. Done] /\ in \in [Ranks -> BOOLEAN]
      /\ mem \in [Ranks -> {"none", "live", "freed", "gone"}]
      /\ pos' = pos /\ in' = [in EXCEPT ![r] = TRUE]
      /\ kernel' = kernel /\ conn' = conn /\ event' = event
      /\ recv' = recv /\ failed' = failed
      /\ mem' = [mem EXCEPT ![r] = MemAt(r)]
  BY <1>0 DEF A2aTypeOK, Enter
<1>3. Stages'
  BY <1>0, <1>2 DEF Stages, Reached, Enter
<1>4. Kernels'
  BY <1>0, <1>2 DEF Kernels, Reached, KernelEnded, Enter
<1>5. Blocks'
  BY <1>0, <1>2 DEF Blocks
<1>6. Memory'
  BY <1>0, <1>2 DEF Memory, Reached, MemAt, Enter
<1>7. TargetsLive'
  <2> SUFFICES ASSUME NEW s \in Ranks, NEW i \in Ranks, conn[s][i] # <<>>
               PROVE  mem'[i] = "live" \/ failed[i]
    BY <1>2 DEF TargetsLive
  <2>1. mem[i] = "live" \/ failed[i]
    BY <1>0 DEF TargetsLive
  <2>2. CASE i = r /\ pos[r] = FirstGather
    <3>1. KernelEnded(s)
      BY <1>0, <2>2 DEF Stages, Kernels
    <3>2. PICK t \in Threads : r \in Mine(t)
      BY Served
    <3>3. conn[s][r] = <<>>
      BY <1>0, <3>1, <3>2 DEF Kernels, KernelEnded
    <3> QED BY <3>3, <2>2
  <2>3. CASE ~(i = r /\ pos[r] = FirstGather)
    BY <1>2, <2>1, <2>3 DEF MemAt
  <2> QED BY <2>2, <2>3
<1> QED BY <1>1, <1>3, <1>4, <1>5, <1>6, <1>7 DEF A2aInv

(* A process leaves a stage: what it has reached does not change. *)
LEMMA LeaveInv ==
  ASSUME A2aInv, NEW r \in Ranks, Leave(r)
  PROVE  A2aInv'
<1> USE NAssumption DEF Start, Done, Launch, Join, LastExchange,
      FirstExchange, FirstGather
<1>0. A2aTypeOK /\ Stages /\ Kernels /\ Blocks /\ Memory /\ TargetsLive
  BY DEF A2aInv
<1>2. /\ pos \in [Ranks -> Start .. Done] /\ in \in [Ranks -> BOOLEAN]
      /\ pos' = [pos EXCEPT ![r] = @ + 1] /\ in' = [in EXCEPT ![r] = FALSE]
      /\ kernel' = kernel /\ conn' = conn /\ event' = event
      /\ recv' = recv /\ failed' = failed /\ mem' = mem
  BY <1>0 DEF A2aTypeOK, Leave
<1>3. in[r] /\ pos[r] # Launch /\ pos[r] # Done
  BY <1>0 DEF Leave, Stages
<1>1. A2aTypeOK'
  <2>1. pos[r] + 1 \in Start .. Done
    BY <1>2, <1>3
  <2>2. pos' \in [Ranks -> Start .. Done] /\ in' \in [Ranks -> BOOLEAN]
    BY <1>2, <2>1
  <2> QED BY <1>0, <2>2 DEF A2aTypeOK, Leave
<1>4. ASSUME NEW s \in Ranks, NEW p \in Int
      PROVE  Reached(s, p) <=> Reached(s, p)'
  BY <1>2, <1>3 DEF Reached
<1>5. pos[r] \in {LastExchange, Join} => \A s \in Ranks : Reached(s, pos[r])
  BY DEF Leave, Met, Connecting, Connect
<1>6. Stages'
  BY <1>0, <1>2, <1>4, <1>5 DEF Stages
<1>7. Kernels'
  BY <1>0, <1>2, <1>4 DEF Kernels, KernelEnded
<1>8. Memory'
  BY <1>0, <1>2, <1>4 DEF Memory
<1>9. Blocks' /\ TargetsLive'
  BY <1>0, <1>2 DEF Blocks, TargetsLive
<1> QED BY <1>1, <1>6, <1>7, <1>8, <1>9 DEF A2aInv

(* The kernel starts, after the last exchange. *)
LEMMA LaunchInv ==
  ASSUME A2aInv, NEW r \in Ranks, LaunchKernel(r)
  PROVE  A2aInv'
<1> USE NAssumption DEF Start, Done, Launch, Join, LastExchange,
      FirstExchange, FirstGather
<1>0. A2aTypeOK /\ Stages /\ Kernels /\ Blocks /\ Memory /\ TargetsLive
  BY DEF A2aInv
<1>2. /\ pos \in [Ranks -> Start .. Done] /\ in \in [Ranks -> BOOLEAN]
      /\ pos[r] = Launch /\ ~in[r]
      /\ pos' = [pos EXCEPT ![r] = Join] /\ in' = in
      /\ conn' = conn /\ event' = event
      /\ recv' = recv /\ failed' = failed /\ mem' = mem
  BY <1>0 DEF A2aTypeOK, Stages, LaunchKernel
<1>3. A2aTypeOK'
  BY <1>0, <1>2, Served DEF A2aTypeOK, LaunchKernel, Phases, Mine
<1>4. ASSUME NEW s \in Ranks, NEW p \in Int, p # Launch
      PROVE  Reached(s, p) <=> Reached(s, p)'
  BY <1>2, <1>4 DEF Reached
<1>5. Stages'
  BY <1>0, <1>2, <1>4 DEF Stages
<1>6. Kernels'
  <2>1. /\ kernel'[r] = [t \in Threads |-> [phase |-> "post", todo |-> Mine(t)]]
        /\ \A s \in Ranks \ {r} : kernel'[s] = kernel[s]
    BY <1>0 DEF A2aTypeOK, LaunchKernel
  <2>2. ~Reached(r, Join)'
    BY <1>2 DEF Reached
  <2>3. ASSUME NEW s \in Ranks, s # r, Reached(s, Join)' PROVE KernelEnded(s)'
    BY <1>0, <1>4, <2>1, <2>3 DEF Kernels, KernelEnded
  <2>4. ASSUME NEW s \in Ranks, NEW t \in Threads
        PROVE  /\ kernel'[s][t].todo \subseteq Mine(t)
               /\ kernel'[s][t].phase # "off" => pos'[s] >= Join
               /\ kernel'[s][t].phase = "end" => kernel'[s][t].todo = {}
               /\ kernel'[s][t].phase \in {"wait", "end"} =>
                    \A i \in Mine(t) \ kernel'[s][t].todo :
                      event'[s][i] /\ conn'[s][i] = <<>>
    <3>1. CASE s = r
      BY <1>2, <2>1, <3>1
    <3>2. CASE s # r
      BY <1>0, <1>2, <2>1, <3>2 DEF Kernels
    <3> QED BY <3>1, <3>2
  <2> QED BY <2>2, <2>3, <2>4 DEF Kernels
<1>7. Memory'
  BY <1>0, <1>2, <1>4 DEF Memory
<1>8. Blocks' /\ TargetsLive'
  BY <1>0, <1>2, Zenon DEF Blocks, TargetsLive
<1> QED BY <1>3, <1>5, <1>6, <1>7, <1>8 DEF A2aInv

(* Giving up, for either reason. *)
LEMMA GiveUpInv ==
  ASSUME A2aInv, NEW r \in Ranks, TimeOut(r) \/ Fail(r)
  PROVE  A2aInv'
<1> USE NAssumption DEF Start, Done, Launch, Join, LastExchange,
      FirstExchange, FirstGather
<1>0. A2aTypeOK /\ Stages /\ Kernels /\ Blocks /\ Memory /\ TargetsLive
  BY DEF A2aInv
<1>1. A2aTypeOK'
  <2>1. failed' \in [Ranks -> BOOLEAN]
    BY <1>0, Zenon DEF A2aTypeOK, TimeOut, Fail
  <2>2. mem' \in [Ranks -> {"none", "live", "freed", "gone"}]
    <3>1. PICK m \in {"none", "live", "freed", "gone"} :
            mem' = [mem EXCEPT ![r] = m]
      BY DEF TimeOut, Fail
    <3> QED BY <1>0, <3>1 DEF A2aTypeOK
  <2>3. faults' \in Nat
    BY <1>0 DEF A2aTypeOK, TimeOut, Fail
  <2> QED BY <1>0, <2>1, <2>2, <2>3 DEF A2aTypeOK, TimeOut, Fail
<1>2. /\ pos' = pos /\ in' = in /\ kernel' = kernel /\ conn' = conn
      /\ event' = event /\ recv' = recv
      /\ failed' = [failed EXCEPT ![r] = TRUE]
      /\ \A s \in Ranks \ {r} : mem'[s] = mem[s]
  BY <1>0 DEF A2aTypeOK, TimeOut, Fail
<1>3. Stages' /\ Kernels' /\ Blocks'
  BY <1>0, <1>2 DEF Stages, Kernels, Blocks, Reached, KernelEnded
<1>4. failed'[r] /\ \A s \in Ranks \ {r} : failed'[s] = failed[s]
  BY <1>0, <1>2 DEF A2aTypeOK
<1>5. Memory' /\ TargetsLive'
  BY <1>0, <1>2, <1>4 DEF Memory, TargetsLive, Reached
<1> QED BY <1>1, <1>3, <1>5 DEF A2aInv

-----------------------------------------------------------------------------
(* The kernel and the network.                                               *)

(* The record of a thread with one field replaced. *)
LEMMA RecordTodo ==
  ASSUME NEW P, NEW S, NEW x \in [phase : P, todo : S], NEW z
  PROVE  [x EXCEPT !.todo = z] = [phase |-> x.phase, todo |-> z]
OBVIOUS

(* The same for the other field. *)
LEMMA RecordPhase ==
  ASSUME NEW P, NEW S, NEW x \in [phase : P, todo : S], NEW z
  PROVE  [x EXCEPT !.phase = z] = [phase |-> z, todo |-> x.todo]
OBVIOUS

(* A function of two arguments, updated at one pair. *)
LEMMA Update2 ==
  ASSUME NEW A, NEW B, NEW C, NEW f \in [A -> [B -> C]],
         NEW a \in A, NEW b \in B, NEW c \in C,
         NEW g, g = [f EXCEPT ![a][b] = c]
  PROVE  /\ g \in [A -> [B -> C]]
         /\ g[a][b] = c
         /\ \A x \in A, y \in B : <<x, y>> # <<a, b>> => g[x][y] = f[x][y]
OBVIOUS

(* A thread is through with one process. *)
LEMMA ThreadDone ==
  ASSUME A2aTypeOK, NEW r \in Ranks, NEW t \in Threads, NEW i,
         kernel' = [kernel EXCEPT ![r][t].todo = @ \ {i}]
  PROVE  /\ kernel' \in
              [Ranks -> [Threads -> [phase : Phases, todo : SUBSET Ranks]]]
         /\ kernel'[r][t] = [phase |-> kernel[r][t].phase,
                             todo |-> kernel[r][t].todo \ {i}]
         /\ \A s \in Ranks, u \in Threads :
              <<s, u>> # <<r, t>> => kernel'[s][u] = kernel[s][u]
<1> DEFINE K == [phase : Phases, todo : SUBSET Ranks]
           k == [phase |-> kernel[r][t].phase, todo |-> kernel[r][t].todo \ {i}]
<1>1. kernel \in [Ranks -> [Threads -> K]]
  BY DEF A2aTypeOK
<1>2. kernel[r][t] \in K
  BY <1>1
<1>3. kernel[r][t].todo \ {i} \in SUBSET Ranks /\ k \in K
  BY <1>2
<1>4. [kernel[r][t] EXCEPT !.todo = kernel[r][t].todo \ {i}] = k
  BY <1>2, RecordTodo
<1>5. kernel' = [kernel EXCEPT ![r][t] = k]
  BY <1>1, <1>4, Zenon
<1> HIDE DEF K, k
<1>6. /\ kernel' \in [Ranks -> [Threads -> K]]
      /\ kernel'[r][t] = k
      /\ \A s \in Ranks, u \in Threads :
           <<s, u>> # <<r, t>> => kernel'[s][u] = kernel[s][u]
  <2>1. k \in K
    BY <1>3
  <2> QED BY ONLY <1>1, <1>5, <2>1, r \in Ranks, t \in Threads, Update2
<1> QED BY <1>6 DEF K, k

(* A thread posts a write: its target has passed the last exchange and not    *)
(* the barrier behind which it would let go of its memory.                   *)
LEMMA PostWriteInv ==
  ASSUME A2aInv, NEW r \in Ranks, NEW t \in Threads, PostWrite(r, t)
  PROVE  A2aInv'
<1> USE NAssumption DEF Start, Done, Launch, Join, LastExchange,
      FirstExchange, FirstGather
<1>0. A2aTypeOK /\ Stages /\ Kernels /\ Blocks /\ Memory /\ TargetsLive
  BY DEF A2aInv
<1>1. PICK i \in Firsts(kernel[r][t].todo) :
        /\ conn' = [conn EXCEPT ![r][i] = <<"write", "signal", "ack">>]
        /\ kernel' = [kernel EXCEPT ![r][t].todo = @ \ {i}]
  BY Zenon DEF PostWrite
<1>2. /\ kernel[r][t].phase = "post"
      /\ pos' = pos /\ in' = in /\ event' = event
      /\ recv' = recv /\ failed' = failed /\ mem' = mem
      /\ env' = env /\ faults' = faults
  BY DEF PostWrite
<1>3. i \in kernel[r][t].todo /\ i \in Mine(t) /\ i \in Ranks
  BY <1>0, <1>1 DEF Firsts, Kernels, Mine
<1>4. /\ conn'[r][i] = <<"write", "signal", "ack">>
      /\ \A s, j \in Ranks : <<s, j>> # <<r, i>> => conn'[s][j] = conn[s][j]
  BY <1>0, <1>1, <1>3 DEF A2aTypeOK
<1>5. /\ kernel'[r][t] = [phase |-> "post", todo |-> kernel[r][t].todo \ {i}]
      /\ \A s \in Ranks, u \in Threads :
           <<s, u>> # <<r, t>> => kernel'[s][u] = kernel[s][u]
  <2>1. /\ kernel'[r][t] = [phase |-> kernel[r][t].phase,
                            todo |-> kernel[r][t].todo \ {i}]
        /\ \A s \in Ranks, u \in Threads :
             <<s, u>> # <<r, t>> => kernel'[s][u] = kernel[s][u]
    <3>1. kernel' = [kernel EXCEPT ![r][t].todo = @ \ {i}]
      BY <1>1
    <3> HIDE DEF Start, Done, Launch, Join, LastExchange, FirstExchange,
          FirstGather
    <3> QED BY ONLY <1>0, <3>1, r \in Ranks, t \in Threads, ThreadDone, ZenonT(40)
  <2> QED BY <1>2, <2>1
<1>6. A2aTypeOK'
  <2>1. conn' \in [Ranks -> [Ranks -> Outstanding]]
    BY <1>0, <1>1, <1>3 DEF A2aTypeOK, Outstanding
  <2>2. kernel' \in [Ranks -> [Threads -> [phase : Phases, todo : SUBSET Ranks]]]
    BY <1>0, <1>1, ThreadDone, Zenon
  <2> QED BY <1>0, <1>2, <2>1, <2>2 DEF A2aTypeOK
<1>7. Stages' /\ Memory'
  BY <1>0, <1>2 DEF Stages, Memory, Reached
<1>8. Kernels'
  <2>1. ASSUME NEW s \in Ranks, NEW u \in Threads
        PROVE  /\ kernel'[s][u].todo \subseteq Mine(u)
               /\ kernel'[s][u].phase # "off" => pos'[s] >= Join
               /\ kernel'[s][u].phase = "end" => kernel'[s][u].todo = {}
               /\ kernel'[s][u].phase \in {"wait", "end"} =>
                    \A j \in Mine(u) \ kernel'[s][u].todo :
                      event'[s][j] /\ conn'[s][j] = <<>>
    <3>1. CASE s = r /\ u = t
      BY <1>0, <1>2, <1>5, <3>1 DEF Kernels
    <3>2. CASE ~(s = r /\ u = t)
      <4>1. kernel'[s][u] = kernel[s][u]
        BY <1>5, <3>2
      <4>2. ASSUME NEW j \in Mine(u) PROVE conn'[s][j] = conn[s][j]
        BY <1>3, <1>4, <3>2, Served DEF Mine
      <4> QED BY <1>0, <1>2, <4>1, <4>2 DEF Kernels
    <3> QED BY <3>1, <3>2
  <2>2. ASSUME NEW s \in Ranks, Reached(s, Join)' PROVE KernelEnded(s)'
    <3>1. Reached(s, Join)
      BY <1>2, <2>2 DEF Reached
    <3>2. KernelEnded(s)
      BY <1>0, <3>1 DEF Kernels
    <3>3. s # r
      BY <1>2, <3>2 DEF KernelEnded
    <3> QED BY <1>5, <3>2, <3>3 DEF KernelEnded
  <2> QED BY <2>1, <2>2 DEF Kernels
<1>9. Blocks'
  BY <1>0, <1>2, <1>4, Distinct DEF Blocks
<1>10. TargetsLive'
  <2>1. pos[r] >= Join /\ ~KernelEnded(r)
    BY <1>0, <1>2 DEF Kernels, KernelEnded
  <2>2. ~Reached(r, Join) /\ Reached(i, LastExchange)
    BY <1>0, <1>3, <2>1 DEF Kernels, Stages, A2aTypeOK
  <2>3. pos[i] <= Join
    BY <1>0, <1>3, <2>2 DEF Stages, A2aTypeOK
  <2>4. Reached(i, FirstExchange) /\ ~Reached(i, FirstGather)
    BY <1>0, <1>3, <2>2, <2>3 DEF Reached, A2aTypeOK
  <2>5. mem[i] = "live" \/ failed[i]
    BY <1>0, <1>3, <2>4 DEF Memory
  <2> QED BY <1>0, <1>2, <1>4, <2>5 DEF TargetsLive
<1> QED BY <1>6, <1>7, <1>8, <1>9, <1>10 DEF A2aInv

(* A step of a thread that only changes the state of that thread. *)
LEMMA ThreadStep ==
  ASSUME A2aInv, NEW r \in Ranks, NEW t \in Threads,
         NEW k \in [phase : Phases, todo : SUBSET Ranks],
         kernel' = [kernel EXCEPT ![r][t] = k],
         kernel[r][t].phase \in {"post", "wait"},
         k.todo \subseteq Mine(t),
         k.phase = "end" => k.todo = {},
         k.phase \in {"wait", "end"} =>
           \A i \in Mine(t) \ k.todo : event[r][i] /\ conn[r][i] = <<>>,
         UNCHANGED <<env, pos, in, failed, mem, conn, event, recv, faults>>
  PROVE  A2aInv'
<1> USE NAssumption DEF Start, Done, Launch, Join, LastExchange,
      FirstExchange, FirstGather
<1>0. A2aTypeOK /\ Stages /\ Kernels /\ Blocks /\ Memory /\ TargetsLive
  BY DEF A2aInv
<1> DEFINE K == [phase : Phases, todo : SUBSET Ranks]
<1>1. /\ kernel' \in [Ranks -> [Threads -> K]]
      /\ kernel'[r][t] = k
      /\ \A s \in Ranks, u \in Threads :
           <<s, u>> # <<r, t>> => kernel'[s][u] = kernel[s][u]
  <2>1. kernel \in [Ranks -> [Threads -> K]] /\ k \in K
    BY <1>0 DEF A2aTypeOK
  <2>2. kernel' = [kernel EXCEPT ![r][t] = k]
    OBVIOUS
  <2> HIDE DEF K
  <2> QED BY ONLY <2>1, <2>2, r \in Ranks, t \in Threads, Update2
<1>2. A2aTypeOK'
  BY <1>0, <1>1 DEF A2aTypeOK
<1>3. Stages' /\ Memory' /\ Blocks' /\ TargetsLive'
  BY <1>0 DEF Stages, Memory, Reached, Blocks, TargetsLive
<1>4. Kernels'
  <2>1. ASSUME NEW s \in Ranks, NEW u \in Threads
        PROVE  /\ kernel'[s][u].todo \subseteq Mine(u)
               /\ kernel'[s][u].phase # "off" => pos'[s] >= Join
               /\ kernel'[s][u].phase = "end" => kernel'[s][u].todo = {}
               /\ kernel'[s][u].phase \in {"wait", "end"} =>
                    \A j \in Mine(u) \ kernel'[s][u].todo :
                      event'[s][j] /\ conn'[s][j] = <<>>
    <3>1. CASE s = r /\ u = t
      BY <1>0, <1>1, <3>1, ZenonT(20) DEF Kernels
    <3>2. CASE ~(s = r /\ u = t)
      BY <1>0, <1>1, <3>2, SMTT(30) DEF Kernels
    <3> QED BY <3>1, <3>2, ZenonT(20)
  <2>2. ASSUME NEW s \in Ranks, Reached(s, Join)' PROVE KernelEnded(s)'
    <3>1. KernelEnded(s)
      BY <1>0, <2>2 DEF Kernels, Reached
    <3>2. s # r
      BY <3>1 DEF KernelEnded
    <3> QED BY <1>1, <3>1, <3>2 DEF KernelEnded
  <2> QED BY <2>1, <2>2, ZenonT(20) DEF Kernels
<1> QED BY <1>2, <1>3, <1>4 DEF A2aInv

(* A thread has posted all its writes, waits for one process, or ends. *)
LEMMA WaitInv ==
  ASSUME A2aInv, NEW r \in Ranks, NEW t \in Threads,
         AllPosted(r, t) \/ WaitEvent(r, t) \/ AllArrived(r, t)
  PROVE  A2aInv'
<1>0. A2aTypeOK /\ Kernels
  BY DEF A2aInv
<1> DEFINE K == [phase : Phases, todo : SUBSET Ranks]
<1>1. kernel \in [Ranks -> [Threads -> K]] /\ kernel[r][t] \in K
  BY <1>0 DEF A2aTypeOK
<1>2. UNCHANGED <<env, pos, in, failed, mem, conn, event, recv, faults>>
  BY DEF AllPosted, WaitEvent, AllArrived
<1>3. CASE AllPosted(r, t)
  <2> DEFINE k == [phase |-> "wait", todo |-> Mine(t)]
  <2>1. k \in K /\ k.phase = "wait" /\ k.todo = Mine(t)
    BY DEF Phases, Mine
  <2>2. kernel' = [kernel EXCEPT ![r][t] = k] /\ kernel[r][t].phase = "post"
    BY <1>3 DEF AllPosted
  <2> HIDE DEF k
  <2>3. \A j \in Mine(t) \ k.todo : event[r][j] /\ conn[r][j] = <<>>
    BY <2>1
  <2> QED BY <1>2, <2>1, <2>2, <2>3, ThreadStep, ZenonT(40)
<1>4. CASE WaitEvent(r, t)
  <2>1. PICK i \in Firsts(kernel[r][t].todo) :
          /\ event[r][i] /\ conn[r][i] = <<>>
          /\ kernel' = [kernel EXCEPT ![r][t].todo = @ \ {i}]
    BY <1>4, Zenon DEF WaitEvent
  <2> DEFINE k == [phase |-> kernel[r][t].phase,
                   todo |-> kernel[r][t].todo \ {i}]
  <2>2. kernel[r][t].phase = "wait"
    BY <1>4 DEF WaitEvent
  <2>3. k \in K /\ k.phase = "wait" /\ k.todo = kernel[r][t].todo \ {i}
    BY <1>1, <2>2
  <2>4. [kernel[r][t] EXCEPT !.todo = kernel[r][t].todo \ {i}] = k
    <3>1. kernel[r][t] \in K
      BY <1>1
    <3>2. ASSUME NEW z
          PROVE  [kernel[r][t] EXCEPT !.todo = z]
                   = [phase |-> kernel[r][t].phase, todo |-> z]
      BY <3>1, RecordTodo
    <3> QED BY ONLY <3>2
  <2>5. kernel' = [kernel EXCEPT ![r][t] = k]
    BY <1>1, <2>1, <2>4, Zenon
  <2>6. /\ kernel[r][t].todo \subseteq Mine(t)
        /\ \A j \in Mine(t) \ kernel[r][t].todo :
             event[r][j] /\ conn[r][j] = <<>>
    BY <1>0, <2>2 DEF Kernels
  <2> HIDE DEF k
  <2>7. \A j \in Mine(t) \ k.todo : event[r][j] /\ conn[r][j] = <<>>
    BY <2>1, <2>3, <2>6
  <2>8. k.todo \subseteq Mine(t)
    BY <2>3, <2>6
  <2> QED BY <1>2, <2>2, <2>3, <2>5, <2>7, <2>8, ThreadStep, Zenon
<1>5. CASE AllArrived(r, t)
  <2> DEFINE k == [phase |-> "end", todo |-> {}]
  <2>1. kernel[r][t].phase = "wait" /\ kernel[r][t].todo = {}
    BY <1>5 DEF AllArrived
  <2>2. k \in K /\ k.phase = "end" /\ k.todo = {}
    BY DEF Phases
  <2>3. [kernel[r][t] EXCEPT !.phase = "end"] = k
    <3>1. kernel[r][t] \in K
      BY <1>1
    <3>2. [kernel[r][t] EXCEPT !.phase = "end"]
            = [phase |-> "end", todo |-> kernel[r][t].todo]
      BY <3>1, RecordPhase
    <3> QED BY <2>1, <3>2
  <2>4. kernel' = [kernel EXCEPT ![r][t] = k]
    BY <1>1, <1>5, <2>3, Zenon DEF AllArrived
  <2>5. \A j \in Mine(t) : event[r][j] /\ conn[r][j] = <<>>
    BY <1>0, <2>1 DEF Kernels
  <2> HIDE DEF k
  <2> QED BY <1>2, <2>1, <2>2, <2>4, <2>5, ThreadStep, Zenon
<1> QED BY <1>3, <1>4, <1>5

(* An operation takes effect, or its acknowledgement arrives. *)
LEMMA LandInv ==
  ASSUME A2aInv, NEW r \in Ranks, NEW i \in Ranks, Land(r, i)
  PROVE  A2aInv'
<1> USE NAssumption DEF Start, Done, Launch, Join, LastExchange,
      FirstExchange, FirstGather
<1>0. A2aTypeOK /\ Stages /\ Kernels /\ Blocks /\ Memory /\ TargetsLive
  BY DEF A2aInv
<1>1. /\ conn \in [Ranks -> [Ranks -> Outstanding]]
      /\ event \in [Ranks -> [Ranks -> BOOLEAN]]
      /\ recv \in [Ranks -> [Ranks -> Block]]
  BY <1>0 DEF A2aTypeOK
<1> DEFINE c == conn[r][i]
<1>2. /\ c \in Outstanding /\ c # <<>>
      /\ conn' = [conn EXCEPT ![r][i] = Tail(c)]
      /\ UNCHANGED <<env, pos, in, failed, mem, kernel, faults>>
  BY <1>1 DEF Land
<1>3. /\ c = <<"write", "signal", "ack">> => Tail(c) = <<"signal", "ack">>
      /\ c = <<"signal", "ack">> => Tail(c) = <<"ack">>
      /\ c = <<"ack">> => Tail(c) = <<>>
      /\ Tail(c) \in Outstanding
  BY <1>2, Operations, Zenon DEF Outstanding
<1>4. /\ conn' \in [Ranks -> [Ranks -> Outstanding]]
      /\ conn'[r][i] = Tail(c)
      /\ \A s, j \in Ranks : <<s, j>> # <<r, i>> => conn'[s][j] = conn[s][j]
  <2> HIDE DEF c
  <2> QED BY ONLY <1>1, <1>2, <1>3, r \in Ranks, i \in Ranks, Update2, ZenonT(40)
<1>5. /\ recv' \in [Ranks -> [Ranks -> Block]]
      /\ recv'[i][r] = IF Head(c) = "write" THEN <<r, i>> ELSE recv[i][r]
      /\ \A s, j \in Ranks : <<j, s>> # <<i, r>> => recv'[j][s] = recv[j][s]
  <2>1. CASE Head(c) = "write"
    <3>1. <<r, i>> \in Block
      BY DEF Block
    <3>2. recv' = [recv EXCEPT ![i][r] = <<r, i>>]
      BY <2>1, SMTT(30) DEF Land
    <3>3. /\ recv' \in [Ranks -> [Ranks -> Block]]
          /\ recv'[i][r] = <<r, i>>
          /\ \A j, s \in Ranks : <<j, s>> # <<i, r>> => recv'[j][s] = recv[j][s]
      BY ONLY <1>1, <3>1, <3>2, r \in Ranks, i \in Ranks, Update2, ZenonT(40)
    <3> QED BY <2>1, <3>3
  <2>2. CASE Head(c) # "write"
    BY <1>1, <2>2 DEF Land
  <2> QED BY <2>1, <2>2
<1>6. /\ event' \in [Ranks -> [Ranks -> BOOLEAN]]
      /\ event'[i][r] = (Head(c) = "signal" \/ event[i][r])
      /\ \A s, j \in Ranks : <<j, s>> # <<i, r>> => event'[j][s] = event[j][s]
  <2>1. CASE Head(c) = "signal"
    <3>2. event' = [event EXCEPT ![i][r] = TRUE]
      BY <2>1 DEF Land
    <3>3. /\ event' \in [Ranks -> [Ranks -> BOOLEAN]]
          /\ event'[i][r] = TRUE
          /\ \A j, s \in Ranks :
               <<j, s>> # <<i, r>> => event'[j][s] = event[j][s]
      BY ONLY <1>1, <3>2, r \in Ranks, i \in Ranks, Update2, ZenonT(40)
    <3> QED BY <2>1, <3>3
  <2>2. CASE Head(c) # "signal"
    BY <1>1, <2>2 DEF Land
  <2> QED BY <2>1, <2>2
<1>7. A2aTypeOK'
  BY <1>0, <1>2, <1>4, <1>5, <1>6 DEF A2aTypeOK
<1>8. Stages' /\ Memory'
  BY <1>0, <1>2, ZenonT(20) DEF Stages, Memory, Reached
<1>9. Kernels'
  <2>1. ASSUME NEW s \in Ranks, NEW j \in Ranks, event[s][j]
        PROVE  event'[s][j]
    BY <1>6, <2>1
  <2>2. ASSUME NEW s \in Ranks, NEW j \in Ranks, conn[s][j] = <<>>
        PROVE  conn'[s][j] = <<>>
    BY <1>2, <1>4, <2>2
  <2>3. \A t \in Threads : Mine(t) \subseteq Ranks
    BY ZenonT(20) DEF Mine
  <2> QED BY <1>0, <1>2, <2>1, <2>2, <2>3 DEF Kernels, KernelEnded, Reached
<1>10. Blocks'
  <2>1. ASSUME NEW s \in Ranks, NEW j \in Ranks, <<s, j>> # <<r, i>>
        PROVE  /\ event'[j][s] => recv'[j][s] = <<s, j>>
               /\ conn'[s][j] = <<"signal", "ack">> => recv'[j][s] = <<s, j>>
    <3>1. <<j, s>> # <<i, r>>
      BY <2>1
    <3>2. /\ conn'[s][j] = conn[s][j] /\ recv'[j][s] = recv[j][s]
          /\ event'[j][s] = event[j][s]
      BY <1>4, <1>5, <1>6, <2>1, <3>1
    <3> QED BY <1>0, <3>2 DEF Blocks
  <2>2. /\ event'[i][r] => recv'[i][r] = <<r, i>>
        /\ conn'[r][i] = <<"signal", "ack">> => recv'[i][r] = <<r, i>>
    <3>1. CASE c = <<"write", "signal", "ack">>
      BY <1>5, <3>1, Operations
    <3>2. CASE c = <<"signal", "ack">>
      BY <1>0, <1>5, <3>2, Operations, ZenonT(20) DEF Blocks
    <3>3. CASE c = <<"ack">>
      BY <1>0, <1>3, <1>4, <1>5, <1>6, <3>3, Operations, Distinct DEF Blocks
    <3> QED BY <1>2, <3>1, <3>2, <3>3 DEF Outstanding
  <2> QED BY <2>1, <2>2 DEF Blocks
<1>11. TargetsLive'
  BY <1>0, <1>2, <1>4 DEF TargetsLive
<1> QED BY <1>7, <1>8, <1>9, <1>10, <1>11 DEF A2aInv

-----------------------------------------------------------------------------
(* Every step of the program keeps A2aInv. *)
LEMMA A2aStepInv == A2aInv /\ [A2aNext]_vars => A2aInv'
<1> SUFFICES ASSUME A2aInv, [A2aNext]_vars PROVE A2aInv'
  BY ZenonT(20)
<1>1. CASE UNCHANGED vars
  BY <1>1, SMTT(30) DEF vars, A2aInv, A2aTypeOK, Stages, Kernels, Blocks, Memory,
    TargetsLive, Reached, KernelEnded
<1>2. CASE A2aNext
  BY <1>2, EnterInv, LeaveInv, LaunchInv, GiveUpInv, PostWriteInv, WaitInv,
    LandInv DEF A2aNext, KernelStep
<1> QED BY <1>1, <1>2

(* A2aInv holds throughout, for every number of processes and threads. *)
THEOREM A2aInvariant == A2aSpec => []A2aInv
BY A2aInitInv, A2aStepInv, PTL DEF A2aSpec

(* For every number of processes and threads and any number of failures: a   *)
(* process whose dpa_a2a_req_wait returned has all its blocks.               *)
THEOREM A2aReceived == A2aSpec => []Received
<1>1. ASSUME A2aInv, NEW r \in Ranks, NEW s \in Ranks, Reached(r, Join)
      PROVE  recv[r][s] = <<s, r>>
  <2>1. PICK t \in Threads : s \in Mine(t)
    BY Served
  <2>2. event[r][s]
    BY <1>1, <2>1 DEF A2aInv, Kernels, KernelEnded
  <2> QED BY <1>1, <2>2 DEF A2aInv, Blocks
<1>2. A2aInv => Received
  BY <1>1 DEF Received
<1> QED BY <1>2, A2aInvariant, PTL

(* For every number of processes and threads and any number of failures:     *)
(* nothing is outstanding towards memory that is not registered, unless its  *)
(* owner failed.                                                             *)
THEOREM A2aTargetsLive == A2aSpec => []TargetsLive
<1>1. A2aInv => TargetsLive
  BY DEF A2aInv
<1> QED BY <1>1, A2aInvariant, PTL
=============================================================================
