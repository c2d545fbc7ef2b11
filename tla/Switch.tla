------------------------------- MODULE Switch -------------------------------
(***************************************************************************)
(* The commands of the switch application (applications/switch/            *)
(* switch_core.c) over the flow pipes manager and DOCA Flow.               *)
(*                                                                         *)
(* DOCA Flow is external: pipes and entries are handles, and an operation  *)
(* on an entry (add, control add, removal) sits in the pipe queue 0 until  *)
(* doca_flow_entries_process takes it out, in order, and calls             *)
(* check_for_valid_entry for it.  A call that asks for one entry processes *)
(* one at least, and possibly more, unless its 10 ms are over first.       *)
(*                                                                         *)
(* The status an entry was added with is a local variable of               *)
(* pipe_add_entry.  The callback of an entry of an earlier command writes  *)
(* through a dangling pointer: onto the status of the command that runs    *)
(* now, which has the same stack frame, or somewhere else.                 *)
(***************************************************************************)
EXTENDS PipesManager, Sequences

CONSTANTS
  SwitchPort,     \* switch_mode_port_id, port 0
  Environments    \* what the runs let happen: see EnvironmentsAssumption

ASSUME SwitchPortAssumption == SwitchPort \in Ports

(* collide: two entries may get one id.  pace: doca_flow_entries_process     *)
(* may run out of time or fail ("slow"), processes one operation or more     *)
(* ("one"), or all that are queued ("all").                                  *)
ASSUME EnvironmentsAssumption ==
  Environments \subseteq [collide : BOOLEAN, pace : {"slow", "one", "all"}]

VARIABLES
  env,     \* the environment of this behaviour
  live,    \* pipes that DOCA Flow has
  hw,      \* entry handle -> its state in DOCA Flow and its pipe (what
           \* becomes of a control entry nobody looks at)
  queue,   \* operations in pipe queue 0 that were not processed
  up       \* the command line accepts commands

hwVars == <<live, hw, queue>>
swVars == <<pmVars, hwVars, env, up>>

Free == [st |-> "free", pipe |-> None]

(* The states of an entry the application may use. *)
Held == {"adding", "active", "failed", "control"}

Op == [op : {"add", "control", "del"}, entry : Entries]

HwEntry ==
  [st : Held \cup {"free", "removing"}, pipe : Pipes \cup {None}]

SwTypeOK ==
  /\ PmTypeOK
  /\ env \in Environments
  /\ live \subseteq Pipes
  /\ hw \in [Entries -> HwEntry]
  /\ queue \in Seq(Op)
  /\ up \in BOOLEAN

(* switch_init. *)
SwInit ==
  /\ PmInit
  /\ env \in Environments
  /\ live = {}
  /\ hw = [x \in Entries |-> Free]
  /\ queue = <<>>
  /\ up = TRUE

-----------------------------------------------------------------------------
(* DOCA Flow. *)

FreeEntries == {x \in Entries : hw[x].st = "free"}

(* doca_flow_pipe_rm_entry, accepted or not. *)
HwRemove(x, h, q) ==
  \/ /\ hw' = [h EXCEPT ![x].st = "removing"]
     /\ queue' = Append(q, [op |-> "del", entry |-> x])
  \/ hw' = h /\ queue' = q

(* doca_flow_pipe_destroy and doca_flow_port_pipes_flush: the pipes go with *)
(* their entries and what was queued for them; the other operations keep     *)
(* their order.                                                              *)
HwDestroy(pipes) ==
  LET kept == {i \in 1..Len(queue) : hw[queue[i].entry].pipe \notin pipes} IN
  /\ live' = live \ pipes
  /\ hw' = [x \in Entries |-> IF hw[x].pipe \in pipes THEN Free ELSE hw[x]]
  /\ \E n \in 0..Len(queue) : \E at \in [1..n -> kept] :
       /\ kept = {at[i] : i \in 1..n}
       /\ \A i, j \in 1..n : i < j => at[i] < at[j]
       /\ queue' = [i \in 1..n |-> queue[at[i]]]

(* The fewest operations of q that doca_flow_entries_process takes out. *)
Least(q) ==
  CASE env.pace = "slow" -> 0 [] env.pace = "one" -> 1 [] OTHER -> Len(q)

(* The state of the entries after the first k operations of q, of which     *)
(* those of the entries bad failed.                                         *)
Processed(h, q, k, bad) ==
  LET done == {q[i] : i \in 1..k} IN
  [x \in Entries |->
     CASE h[x].st = "removing" /\ [op |-> "del", entry |-> x] \in done -> Free
       [] /\ h[x].st = "adding"
          /\ \E o \in done : o.entry = x ->
            [h[x] EXCEPT !.st = IF x \in bad THEN "failed" ELSE "active"]
       [] OTHER -> h[x]]

(* What the check_for_valid_entry calls for those operations leave in the   *)
(* status of the running command, whose entry is x: an add of an earlier    *)
(* command may hit it (stray) or not, a control entry has no status, and a  *)
(* removal is not counted.                                                  *)
Counted(q, k, x, stray) ==
  {q[i].entry : i \in {j \in 1..k : q[j].op = "add"}} \cap (stray \cup {x})

(* Mutant of StatusGood: the failure flag is not looked at. *)
MutantStatusGood(counted, bad) == \E x \in Entries : counted = {x}

(* The entry is taken for created: one entry counted, no failure. *)
StatusGood(counted, bad) == \E x \in Entries \ bad : counted = {x}

-----------------------------------------------------------------------------
(* The commands. *)

(* generateID of an entry: the hash of eight bytes of it. *)
EntryIdsFor ==
  {e \in EntryIds : env.collide \/ \A s \in Used : pipeInfo[s].entries[e] = None}

(* pipe_create: a pipe the manager does not accept is destroyed again.  A    *)
(* command that fails before that changes nothing.                           *)
CreatePipe ==
  \E id \in PipeIds, x \in Pipes \ live :
    /\ \/ PipeCreate(x, SwitchPort, id) /\ live' = live \cup {x}
       \/ PipeCreateFails(SwitchPort, id) /\ live' = (live \cup {x}) \ {x}
    /\ UNCHANGED <<hw, queue, env, up>>

(* The end of pipe_add_entry and pipe_control_add_entry: the entry x, in a   *)
(* DOCA Flow in the state h and q, is put into the manager, or removed       *)
(* when that fails.                                                          *)
Register(id, x, h, q) ==
  \E e \in EntryIdsFor :
    \/ PipeAddEntry(x, id, e) /\ hw' = h /\ queue' = q
    \/ PipeAddEntryFails(id, e) /\ HwRemove(x, h, q)

(* pipe_add_entry: the entry is queued, the queue is processed, and only an  *)
(* entry taken for created is put into the manager.  An entry taken for      *)
(* failed stays in DOCA Flow.                                                *)
AddEntry ==
  \E id \in PipeIds, x \in FreeEntries : \E s \in SlotOf(id) :
    LET h == [hw EXCEPT ![x] = [st |-> "adding", pipe |-> pipeInfo[s].pipe]]
        q == Append(queue, [op |-> "add", entry |-> x])
    IN \E k \in Least(q)..Len(q) :
       \E bad \in SUBSET {q[i].entry : i \in 1..k} :
       \E stray \in SUBSET {q[i].entry : i \in 1..k} :
         LET h1 == Processed(h, q, k, bad)
             q1 == SubSeq(q, k + 1, Len(q))
         IN /\ \/ /\ StatusGood(Counted(q, k, x, stray), bad)
                  /\ Register(id, x, h1, q1)
               \/ /\ \/ ~StatusGood(Counted(q, k, x, stray), bad)
                     \/ env.pace = "slow"
                  /\ hw' = h1
                  /\ queue' = q1
                  /\ UNCHANGED pmVars
            /\ UNCHANGED <<live, env, up>>

(* pipe_control_add_entry: no status, and nothing is processed. *)
AddControlEntry ==
  \E id \in PipeIds, x \in FreeEntries : \E s \in SlotOf(id) :
    /\ Register(id, x,
         [hw EXCEPT ![x] = [st |-> "control", pipe |-> pipeInfo[s].pipe]],
         Append(queue, [op |-> "control", entry |-> x]))
    /\ UNCHANGED <<live, env, up>>

(* pipe_destroy. *)
DestroyPipe ==
  \E id \in PipeIds : \E s \in SlotOf(id) :
    /\ PipeDestroy(id)
    /\ HwDestroy({pipeInfo[s].pipe})
    /\ UNCHANGED <<env, up>>

(* pipe_rm_entry: forgotten by the manager first, whatever DOCA Flow says. *)
RmEntry ==
  \E e \in EntryIds :
    /\ GetEntry(e) # None
    /\ PipeRmEntry(e)
    /\ HwRemove(GetEntry(e), hw, queue)
    /\ UNCHANGED <<live, env, up>>

(* port_pipes_flush; another port than the switch's is refused. *)
FlushPort ==
  /\ PipesFlush(SwitchPort)
  /\ HwDestroy(live)
  /\ UNCHANGED <<env, up>>

(* quit: switch_destroy, then doca_flow_destroy in main. *)
Quit ==
  /\ DestroyManager
  /\ HwDestroy(live)
  /\ up' = FALSE
  /\ UNCHANGED env

SwNext ==
  /\ up
  /\ \/ CreatePipe \/ AddEntry \/ AddControlEntry
     \/ DestroyPipe \/ RmEntry \/ FlushPort \/ Quit

SwSpec == SwInit /\ [][SwNext]_swVars

-----------------------------------------------------------------------------
(* A handle the manager gives out is a handle DOCA Flow has: no command can *)
(* reach a pipe that was destroyed or an entry that was removed, and no two *)
(* ids stand for one handle.  pipe_destroy, pipe_rm_entry and               *)
(* port_pipes_flush take an object out of the tables before they free it,   *)
(* and this holds whatever fails in between and whatever ids coincide.      *)
HandlesLive ==
  /\ \A s \in Used :
       /\ pipeInfo[s].pipe \in live
       /\ \A e \in EntryIds : pipeInfo[s].entries[e] # None =>
            /\ hw[pipeInfo[s].entries[e]].st \in Held
            /\ hw[pipeInfo[s].entries[e]].pipe = pipeInfo[s].pipe
  /\ \A s, t \in Used : pipeInfo[s].pipe = pipeInfo[t].pipe => s = t
  /\ \A s \in Used : \A e, f \in EntryIds :
       (pipeInfo[s].entries[e] = pipeInfo[s].entries[f] /\ e # f) =>
         pipeInfo[s].entries[e] = None

(* Every pipe in the hardware can still be destroyed by a command: pipe_create *)
(* destroys what pipes_manager_pipe_create refuses, on each of its error paths. *)
NoOrphanPipes == live = {pipeInfo[s].pipe : s \in Used}

(* The pipes a step takes away, and what is found without them. *)
Gone == {s \in Used : pipeInfo'[s] = None}

Kept == [e \in EntryIds |->
  IF \E s \in Gone : pipeInfo[s].entries[e] # None THEN None ELSE GetEntry(e)]

(* A step adds one entry, takes one away, or takes those of the pipes that   *)
(* go.                                                                       *)
OwnEntry ==
  LET found == [e \in EntryIds |-> GetEntry(e)]'
  IN \/ found = Kept
     \/ /\ Gone = {}
        /\ \E e \in EntryIds, x \in Entries \cup {None} :
             /\ found = [Kept EXCEPT ![e] = x]
             /\ x # None => Kept[e] = None

(* What pipes_manager_get_entry finds changes only as the command says, as   *)
(* long as generateID makes distinct ids: one entry more, one entry less,    *)
(* or, when pipes go, exactly the entries of those pipes.                    *)
OnlyOwnEntries == [][env.collide \/ OwnEntry]_swVars

(* An entry in the table of a pipe is found under its id until it is         *)
(* removed, as long as generateID makes distinct ids: the failure of the     *)
(* second insertion of pipes_manager_pipe_add_entry, a pipe that goes or a   *)
(* position that is used again leave no entry that cannot be named.          *)
EntriesFound ==
  ~env.collide =>
    \A s \in Used : \A e \in EntryIds :
      pipeInfo[s].entries[e] # None => GetEntry(e) = pipeInfo[s].entries[e]

(* An entry that pipe_add_entry reported as created ("Entry created         *)
(* successfully") was processed by doca_flow_entries_process, successfully.  *)
CreatedIsActive ==
  \A s \in Used : \A e \in EntryIds : pipeInfo[s].entries[e] # None =>
    hw[pipeInfo[s].entries[e]].st \in {"active", "control"}

(* The status of pipe_add_entry is that of its entry whenever nothing is     *)
(* left in the queue: if every doca_flow_entries_process takes out all that  *)
(* is queued, an entry that fails is never reported as created.              *)
DrainedIsExact == env.pace = "all" => CreatedIsActive

=============================================================================
