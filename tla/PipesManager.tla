---------------------------- MODULE PipesManager ----------------------------
(***************************************************************************)
(* The flow pipes manager (applications/common/flow_pipes_manager.c): the  *)
(* three hash tables that translate the ids typed at the command line of   *)
(* the switch into DOCA Flow handles.                                      *)
(*                                                                         *)
(* pipe_id_to_pipe_info_table is pipeInfo, indexed by the position (slot)  *)
(* of the key, because entry_id_to_pipe_id_table holds pointers to those   *)
(* positions and a position is used again after its pipe is destroyed.     *)
(* An insertion of a new key into an rte_hash may fail at any time (no     *)
(* room, or no memory); the insertion of a key that is there replaces its  *)
(* data and cannot.  Every function runs on the one command line thread,   *)
(* so a call is one step.                                                  *)
(***************************************************************************)
EXTENDS Naturals, FiniteSets

CONSTANTS
  Ports,      \* port ids
  PipeIds,    \* what generateID may make of a pipe
  EntryIds,   \* what generateID may make of an entry
  Slots,      \* positions of pipe_id_to_pipe_info_table
  Pipes,      \* DOCA Flow pipe handles
  Entries,    \* DOCA Flow entry handles
  None        \* no key, no table, no handle

VARIABLES
  pipeInfo,   \* pipe_id_to_pipe_info_table: position -> pipe_info
  entryPipe,  \* entry_id_to_pipe_id_table: entry id -> position of its pipe
  portPipes   \* port_id_to_pipes_id_table: port -> ids of its pipes

pmVars == <<pipeInfo, entryPipe, portPipes>>

PipeInfo ==
  [id : PipeIds, pipe : Pipes, port : Ports,
   entries : [EntryIds -> Entries \cup {None}]]

ASSUME NoneAssumption ==
  /\ None \notin Slots
  /\ None \notin Entries
  /\ None \notin PipeInfo
  /\ \A ids \in SUBSET PipeIds : None # ids

PmTypeOK ==
  /\ pipeInfo \in [Slots -> PipeInfo \cup {None}]
  /\ entryPipe \in [EntryIds -> Slots \cup {None}]
  /\ portPipes \in [Ports -> {None} \cup SUBSET PipeIds]

(* create_pipes_manager: three empty tables. *)
PmInit ==
  /\ pipeInfo = [s \in Slots |-> None]
  /\ entryPipe = [e \in EntryIds |-> None]
  /\ portPipes = [p \in Ports |-> None]

Used == {s \in Slots : pipeInfo[s] # None}

(* rte_hash_lookup_data of a pipe id: its position, if it has one. *)
SlotOf(id) == {s \in Used : pipeInfo[s].id = id}

(* The pipe ids in the table of a port; a port without one has no pipes. *)
Listed(port) == IF portPipes[port] = None THEN {} ELSE portPipes[port]

(* pipes_manager_get_entry: three lookups, any of which may fail. *)
GetEntry(e) ==
  IF entryPipe[e] = None \/ entryPipe[e] \notin Used
  THEN None ELSE pipeInfo[entryPipe[e]].entries[e]

(* The pipe info table with x, an entry or None, as the data of the key e   *)
(* in the entries table of the pipe in s.                                   *)
WithEntry(s, e, x) == [pipeInfo EXCEPT ![s].entries[e] = x]

-----------------------------------------------------------------------------
(* pipes_manager_pipe_create, all insertions done.  generateID hashes eight *)
(* bytes of the pipe, not its address, so any id may come out.             *)
PipeCreate(pipe, port, id) ==
  /\ SlotOf(id) = {}
  /\ \E s \in Slots \ Used :
       pipeInfo' = [pipeInfo EXCEPT ![s] =
         [id |-> id, pipe |-> pipe, port |-> port,
          entries |-> [e \in EntryIds |-> None]]]
  /\ portPipes' = [portPipes EXCEPT ![port] = Listed(port) \cup {id}]
  /\ UNCHANGED entryPipe

(* pipes_manager_pipe_create failing: the id exists, or the first           *)
(* insertion fails, and nothing was changed; or create_pipe_info or the     *)
(* insertion into the pipe info table fails after the id was put into the   *)
(* table of the port, and it is taken out again, with the table if that is  *)
(* new.                                                                     *)
PipeCreateFails(port, id) ==
  \/ UNCHANGED pmVars
  \/ /\ SlotOf(id) = {}
     /\ portPipes' = [portPipes EXCEPT
          ![port] = IF @ = None THEN None ELSE (@ \cup {id}) \ {id}]
     /\ UNCHANGED <<pipeInfo, entryPipe>>

(* pipes_manager_pipe_add_entry, both insertions done.  The lookup that is  *)
(* to reject an id in use hashes the address of the pointer to the id, so   *)
(* it finds nothing, and the entry that had the id is replaced.             *)
PipeAddEntry(entry, id, e) ==
  \E s \in SlotOf(id) :
    /\ pipeInfo' = WithEntry(s, e, entry)
    /\ entryPipe' = [entryPipe EXCEPT ![e] = s]
    /\ UNCHANGED portPipes

(* Mutant of PipeAddEntryFails: what the first insertion did is not undone. *)
MutantPipeAddEntryFails(id, e) ==
  \E s \in SlotOf(id), x \in Entries :
    /\ entryPipe[e] = None
    /\ pipeInfo' = WithEntry(s, e, x)
    /\ UNCHANGED <<entryPipe, portPipes>>

(* pipes_manager_pipe_add_entry failing: the insertion into the table of    *)
(* the pipe fails and nothing was changed, or the insertion into the entry  *)
(* table fails, and the id is taken out of the table of the pipe, whoever   *)
(* put it there.                                                            *)
PipeAddEntryFails(id, e) ==
  \E s \in SlotOf(id) :
    \/ pipeInfo[s].entries[e] = None /\ UNCHANGED pmVars
    \/ /\ entryPipe[e] = None
       /\ pipeInfo' = WithEntry(s, e, None)
       /\ UNCHANGED <<entryPipe, portPipes>>

(* Mutant of PipeDestroy: the entries of the pipe stay in the entry table. *)
MutantPipeDestroy(id) ==
  \E s \in SlotOf(id) :
    /\ id \in Listed(pipeInfo[s].port)
    /\ portPipes' = [portPipes EXCEPT ![pipeInfo[s].port] = @ \ {id}]
    /\ pipeInfo' = [pipeInfo EXCEPT ![s] = None]
    /\ UNCHANGED entryPipe

(* Mutant of PipeDestroy: the whole entry table is emptied. *)
MutantPipeDestroyAll(id) ==
  \E s \in SlotOf(id) :
    /\ id \in Listed(pipeInfo[s].port)
    /\ portPipes' = [portPipes EXCEPT ![pipeInfo[s].port] = @ \ {id}]
    /\ entryPipe' = [e \in EntryIds |-> None]
    /\ pipeInfo' = [pipeInfo EXCEPT ![s] = None]

(* pipes_manager_pipe_destroy. *)
PipeDestroy(id) ==
  \E s \in SlotOf(id) :
    /\ id \in Listed(pipeInfo[s].port)
    /\ portPipes' = [portPipes EXCEPT ![pipeInfo[s].port] = @ \ {id}]
    /\ entryPipe' = [e \in EntryIds |->
         IF pipeInfo[s].entries[e] # None THEN None ELSE entryPipe[e]]
    /\ pipeInfo' = [pipeInfo EXCEPT ![s] = None]

(* Mutant of PipeRmEntry: the entry stays in the table of its pipe. *)
MutantPipeRmEntry(e) ==
  /\ entryPipe[e] \in Used
  /\ entryPipe' = [entryPipe EXCEPT ![e] = None]
  /\ UNCHANGED <<pipeInfo, portPipes>>

(* pipes_manager_pipe_rm_entry. *)
PipeRmEntry(e) ==
  /\ entryPipe[e] \in Used
  /\ entryPipe' = [entryPipe EXCEPT ![e] = None]
  /\ pipeInfo' = WithEntry(entryPipe[e], e, None)
  /\ UNCHANGED portPipes

(* pipes_manager_pipes_flush: every pipe of the port, and the port's table. *)
PipesFlush(port) ==
  LET gone == {s \in Used : pipeInfo[s].id \in Listed(port)} IN
  /\ portPipes[port] # None
  /\ pipeInfo' = [s \in Slots |-> IF s \in gone THEN None ELSE pipeInfo[s]]
  /\ entryPipe' = [e \in EntryIds |->
       IF \E s \in gone : pipeInfo[s].entries[e] # None
       THEN None ELSE entryPipe[e]]
  /\ portPipes' = [portPipes EXCEPT ![port] = None]

(* destroy_pipes_manager: the tables go, entry by entry. *)
DestroyManager ==
  /\ pipeInfo' = [s \in Slots |-> None]
  /\ entryPipe' = [e \in EntryIds |-> None]
  /\ portPipes' = [p \in Ports |-> None]

PmNext ==
  \/ \E pipe \in Pipes, port \in Ports, id \in PipeIds :
       PipeCreate(pipe, port, id) \/ PipeCreateFails(port, id)
  \/ \E entry \in Entries, id \in PipeIds, e \in EntryIds :
       PipeAddEntry(entry, id, e) \/ PipeAddEntryFails(id, e)
  \/ \E id \in PipeIds : PipeDestroy(id)
  \/ \E e \in EntryIds : PipeRmEntry(e)
  \/ \E port \in Ports : PipesFlush(port)
  \/ DestroyManager

PmSpec == PmInit /\ [][PmNext]_pmVars

-----------------------------------------------------------------------------
(* The three tables of the manager agree, whatever ids generateID makes and *)
(* whichever insertion fails: no two positions hold one pipe id; a pipe is   *)
(* in the table of the port it was created on, and that table lists only     *)
(* pipes that exist, so that pipes_manager_pipes_flush frees every pipe_info *)
(* that points at the port table it frees; and an entry id leads to the      *)
(* position of a pipe that has the entry, never to a position that is free   *)
(* or was given to another pipe.                                             *)
TablesAgree ==
  /\ \A s, t \in Used : pipeInfo[s].id = pipeInfo[t].id => s = t
  /\ \A s \in Used : pipeInfo[s].id \in Listed(pipeInfo[s].port)
  /\ \A port \in Ports : \A id \in Listed(port) :
       \E s \in Used : pipeInfo[s].id = id /\ pipeInfo[s].port = port
  /\ \A e \in EntryIds : entryPipe[e] # None =>
       /\ entryPipe[e] \in Used
       /\ pipeInfo[entryPipe[e]].entries[e] # None
=============================================================================
