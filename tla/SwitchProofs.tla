---------------------------- MODULE SwitchProofs ----------------------------
(* Proofs about the tables of the flow pipes manager and the handles of the  *)
(* switch, for any number of ports, ids, positions and handles.              *)
EXTENDS Switch, TLAPS

PmInv == PmTypeOK /\ TablesAgree

LEMMA PmInitInv == PmInit => PmInv
BY NoneAssumption DEF PmInit, PmInv, PmTypeOK, TablesAgree, Used, Listed

LEMMA CreateInv ==
  ASSUME PmInv, NEW pipe \in Pipes, NEW port \in Ports, NEW id \in PipeIds,
         PipeCreate(pipe, port, id)
  PROVE  PmInv'
<1> USE NoneAssumption
<1>1. PICK s \in Slots \ Used :
        pipeInfo' = [pipeInfo EXCEPT ![s] =
          [id |-> id, pipe |-> pipe, port |-> port,
           entries |-> [e \in EntryIds |-> None]]]
  BY Zenon DEF PipeCreate
<1> DEFINE new == [id |-> id, pipe |-> pipe, port |-> port,
                   entries |-> [e \in EntryIds |-> None]]
<1>2. new \in PipeInfo /\ new # None /\ new.id = id /\ new.port = port
  BY DEF PipeInfo
<1> HIDE DEF new
<1>3. pipeInfo' = [pipeInfo EXCEPT ![s] = new]
  BY <1>1 DEF new
<1>4. portPipes' = [portPipes EXCEPT ![port] = Listed(port) \cup {id}]
  BY DEF PipeCreate
<1>5. Listed(port) \in SUBSET PipeIds
  BY DEF PmInv, PmTypeOK, Listed
<1>6. PmTypeOK'
  BY <1>2, <1>3, <1>4, <1>5 DEF PmInv, PmTypeOK, PipeCreate
<1>7. Used' = Used \cup {s}
  BY <1>2, <1>3 DEF PmInv, PmTypeOK, Used
<1>8. \A t \in Used : pipeInfo'[t] = pipeInfo[t] /\ pipeInfo[t].id # id
  BY <1>3 DEF PmInv, PmTypeOK, Used, PipeCreate, SlotOf
<1>9. pipeInfo'[s] = new
  BY <1>3 DEF PmInv, PmTypeOK
<1>10. \A p \in Ports : Listed(p)' = IF p = port THEN Listed(p) \cup {id} ELSE Listed(p)
  BY <1>4, <1>5, Zenon DEF PmInv, PmTypeOK, Listed
<1>11. TablesAgree'
  <2>1. (\A t, u \in Used : pipeInfo[t].id = pipeInfo[u].id => t = u)'
    BY <1>2, <1>7, <1>8, <1>9 DEF PmInv, TablesAgree
  <2>2. (\A t \in Used : pipeInfo[t].id \in Listed(pipeInfo[t].port))'
    <3>1. \A t \in Used', p \in Ports :
            pipeInfo'[t].port = p => pipeInfo'[t].id \in Listed(p)'
      BY <1>2, <1>7, <1>8, <1>9, <1>10 DEF PmInv, TablesAgree
    <3>2. \A t \in Used' : pipeInfo'[t].port \in Ports
      BY <1>6 DEF PmTypeOK, PipeInfo, Used
    <3> QED
      BY <3>1, <3>2 DEF Listed
  <2>3. (\A p \in Ports : \A i \in Listed(p) :
           \E t \in Used : pipeInfo[t].id = i /\ pipeInfo[t].port = p)'
    BY <1>2, <1>7, <1>8, <1>9, <1>10 DEF PmInv, TablesAgree
  <2>4. (\A e \in EntryIds : entryPipe[e] # None =>
           /\ entryPipe[e] \in Used
           /\ pipeInfo[entryPipe[e]].entries[e] # None)'
    BY <1>7, <1>8 DEF PmInv, TablesAgree, PipeCreate
  <2> QED
    BY <2>1, <2>2, <2>3, <2>4 DEF TablesAgree
<1> QED
  BY <1>6, <1>11 DEF PmInv

(* What is left of the table of a port after a creation that was undone. *)
LEMMA CreateFailsInv ==
  ASSUME PmInv, NEW port \in Ports, NEW id \in PipeIds, PipeCreateFails(port, id)
  PROVE  PmInv' /\ UNCHANGED pipeInfo
<1> USE NoneAssumption
<1>1. CASE UNCHANGED pmVars
  BY <1>1 DEF pmVars, PmInv, PmTypeOK, TablesAgree, Used, Listed
<1>2. CASE /\ SlotOf(id) = {}
           /\ portPipes' = [portPipes EXCEPT
                ![port] = IF @ = None THEN None ELSE (@ \cup {id}) \ {id}]
           /\ UNCHANGED <<pipeInfo, entryPipe>>
  <2>1. id \notin Listed(port)
    BY <1>2 DEF PmInv, TablesAgree, SlotOf
  <2>2. portPipes' = portPipes
    BY <1>2, <2>1 DEF Listed, PmInv, PmTypeOK
  <2> QED
    BY <1>2, <2>2 DEF PmInv, PmTypeOK, TablesAgree, Used, Listed
<1> QED
  BY <1>1, <1>2 DEF PipeCreateFails, pmVars

(* What it means to put x (an entry, or None) under e into the table of the *)
(* pipe in s: nothing else in the pipe info table changes.                  *)
LEMMA EntrySet ==
  ASSUME PmTypeOK, NEW s \in Used, NEW e \in EntryIds, NEW x \in Entries \cup {None},
         pipeInfo' = WithEntry(s, e, x)
  PROVE  /\ pipeInfo' \in [Slots -> PipeInfo \cup {None}]
         /\ Used' = Used
         /\ \A t \in Used : /\ pipeInfo'[t].id = pipeInfo[t].id
                            /\ pipeInfo'[t].pipe = pipeInfo[t].pipe
                            /\ pipeInfo'[t].port = pipeInfo[t].port
         /\ \A t \in Used, f \in EntryIds : pipeInfo'[t].entries[f] =
              IF t = s /\ f = e THEN x ELSE pipeInfo[t].entries[f]
<1> USE NoneAssumption
<1> DEFINE new == [pipeInfo[s] EXCEPT !.entries[e] = x]
<1>1. pipeInfo[s] \in PipeInfo /\ s \in Slots
  BY DEF PmTypeOK, Used
<1>2. /\ new \in PipeInfo
      /\ new.id = pipeInfo[s].id
      /\ new.pipe = pipeInfo[s].pipe
      /\ new.port = pipeInfo[s].port
      /\ \A f \in EntryIds :
           new.entries[f] = IF f = e THEN x ELSE pipeInfo[s].entries[f]
  BY <1>1 DEF PipeInfo
<1>3. pipeInfo' = [pipeInfo EXCEPT ![s] = new]
  BY DEF WithEntry
<1> HIDE DEF new
<1>4. pipeInfo' \in [Slots -> PipeInfo \cup {None}]
  BY <1>1, <1>2, <1>3 DEF PmTypeOK
<1>5. \A t \in Slots : pipeInfo'[t] = IF t = s THEN new ELSE pipeInfo[t]
  BY <1>3 DEF PmTypeOK
<1>6. Used' = Used
  BY <1>1, <1>2, <1>5 DEF Used
<1> QED
  BY <1>1, <1>2, <1>4, <1>5, <1>6 DEF Used

(* The first three conjuncts of TablesAgree do not look at the entries. *)
LEMMA PortsAgree ==
  ASSUME PmInv, UNCHANGED portPipes, Used' = Used,
         \A t \in Used : /\ pipeInfo'[t].id = pipeInfo[t].id
                        /\ pipeInfo'[t].port = pipeInfo[t].port
  PROVE  /\ (\A s, t \in Used : pipeInfo[s].id = pipeInfo[t].id => s = t)'
         /\ (\A s \in Used : pipeInfo[s].id \in Listed(pipeInfo[s].port))'
         /\ (\A port \in Ports : \A id \in Listed(port) :
               \E s \in Used : pipeInfo[s].id = id /\ pipeInfo[s].port = port)'
BY DEF PmInv, TablesAgree, Listed

LEMMA AddEntryInv ==
  ASSUME PmInv, NEW entry \in Entries, NEW id \in PipeIds, NEW e \in EntryIds,
         PipeAddEntry(entry, id, e) \/ PipeAddEntryFails(id, e)
  PROVE  PmInv'
<1> USE NoneAssumption
<1>1. PmTypeOK
  BY DEF PmInv
<1>2. CASE UNCHANGED pmVars
  BY <1>2 DEF pmVars, PmInv, PmTypeOK, TablesAgree, Used, Listed
<1>3. ASSUME NEW s \in Used, NEW x \in Entries \cup {None},
             pipeInfo' = WithEntry(s, e, x),
             UNCHANGED portPipes,
             \/ x = entry /\ entryPipe' = [entryPipe EXCEPT ![e] = s]
             \/ x = None /\ entryPipe[e] = None /\ UNCHANGED entryPipe
      PROVE  PmInv'
  <2>1. /\ pipeInfo' \in [Slots -> PipeInfo \cup {None}]
        /\ Used' = Used
        /\ \A t \in Used : /\ pipeInfo'[t].id = pipeInfo[t].id
                           /\ pipeInfo'[t].port = pipeInfo[t].port
        /\ \A t \in Used, f \in EntryIds : pipeInfo'[t].entries[f] =
              IF t = s /\ f = e THEN x ELSE pipeInfo[t].entries[f]
    BY <1>1, <1>3, EntrySet
  <2>2. s \in Slots
    BY DEF Used
  <2>3. PmTypeOK'
    BY <1>1, <1>3, <2>1, <2>2 DEF PmTypeOK
  <2>4. (\A f \in EntryIds : entryPipe[f] # None =>
           /\ entryPipe[f] \in Used
           /\ pipeInfo[entryPipe[f]].entries[f] # None)'
    BY <1>1, <1>3, <2>1, <2>2 DEF PmInv, PmTypeOK, TablesAgree
  <2> QED
    BY <1>3, <2>1, <2>3, <2>4, PortsAgree DEF PmInv, TablesAgree
<1> QED
  BY <1>2, <1>3 DEF PipeAddEntry, PipeAddEntryFails, SlotOf

LEMMA RmEntryInv ==
  ASSUME PmInv, NEW e \in EntryIds, PipeRmEntry(e)
  PROVE  PmInv'
<1> USE NoneAssumption
<1>1. PmTypeOK /\ entryPipe[e] \in Used
  BY DEF PmInv, PipeRmEntry
<1>2. /\ pipeInfo' \in [Slots -> PipeInfo \cup {None}]
      /\ Used' = Used
      /\ \A t \in Used : /\ pipeInfo'[t].id = pipeInfo[t].id
                         /\ pipeInfo'[t].port = pipeInfo[t].port
      /\ \A t \in Used, f \in EntryIds : pipeInfo'[t].entries[f] =
            IF t = entryPipe[e] /\ f = e THEN None ELSE pipeInfo[t].entries[f]
  BY <1>1, EntrySet DEF PipeRmEntry
<1>3. PmTypeOK'
  BY <1>1, <1>2 DEF PmTypeOK, PipeRmEntry
<1>4. (\A f \in EntryIds : entryPipe[f] # None =>
         /\ entryPipe[f] \in Used
         /\ pipeInfo[entryPipe[f]].entries[f] # None)'
  BY <1>1, <1>2, SMTT(30) DEF PmInv, PmTypeOK, TablesAgree, PipeRmEntry
<1> QED
  BY <1>2, <1>3, <1>4, PortsAgree DEF PmInv, TablesAgree, PipeRmEntry

(* Taking out a set of pipes with their entries, and exactly their ids from  *)
(* the tables of the ports, keeps the tables in agreement: the common part   *)
(* of destroying one pipe and flushing a port.                               *)
LEMMA TakeOut ==
  ASSUME PmInv, NEW gone \in SUBSET Used, PmTypeOK',
         pipeInfo' = [s \in Slots |-> IF s \in gone THEN None ELSE pipeInfo[s]],
         entryPipe' = [e \in EntryIds |->
           IF \E s \in gone : pipeInfo[s].entries[e] # None THEN None ELSE entryPipe[e]],
         \A port \in Ports : Listed(port)' =
           {id \in Listed(port) : \A s \in gone : pipeInfo[s].id # id}
  PROVE  PmInv'
<1> USE NoneAssumption
<1>1. Used' = Used \ gone
  BY DEF Used
<1>2. \A t \in Used' : pipeInfo'[t] = pipeInfo[t]
  BY <1>1 DEF Used
<1>3. (\A s, t \in Used : pipeInfo[s].id = pipeInfo[t].id => s = t)'
  BY <1>1, <1>2 DEF PmInv, TablesAgree
<1>4. (\A s \in Used : pipeInfo[s].id \in Listed(pipeInfo[s].port))'
  <2>1. \A t \in Used', p \in Ports :
          pipeInfo'[t].port = p => pipeInfo'[t].id \in Listed(p)'
    BY <1>1, <1>2 DEF PmInv, TablesAgree
  <2>2. \A t \in Used' : pipeInfo'[t].port \in Ports
    BY DEF PmTypeOK, PipeInfo, Used
  <2> QED
    BY <2>1, <2>2 DEF Listed
<1>5. (\A port \in Ports : \A id \in Listed(port) :
         \E s \in Used : pipeInfo[s].id = id /\ pipeInfo[s].port = port)'
  <2>1. ASSUME NEW port \in Ports, NEW id \in Listed(port)'
        PROVE  \E s \in Used' : pipeInfo'[s].id = id /\ pipeInfo'[s].port = port
    <3>1. id \in Listed(port) /\ \A s \in gone : pipeInfo[s].id # id
      OBVIOUS
    <3>2. PICK s \in Used : pipeInfo[s].id = id /\ pipeInfo[s].port = port
      BY <3>1, ZenonT(20) DEF PmInv, TablesAgree
    <3> QED
      BY <1>1, <1>2, <3>1, <3>2, Zenon
  <2> QED
    BY <2>1
<1>6. (\A e \in EntryIds : entryPipe[e] # None =>
         /\ entryPipe[e] \in Used
         /\ pipeInfo[entryPipe[e]].entries[e] # None)'
  BY <1>1, <1>2 DEF PmInv, TablesAgree
<1> QED
  BY <1>3, <1>4, <1>5, <1>6, Zenon DEF PmInv, TablesAgree

LEMMA DestroyInv ==
  ASSUME PmInv, NEW id \in PipeIds, PipeDestroy(id)
  PROVE  PmInv'
<1> USE NoneAssumption
<1>1. PICK s \in SlotOf(id) :
        /\ id \in Listed(pipeInfo[s].port)
        /\ portPipes' = [portPipes EXCEPT ![pipeInfo[s].port] = @ \ {id}]
        /\ entryPipe' = [e \in EntryIds |->
             IF pipeInfo[s].entries[e] # None THEN None ELSE entryPipe[e]]
        /\ pipeInfo' = [pipeInfo EXCEPT ![s] = None]
  BY Zenon DEF PipeDestroy
<1>2. s \in Used /\ s \in Slots /\ pipeInfo[s].id = id /\ pipeInfo[s].port \in Ports
  BY DEF SlotOf, Used, PmInv, PmTypeOK, PipeInfo
<1> DEFINE p == pipeInfo[s].port
<1>3. portPipes[p] \in SUBSET PipeIds /\ portPipes[p] # None
  BY <1>1, <1>2 DEF PmInv, PmTypeOK, Listed
<1>4. PmTypeOK'
  BY <1>1, <1>2, <1>3 DEF PmInv, PmTypeOK
<1>5. pipeInfo' = [t \in Slots |-> IF t \in {s} THEN None ELSE pipeInfo[t]]
  BY <1>1, <1>2, Zenon DEF PmInv, PmTypeOK
<1>6. entryPipe' = [e \in EntryIds |->
        IF \E t \in {s} : pipeInfo[t].entries[e] # None THEN None ELSE entryPipe[e]]
  BY <1>1
<1>7. ASSUME NEW port \in Ports
      PROVE  Listed(port)' = {i \in Listed(port) : \A t \in {s} : pipeInfo[t].id # i}
  <2>1. CASE port = p
    BY <1>1, <1>2, <1>3, <2>1 DEF Listed, PmInv, PmTypeOK
  <2>2. CASE port # p
    <3>1. Listed(port)' = Listed(port)
      BY <1>1, <1>2, <2>2 DEF Listed, PmInv, PmTypeOK
    <3>2. id \notin Listed(port)
      BY <1>2, <2>2 DEF PmInv, TablesAgree
    <3> QED
      BY <1>2, <3>1, <3>2
  <2> QED
    BY <2>1, <2>2
<1>8. {s} \in SUBSET Used
  BY <1>2
<1> HIDE DEF p
<1> QED
  BY <1>4, <1>5, <1>6, <1>7, <1>8, TakeOut, Zenon

LEMMA FlushInv ==
  ASSUME PmInv, NEW port \in Ports, PipesFlush(port)
  PROVE  PmInv'
<1> USE NoneAssumption
<1> DEFINE gone == {s \in Used : pipeInfo[s].id \in Listed(port)}
<1>1. gone \in SUBSET Used
  OBVIOUS
<1>2. PmTypeOK'
  BY DEF PmInv, PmTypeOK, PipesFlush, Used
<1>3. ASSUME NEW q \in Ports
      PROVE  Listed(q)' = {id \in Listed(q) : \A s \in gone : pipeInfo[s].id # id}
  <2>1. CASE q = port
    <3>1. Listed(q)' = {}
      BY <2>1 DEF PipesFlush, Listed, PmInv, PmTypeOK
    <3>2. \A id \in Listed(port) : \E s \in gone : pipeInfo[s].id = id
      BY DEF PmInv, TablesAgree
    <3> QED
      BY <2>1, <3>1, <3>2
  <2>2. CASE q # port
    <3>1. Listed(q)' = Listed(q)
      BY <2>2 DEF PipesFlush, Listed, PmInv, PmTypeOK
    <3>2. \A id \in Listed(q) : id \notin Listed(port)
      BY <2>2 DEF PmInv, TablesAgree
    <3> QED
      BY <3>1, <3>2
  <2> QED
    BY <2>1, <2>2
<1>4. /\ pipeInfo' = [s \in Slots |-> IF s \in gone THEN None ELSE pipeInfo[s]]
      /\ entryPipe' = [e \in EntryIds |->
           IF \E s \in gone : pipeInfo[s].entries[e] # None
           THEN None ELSE entryPipe[e]]
  BY DEF PipesFlush
<1> HIDE DEF gone
<1> QED
  BY <1>1, <1>2, <1>3, <1>4, TakeOut

LEMMA DestroyManagerInv == DestroyManager => PmInv'
BY NoneAssumption DEF DestroyManager, PmInv, PmTypeOK, TablesAgree, Used, Listed

LEMMA PmNextInv == PmInv /\ [PmNext]_pmVars => PmInv'
<1> SUFFICES ASSUME PmInv, [PmNext]_pmVars PROVE PmInv'
  OBVIOUS
<1>1. CASE UNCHANGED pmVars
  BY <1>1 DEF pmVars, PmInv, PmTypeOK, TablesAgree, Used, Listed
<1>2. CASE PmNext
  BY <1>2, CreateInv, CreateFailsInv, AddEntryInv, RmEntryInv, DestroyInv,
     FlushInv, DestroyManagerInv DEF PmNext
<1> QED
  BY <1>1, <1>2

(* The tables of the flow pipes manager agree in every state that any        *)
(* sequence of calls of its functions reaches, over any number of ports,     *)
(* whichever insertion fails and whatever ids generateID makes.              *)
THEOREM ManagerTablesAgree == PmSpec => []TablesAgree
<1>1. PmInv => TablesAgree
  BY DEF PmInv
<1> QED
  BY PmInitInv, PmNextInv, <1>1, PTL DEF PmSpec

-----------------------------------------------------------------------------
(* The handles of the switch. *)

(* Every pipe of the switch is on the port that its flush empties. *)
OnePort == \A s \in Used : pipeInfo[s].port = SwitchPort

(* The inductive invariant of the switch. *)
SwInv ==
  /\ PmInv
  /\ hw \in [Entries -> HwEntry]
  /\ HandlesLive
  /\ NoOrphanPipes
  /\ OnePort

(* DOCA Flow in the state h still has every entry it has now. *)
Keeps(h) ==
  /\ h \in [Entries -> HwEntry]
  /\ \A y \in Entries : hw[y].st \in Held => h[y].st \in Held /\ h[y].pipe = hw[y].pipe

(* A step that leaves the tables and the pipes alone, and keeps the entries. *)
LEMMA KeepsInv ==
  ASSUME SwInv, UNCHANGED pmVars, UNCHANGED live, Keeps(hw')
  PROVE  SwInv'
<1>1. PmInv'
  BY PmNextInv DEF SwInv
<1>2. PmTypeOK /\ PmTypeOK'
  BY <1>1 DEF SwInv, PmInv
<1>3. hw' \in [Entries -> HwEntry] /\ hw \in [Entries -> HwEntry]
  BY DEF Keeps, SwInv
<1>4. \A s \in Used : \A e \in EntryIds : pipeInfo[s].entries[e] # None =>
        pipeInfo[s].entries[e] \in Entries
  BY <1>2 DEF PmTypeOK, Used, PipeInfo
<1>5. Used' = Used
  BY ZenonT(20) DEF pmVars, Used
<1>6. HandlesLive'
  BY <1>4, <1>5 DEF SwInv, HandlesLive, Keeps, pmVars
<1>7. NoOrphanPipes' /\ OnePort'
  BY <1>5 DEF SwInv, NoOrphanPipes, OnePort, pmVars
<1> QED
  BY <1>1, <1>3, <1>6, <1>7 DEF SwInv

(* What the handles in the tables are. *)
LEMMA TableTypes ==
  ASSUME PmTypeOK
  PROVE  \A s \in Used : /\ pipeInfo[s] \in PipeInfo
                        /\ pipeInfo[s].pipe \in Pipes
                        /\ \A e \in EntryIds : pipeInfo[s].entries[e] \in Entries \cup {None}
BY DEF PmTypeOK, Used, PipeInfo

(* doca_flow_pipe_rm_entry takes at most the entry it is given. *)
LEMMA RemoveKeeps ==
  ASSUME NEW x \in Entries, NEW h \in [Entries -> HwEntry], NEW q, HwRemove(x, h, q)
  PROVE  /\ hw' \in [Entries -> HwEntry]
         /\ \A y \in Entries : y # x => hw'[y] = h[y]
<1>1. CASE hw' = [h EXCEPT ![x].st = "removing"]
  <2>1. [h[x] EXCEPT !.st = "removing"] \in HwEntry
    BY DEF HwEntry
  <2> QED
    BY <1>1, <2>1
<1>2. CASE hw' = h
  BY <1>2
<1> QED
  BY <1>1, <1>2 DEF HwRemove

LEMMA CreatePipeInv ==
  ASSUME SwInv, CreatePipe
  PROVE  SwInv'
<1> USE NoneAssumption, SwitchPortAssumption
<1>1. PICK id \in PipeIds, x \in Pipes \ live :
        /\ \/ PipeCreate(x, SwitchPort, id) /\ live' = live \cup {x}
           \/ PipeCreateFails(SwitchPort, id) /\ live' = (live \cup {x}) \ {x}
        /\ UNCHANGED <<hw, queue, env, up>>
  BY DEF CreatePipe
<1>2. PmTypeOK
  BY DEF SwInv, PmInv
<1>3. CASE PipeCreate(x, SwitchPort, id) /\ live' = live \cup {x}
  <2>1. PmInv'
    BY <1>1, <1>3, CreateInv DEF SwInv
  <2>2. PICK s \in Slots \ Used :
          pipeInfo' = [pipeInfo EXCEPT ![s] =
            [id |-> id, pipe |-> x, port |-> SwitchPort,
             entries |-> [e \in EntryIds |-> None]]]
    BY <1>3, ZenonT(40) DEF PipeCreate
  <2>3. /\ pipeInfo'[s].pipe = x
        /\ pipeInfo'[s].port = SwitchPort
        /\ \A e \in EntryIds : pipeInfo'[s].entries[e] = None
        /\ \A t \in Used : pipeInfo'[t] = pipeInfo[t]
    BY <1>2, <2>2 DEF PmTypeOK, Used
  <2>4. Used' = Used \cup {s}
    <3>1. [id |-> id, pipe |-> x, port |-> SwitchPort,
           entries |-> [e \in EntryIds |-> None]] \in PipeInfo
      BY ZenonT(20) DEF PipeInfo
    <3> QED
      BY <1>2, <2>2, <3>1 DEF PmTypeOK, Used
  <2>5. HandlesLive'
    BY <1>1, <1>3, <2>3, <2>4 DEF SwInv, HandlesLive
  <2>6. NoOrphanPipes' /\ OnePort'
    <3>1. NoOrphanPipes'
      BY <1>3, <2>3, <2>4 DEF SwInv, NoOrphanPipes
    <3>2. OnePort'
      BY <1>3, <2>3, <2>4, ZenonT(20) DEF SwInv, OnePort
    <3> QED BY <3>1, <3>2
  <2> QED
    BY <1>1, <2>1, <2>5, <2>6 DEF SwInv
<1>4. CASE PipeCreateFails(SwitchPort, id) /\ live' = (live \cup {x}) \ {x}
  <2>1. PmInv' /\ UNCHANGED pipeInfo
    BY <1>4, CreateFailsInv DEF SwInv
  <2>2. live' = live
    BY <1>4, ZenonT(40)
  <2> QED
    BY <1>1, <2>1, <2>2 DEF SwInv, HandlesLive, NoOrphanPipes, OnePort, Used
<1> QED
  BY <1>1, <1>3, <1>4

LEMMA RegisterInv ==
  ASSUME SwInv, NEW id \in PipeIds, NEW s \in SlotOf(id), NEW x \in FreeEntries,
         NEW h, Keeps(h), h[x].st \in Held, h[x].pipe = pipeInfo[s].pipe,
         NEW q, Register(id, x, h, q), UNCHANGED live
  PROVE  SwInv'
<1> USE NoneAssumption
<1>1. PmTypeOK /\ x \in Entries /\ hw[x].st \notin Held /\ s \in Used /\ pipeInfo[s].id = id
  BY DEF SwInv, PmInv, FreeEntries, Held, SlotOf
<1>2. h \in [Entries -> HwEntry]
  BY ZenonT(20) DEF Keeps
<1>3. \A t \in Used : \A f \in EntryIds :
        /\ pipeInfo[t].entries[f] # x
        /\ pipeInfo[t].entries[f] # None =>
             /\ pipeInfo[t].entries[f] \in Entries
             /\ h[pipeInfo[t].entries[f]].st \in Held
             /\ h[pipeInfo[t].entries[f]].pipe = pipeInfo[t].pipe
  BY <1>1, TableTypes, SMTT(30) DEF SwInv, HandlesLive, Keeps
<1>4. PICK e \in EntryIdsFor :
        \/ PipeAddEntry(x, id, e) /\ hw' = h /\ queue' = q
        \/ PipeAddEntryFails(id, e) /\ HwRemove(x, h, q)
  BY ZenonT(20) DEF Register
<1>5. e \in EntryIds
  BY DEF EntryIdsFor
<1>6. PmInv'
  BY <1>1, <1>4, <1>5, AddEntryInv, ZenonT(20) DEF SwInv
<1>7. CASE PipeAddEntry(x, id, e) /\ hw' = h /\ queue' = q
  <2>1. pipeInfo' = WithEntry(s, e, x)
    BY <1>1, <1>7, ZenonT(20) DEF PipeAddEntry, SlotOf, SwInv, PmInv, TablesAgree
  <2>2. /\ Used' = Used
        /\ \A t \in Used : /\ pipeInfo'[t].pipe = pipeInfo[t].pipe
                           /\ pipeInfo'[t].port = pipeInfo[t].port
        /\ \A t \in Used, f \in EntryIds : pipeInfo'[t].entries[f] =
             IF t = s /\ f = e THEN x ELSE pipeInfo[t].entries[f]
    BY ONLY <1>1, <1>5, <2>1, EntrySet
  <2>3. HandlesLive'
    <3>1. \A t \in Used' : pipeInfo'[t].pipe \in live'
      BY <2>2, ZenonT(20) DEF SwInv, HandlesLive
    <3>2. ASSUME NEW t \in Used', NEW f \in EntryIds, pipeInfo'[t].entries[f] # None
          PROVE  /\ hw'[pipeInfo'[t].entries[f]].st \in Held
                 /\ hw'[pipeInfo'[t].entries[f]].pipe = pipeInfo'[t].pipe
      BY <1>1, <1>3, <1>7, <2>2, <3>2, SMTT(30), Z3T(30)
    <3>3. \A t, u \in Used' : pipeInfo'[t].pipe = pipeInfo'[u].pipe => t = u
      BY <2>2, SMTT(30), Z3T(30) DEF SwInv, HandlesLive
    <3>4. \A t \in Used' : \A f, g \in EntryIds :
            (pipeInfo'[t].entries[f] = pipeInfo'[t].entries[g] /\ f # g) =>
              pipeInfo'[t].entries[f] = None
      BY <1>3, <2>2 DEF SwInv, HandlesLive
    <3> QED BY ONLY <3>1, <3>2, <3>3, <3>4, ZenonT(40) DEF HandlesLive
  <2>4. NoOrphanPipes' /\ OnePort'
    <3>1. NoOrphanPipes'
      BY <2>2 DEF SwInv, NoOrphanPipes
    <3>2. OnePort'
      BY <2>2, ZenonT(20) DEF SwInv, OnePort
    <3> QED BY <3>1, <3>2, ZenonT(20)
  <2> QED
    BY <1>2, <1>6, <1>7, <2>3, <2>4, ZenonT(20) DEF SwInv
<1>8. CASE PipeAddEntryFails(id, e) /\ HwRemove(x, h, q)
  <2>1. /\ hw' \in [Entries -> HwEntry]
        /\ \A y \in Entries : y # x => hw'[y] = h[y]
    BY <1>1, <1>2, <1>8, RemoveKeeps
  <2>2. PICK r \in SlotOf(id) :
          \/ UNCHANGED pmVars
          \/ pipeInfo' = WithEntry(r, e, None)
    BY <1>8, ZenonT(40) DEF PipeAddEntryFails
  <2>3. /\ Used' = Used
        /\ \A t \in Used : /\ pipeInfo'[t].pipe = pipeInfo[t].pipe
                           /\ pipeInfo'[t].port = pipeInfo[t].port
        /\ \A t \in Used, f \in EntryIds : pipeInfo'[t].entries[f] \in
             {None, pipeInfo[t].entries[f]}
    <3>1. CASE UNCHANGED pmVars
      BY <3>1, ZenonT(20) DEF pmVars, Used
    <3>2. CASE pipeInfo' = WithEntry(r, e, None)
      <4>1. r \in Used
        BY Zenon DEF SlotOf
      <4> QED
        BY ONLY <1>1, <1>5, <3>2, <4>1, EntrySet
    <3> QED
      BY <2>2, <3>1, <3>2, ZenonT(20)
  <2>4. HandlesLive'
    <3>1. \A t \in Used' : pipeInfo'[t].pipe \in live'
      BY <2>3, ZenonT(20) DEF SwInv, HandlesLive
    <3>2. ASSUME NEW t \in Used', NEW f \in EntryIds, pipeInfo'[t].entries[f] # None
          PROVE  /\ hw'[pipeInfo'[t].entries[f]].st \in Held
                 /\ hw'[pipeInfo'[t].entries[f]].pipe = pipeInfo'[t].pipe
      BY <1>1, <1>3, <2>1, <2>3, <3>2, SMTT(30), Z3T(30)
    <3>3. \A t, u \in Used' : pipeInfo'[t].pipe = pipeInfo'[u].pipe => t = u
      BY <2>3, SMTT(30) DEF SwInv, HandlesLive
    <3>4. \A t \in Used' : \A f, g \in EntryIds :
            (pipeInfo'[t].entries[f] = pipeInfo'[t].entries[g] /\ f # g) =>
              pipeInfo'[t].entries[f] = None
      BY <2>3 DEF SwInv, HandlesLive
    <3> QED BY ONLY <3>1, <3>2, <3>3, <3>4, ZenonT(40) DEF HandlesLive
  <2>5. NoOrphanPipes' /\ OnePort'
    <3>1. NoOrphanPipes'
      BY <2>3, SMTT(30) DEF SwInv, NoOrphanPipes
    <3>2. OnePort'
      BY <2>3 DEF SwInv, OnePort
    <3> QED BY <3>1, <3>2
  <2> QED
    BY <1>6, <2>1, <2>4, <2>5, ZenonT(20) DEF SwInv
<1> QED
  BY <1>4, <1>7, <1>8, ZenonT(20)

(* doca_flow_entries_process takes away no entry the application may use. *)
LEMMA ProcessedHolds ==
  ASSUME NEW h \in [Entries -> HwEntry], NEW q, NEW k, NEW bad
  PROVE  /\ Processed(h, q, k, bad) \in [Entries -> HwEntry]
         /\ \A y \in Entries : h[y].st \in Held =>
              /\ Processed(h, q, k, bad)[y].st \in Held
              /\ Processed(h, q, k, bad)[y].pipe = h[y].pipe
<1> DEFINE P == Processed(h, q, k, bad)
<1>1. Free \in HwEntry
  BY DEF Free, HwEntry
<1>2. P = [y \in Entries |-> P[y]]
  BY DEF Processed
<1>3. ASSUME NEW y \in Entries
      PROVE  /\ P[y] \in HwEntry
             /\ h[y].st \in Held => P[y].st \in Held /\ P[y].pipe = h[y].pipe
  <2>1. h[y] \in HwEntry
    OBVIOUS
  <2>2. \A b \in {"active", "failed"} :
          /\ [h[y] EXCEPT !.st = b] \in HwEntry
          /\ [h[y] EXCEPT !.st = b].st = b
          /\ [h[y] EXCEPT !.st = b].pipe = h[y].pipe
    BY <2>1 DEF HwEntry, Held
  <2>3. \/ h[y].st = "removing" /\ P[y] = Free
        \/ h[y].st = "adding" /\ \E b \in {"active", "failed"} : P[y] = [h[y] EXCEPT !.st = b]
        \/ P[y] = h[y]
    BY DEF Processed
  <2> QED
    BY <1>1, <2>1, <2>2, <2>3, Zenon DEF Held
<1> HIDE DEF P
<1>4. P \in [Entries -> HwEntry]
  BY <1>2, <1>3
<1> QED
  BY <1>3, <1>4 DEF P

(* An entry that was free and is now being added, in a state b. *)
LEMMA NewEntry ==
  ASSUME SwInv, NEW x \in FreeEntries, NEW p \in Pipes, NEW b \in Held
  PROVE  LET h == [hw EXCEPT ![x] = [st |-> b, pipe |-> p]] IN
         Keeps(h) /\ h[x].st \in Held /\ h[x].pipe = p
<1>1. [st |-> b, pipe |-> p] \in HwEntry
  BY DEF HwEntry
<1>2. hw \in [Entries -> HwEntry] /\ x \in Entries /\ hw[x].st \notin Held
  BY DEF SwInv, FreeEntries, Held
<1> QED
  BY <1>1, <1>2 DEF Keeps

(* What pipe_add_entry did: k operations were processed, of which those of   *)
(* the entries bad failed.                                                   *)
Added(id, x, s, k, bad, stray) ==
  LET h == [hw EXCEPT ![x] = [st |-> "adding", pipe |-> pipeInfo[s].pipe]]
      q == Append(queue, [op |-> "add", entry |-> x])
  IN /\ k \in Least(q)..Len(q)
     /\ UNCHANGED <<live, env, up>>
     /\ \/ /\ StatusGood(Counted(q, k, x, stray), bad)
           /\ Register(id, x, Processed(h, q, k, bad), SubSeq(q, k + 1, Len(q)))
        \/ /\ hw' = Processed(h, q, k, bad)
           /\ queue' = SubSeq(q, k + 1, Len(q))
           /\ UNCHANGED pmVars

LEMMA AddTaken ==
  ASSUME AddEntry
  PROVE  \E id \in PipeIds, x \in FreeEntries : \E s \in SlotOf(id) :
         \E k, bad, stray : Added(id, x, s, k, bad, stray)
<1>a. PICK id \in PipeIds, x \in FreeEntries : \E s \in SlotOf(id) :
    LET h == [hw EXCEPT ![x] = [st |-> "adding", pipe |-> pipeInfo[s].pipe]]
        q == Append(queue, [op |-> "add", entry |-> x])
    IN \E k \in Least(q)..Len(q) :
       \E bad \in SUBSET {q[i].entry : i \in 1..k} :
       \E stray \in SUBSET {q[i].entry : i \in 1..k} :
         LET h1 == Processed(h, q, k, bad)
             q1 == SubSeq(q, k + 1, Len(q))
         IN /\ \/ /\ StatusGood(Counted(q, k, x, stray), bad)
                  /\ Register(id, x, h1, q1)
               \/ /\ \/ ~StatusGood(Counted(q, k, x, stray), bad)
                     \/ env.pace = "slow"
                  /\ hw' = h1
                  /\ queue' = q1
                  /\ UNCHANGED pmVars
            /\ UNCHANGED <<live, env, up>>
  BY Zenon DEF AddEntry
<1> DEFINE q == Append(queue, [op |-> "add", entry |-> x])
<1>b. PICK s \in SlotOf(id) :
    LET h == [hw EXCEPT ![x] = [st |-> "adding", pipe |-> pipeInfo[s].pipe]]
    IN \E k \in Least(q)..Len(q) :
       \E bad \in SUBSET {q[i].entry : i \in 1..k} :
       \E stray \in SUBSET {q[i].entry : i \in 1..k} :
         LET h1 == Processed(h, q, k, bad)
             q1 == SubSeq(q, k + 1, Len(q))
         IN /\ \/ /\ StatusGood(Counted(q, k, x, stray), bad)
                  /\ Register(id, x, h1, q1)
               \/ /\ \/ ~StatusGood(Counted(q, k, x, stray), bad)
                     \/ env.pace = "slow"
                  /\ hw' = h1
                  /\ queue' = q1
                  /\ UNCHANGED pmVars
            /\ UNCHANGED <<live, env, up>>
  BY <1>a, Zenon
<1> DEFINE h == [hw EXCEPT ![x] = [st |-> "adding", pipe |-> pipeInfo[s].pipe]]
<1>c. PICK k, bad, stray :
        /\ k \in Least(q)..Len(q)
        /\ UNCHANGED <<live, env, up>>
        /\ \/ /\ StatusGood(Counted(q, k, x, stray), bad)
              /\ Register(id, x, Processed(h, q, k, bad), SubSeq(q, k + 1, Len(q)))
           \/ /\ hw' = Processed(h, q, k, bad)
              /\ queue' = SubSeq(q, k + 1, Len(q))
              /\ UNCHANGED pmVars
  BY <1>b, Zenon
<1> QED
  BY <1>c, Zenon DEF Added

LEMMA AddEntryStepInv ==
  ASSUME SwInv, AddEntry
  PROVE  SwInv'
<1>a. PICK id \in PipeIds, x \in FreeEntries : \E s \in SlotOf(id) :
        \E k, bad, stray : Added(id, x, s, k, bad, stray)
  BY AddTaken
<1>s. PICK s \in SlotOf(id) : \E k, bad, stray : Added(id, x, s, k, bad, stray)
  BY <1>a, Zenon
<1>b. PICK k, bad, stray : Added(id, x, s, k, bad, stray)
  BY <1>s, Zenon
<1> DEFINE h == [hw EXCEPT ![x] = [st |-> "adding", pipe |-> pipeInfo[s].pipe]]
           q == Append(queue, [op |-> "add", entry |-> x])
           q1 == SubSeq(q, k + 1, Len(q))
<1>1. /\ \/ Register(id, x, Processed(h, q, k, bad), q1)
         \/ hw' = Processed(h, q, k, bad) /\ UNCHANGED pmVars
      /\ UNCHANGED live
  BY <1>b, Zenon DEF Added
<1> HIDE DEF q, q1
<1> DEFINE h1 == Processed(h, q, k, bad)
<1>2. pipeInfo[s].pipe \in Pipes /\ x \in Entries
  BY TableTypes DEF SwInv, PmInv, SlotOf, FreeEntries
<1>3. Keeps(h) /\ h[x].st \in Held /\ h[x].pipe = pipeInfo[s].pipe
  BY <1>2, NewEntry, ZenonT(40) DEF Held
<1> HIDE DEF h
<1>4. Keeps(h1) /\ h1[x].st \in Held /\ h1[x].pipe = pipeInfo[s].pipe
  BY <1>2, <1>3, ProcessedHolds DEF Keeps
<1>5. \/ Register(id, x, h1, q1)
      \/ hw' = h1 /\ UNCHANGED pmVars
  BY <1>1
<1> HIDE DEF h1
<1>6. UNCHANGED live
  BY <1>1, SMTT(30)
<1>7. CASE Register(id, x, h1, q1)
  BY <1>4, <1>6, <1>7, RegisterInv, ZenonT(20)
<1>8. CASE hw' = h1 /\ UNCHANGED pmVars
  BY <1>4, <1>6, <1>8, KeepsInv, ZenonT(20)
<1> QED
  BY <1>5, <1>7, <1>8

LEMMA AddControlInv ==
  ASSUME SwInv, AddControlEntry
  PROVE  SwInv'
<1>a. PICK id \in PipeIds, x \in FreeEntries : \E s \in SlotOf(id) :
        /\ Register(id, x,
             [hw EXCEPT ![x] = [st |-> "control", pipe |-> pipeInfo[s].pipe]],
             Append(queue, [op |-> "control", entry |-> x]))
        /\ UNCHANGED live
  BY ZenonT(40) DEF AddControlEntry
<1>1. PICK s \in SlotOf(id) :
        /\ Register(id, x,
             [hw EXCEPT ![x] = [st |-> "control", pipe |-> pipeInfo[s].pipe]],
             Append(queue, [op |-> "control", entry |-> x]))
        /\ UNCHANGED live
  BY <1>a
<1> DEFINE h == [hw EXCEPT ![x] = [st |-> "control", pipe |-> pipeInfo[s].pipe]]
<1>2. pipeInfo[s].pipe \in Pipes
  BY TableTypes DEF SwInv, PmInv, SlotOf
<1>3. Keeps(h) /\ h[x].st \in Held /\ h[x].pipe = pipeInfo[s].pipe
  BY <1>2, NewEntry, ZenonT(40) DEF Held
<1> HIDE DEF h
<1>4. Register(id, x, h, Append(queue, [op |-> "control", entry |-> x]))
  BY <1>1 DEF h
<1> QED
  BY <1>1, <1>3, <1>4, RegisterInv, SMTT(30)

LEMMA RmEntryStepInv ==
  ASSUME SwInv, RmEntry
  PROVE  SwInv'
<1> USE NoneAssumption
<1>1. PICK e \in EntryIds :
        /\ GetEntry(e) # None
        /\ PipeRmEntry(e)
        /\ HwRemove(GetEntry(e), hw, queue)
        /\ UNCHANGED live
  BY DEF RmEntry
<1> DEFINE s == entryPipe[e]
           x == GetEntry(e)
<1>2. PmTypeOK /\ s \in Used /\ x = pipeInfo[s].entries[e] /\ x \in Entries
  BY <1>1, TableTypes, Zenon DEF SwInv, PmInv, PipeRmEntry, GetEntry
<1>3. PmInv'
  BY <1>1, RmEntryInv DEF SwInv
<1>4. pipeInfo' = WithEntry(s, e, None)
  BY <1>1, ZenonT(20) DEF PipeRmEntry
<1>5. /\ Used' = Used
      /\ \A t \in Used : /\ pipeInfo'[t].pipe = pipeInfo[t].pipe
                         /\ pipeInfo'[t].port = pipeInfo[t].port
      /\ \A t \in Used, f \in EntryIds : pipeInfo'[t].entries[f] =
           IF t = s /\ f = e THEN None ELSE pipeInfo[t].entries[f]
  BY ONLY <1>1, <1>2, <1>4, EntrySet, SMTT(30)
<1>6. /\ hw' \in [Entries -> HwEntry]
      /\ \A y \in Entries : y # x => hw'[y] = hw[y]
  BY <1>1, <1>2, RemoveKeeps, ZenonT(20) DEF SwInv
<1>7. \A t \in Used, f \in EntryIds :
        /\ pipeInfo[t].entries[f] \in Entries \cup {None}
        /\ pipeInfo[t].entries[f] = x => t = s /\ f = e
  <2>1. \A t \in Used, f \in EntryIds : pipeInfo[t].entries[f] \in Entries \cup {None}
    BY <1>2, TableTypes, Zenon
  <2> QED
    BY <1>2, <2>1 DEF SwInv, HandlesLive
<1> HIDE DEF s, x
<1>8. HandlesLive'
  <2>1. \A t \in Used' : pipeInfo'[t].pipe \in live'
    BY <1>1, <1>5 DEF SwInv, HandlesLive
  <2>2. ASSUME NEW t \in Used', NEW f \in EntryIds, pipeInfo'[t].entries[f] # None
        PROVE  /\ hw'[pipeInfo'[t].entries[f]].st \in Held
               /\ hw'[pipeInfo'[t].entries[f]].pipe = pipeInfo'[t].pipe
    <3> DEFINE y == pipeInfo[t].entries[f]
    <3>1. t \in Used /\ pipeInfo'[t].pipe = pipeInfo[t].pipe
      BY ONLY <1>5, <2>2, Zenon
    <3>2. ~(t = s /\ f = e) /\ pipeInfo'[t].entries[f] = y
      BY ONLY <1>5, <2>2, <3>1
    <3>3. y # None /\ y \in Entries /\ y # x
      BY ONLY <1>7, <2>2, <3>1, <3>2, Zenon
    <3>4. hw[y].st \in Held /\ hw[y].pipe = pipeInfo[t].pipe
      BY ONLY SwInv, <3>1, <3>3, f \in EntryIds, Zenon DEF SwInv, HandlesLive
    <3>5. hw'[y] = hw[y]
      BY ONLY <1>6, <3>3, ZenonT(40)
    <3> HIDE DEF y
    <3> QED BY ONLY <3>1, <3>2, <3>4, <3>5, Zenon
  <2>3. \A t, u \in Used' : pipeInfo'[t].pipe = pipeInfo'[u].pipe => t = u
    BY <1>1, <1>5, SMTT(30), Z3T(30) DEF SwInv, HandlesLive
  <2>4. \A t \in Used' : \A f, g \in EntryIds :
          (pipeInfo'[t].entries[f] = pipeInfo'[t].entries[g] /\ f # g) =>
            pipeInfo'[t].entries[f] = None
    BY <1>5 DEF SwInv, HandlesLive
  <2> QED BY ONLY <2>1, <2>2, <2>3, <2>4, ZenonT(40) DEF HandlesLive
<1>9. NoOrphanPipes' /\ OnePort'
  <2>1. NoOrphanPipes'
    BY <1>1, <1>5 DEF SwInv, NoOrphanPipes
  <2>2. OnePort'
    BY <1>1, <1>5 DEF SwInv, OnePort
  <2> QED BY <2>1, <2>2, ZenonT(20)
<1> QED
  BY <1>3, <1>6, <1>8, <1>9 DEF SwInv

LEMMA DestroyPipeInv ==
  ASSUME SwInv, DestroyPipe
  PROVE  SwInv'
<1> USE NoneAssumption
<1>1. PICK id \in PipeIds : \E s \in SlotOf(id) :
        PipeDestroy(id) /\ HwDestroy({pipeInfo[s].pipe})
  BY Zenon DEF DestroyPipe
<1>2. PICK s \in SlotOf(id) : PipeDestroy(id) /\ HwDestroy({pipeInfo[s].pipe})
  BY <1>1, Zenon
<1>3. PmTypeOK /\ s \in Used /\ pipeInfo[s].id = id
  BY DEF SwInv, PmInv, SlotOf
<1>4. PmInv'
  BY <1>2, DestroyInv, SMTT(30) DEF SwInv
<1>5. pipeInfo' = [pipeInfo EXCEPT ![s] = None]
  BY <1>2, <1>3, Zenon DEF PipeDestroy, SlotOf, SwInv, PmInv, TablesAgree
<1>6. Used' = Used \ {s} /\ \A t \in Used' : pipeInfo'[t] = pipeInfo[t]
  BY <1>3, <1>5 DEF PmTypeOK, Used
<1>7. /\ live' = live \ {pipeInfo[s].pipe}
      /\ hw' = [y \in Entries |-> IF hw[y].pipe = pipeInfo[s].pipe THEN Free ELSE hw[y]]
  BY <1>2, Zenon DEF HwDestroy
<1>8. Free \in HwEntry
  BY DEF Free, HwEntry
<1>9. hw' \in [Entries -> HwEntry]
  BY <1>7, <1>8 DEF SwInv
<1>10. \A t \in Used : \A e \in EntryIds : pipeInfo[t].entries[e] \in Entries \cup {None}
  BY <1>3, TableTypes, ZenonT(20)
<1>11. \A t \in Used' : pipeInfo[t].pipe # pipeInfo[s].pipe /\ t \in Used
  BY <1>3, <1>6 DEF SwInv, HandlesLive
<1>12. HandlesLive'
  <2>1. ASSUME NEW t \in Used'
        PROVE  pipeInfo'[t].pipe \in live'
    BY <1>6, <1>7, <1>11, <2>1, ZenonT(40) DEF SwInv, HandlesLive
  <2>2. ASSUME NEW t \in Used', NEW e \in EntryIds, pipeInfo'[t].entries[e] # None
        PROVE  /\ hw'[pipeInfo'[t].entries[e]].st \in Held
               /\ hw'[pipeInfo'[t].entries[e]].pipe = pipeInfo'[t].pipe
    <3> DEFINE y == pipeInfo[t].entries[e]
    <3>1. pipeInfo'[t] = pipeInfo[t] /\ t \in Used /\ y \in Entries
      BY <1>6, <1>10, <1>11, <2>2, ZenonT(20)
    <3>2. hw[y].st \in Held /\ hw[y].pipe = pipeInfo[t].pipe
      BY <2>2, <3>1 DEF SwInv, HandlesLive
    <3>3. hw'[y] = hw[y]
      BY <1>7, <1>11, <2>2, <3>1, <3>2, ZenonT(40)
    <3> QED BY <3>1, <3>2, <3>3, SMTT(30)
  <2>3. \A t, u \in Used' : pipeInfo'[t].pipe = pipeInfo'[u].pipe => t = u
    BY <1>6, <1>11, SMTT(30) DEF SwInv, HandlesLive
  <2>4. \A t \in Used' : \A e, f \in EntryIds :
          (pipeInfo'[t].entries[e] = pipeInfo'[t].entries[f] /\ e # f) =>
            pipeInfo'[t].entries[e] = None
    BY <1>6, <1>11 DEF SwInv, HandlesLive
  <2> QED BY ONLY <2>1, <2>2, <2>3, <2>4, ZenonT(40) DEF HandlesLive
<1>13. NoOrphanPipes' /\ OnePort'
  <2>1. NoOrphanPipes'
    BY <1>3, <1>6, <1>7, <1>11 DEF SwInv, NoOrphanPipes
  <2>2. OnePort'
    BY <1>3, <1>6, <1>7, <1>11, ZenonT(20) DEF SwInv, OnePort
  <2> QED BY <2>1, <2>2, ZenonT(20)
<1> QED
  BY <1>4, <1>9, <1>12, <1>13 DEF SwInv

(* Flushing the port of the switch, and quitting, empty both sides. *)
LEMMA EmptiedInv ==
  ASSUME SwInv, PmInv', Used' = {}, HwDestroy(live)
  PROVE  SwInv'
<1>1. Free \in HwEntry
  BY ZenonT(20) DEF Free, HwEntry
<1>2. hw' \in [Entries -> HwEntry] /\ live' = {}
  BY <1>1 DEF SwInv, HwDestroy
<1> QED
  BY <1>2 DEF SwInv, HandlesLive, NoOrphanPipes, OnePort

LEMMA FlushPortInv ==
  ASSUME SwInv, FlushPort
  PROVE  SwInv'
<1>1. PmInv'
  BY FlushInv, SwitchPortAssumption DEF SwInv, FlushPort
<1>2. \A s \in Used : pipeInfo[s].id \in Listed(SwitchPort)
  BY DEF SwInv, PmInv, TablesAgree, OnePort
<1>3. Used' = {}
  BY <1>2 DEF FlushPort, PipesFlush, Used
<1> QED
  BY <1>1, <1>3, EmptiedInv DEF FlushPort

LEMMA QuitInv ==
  ASSUME SwInv, Quit
  PROVE  SwInv'
<1>1. PmInv' /\ Used' = {}
  BY DestroyManagerInv, ZenonT(20) DEF Quit, DestroyManager, Used
<1> QED
  BY <1>1, EmptiedInv DEF Quit

LEMMA SwInitInv == SwInit => SwInv
<1>1. Free \in HwEntry
  BY DEF Free, HwEntry
<1> QED
  BY <1>1, PmInitInv DEF SwInit, SwInv, HandlesLive, NoOrphanPipes, OnePort, PmInit, Used

LEMMA SwNextInv == SwInv /\ [SwNext]_swVars => SwInv'
<1> SUFFICES ASSUME SwInv, [SwNext]_swVars PROVE SwInv'
  OBVIOUS
<1>1. CASE UNCHANGED swVars
  <2>1. UNCHANGED <<pmVars, live, hw>>
    BY <1>1 DEF swVars, hwVars
  <2>2. Keeps(hw')
    BY <2>1 DEF Keeps, SwInv
  <2> QED
    BY <2>1, <2>2, KeepsInv
<1>2. CASE SwNext
  BY <1>2, CreatePipeInv, AddEntryStepInv, AddControlInv, DestroyPipeInv,
     RmEntryStepInv, FlushPortInv, QuitInv DEF SwNext
<1> QED
  BY <1>1, <1>2

(* Whatever commands are typed, and whichever of their steps fails, the      *)
(* three tables of the switch agree.                                         *)
THEOREM SwitchTablesAgree == SwSpec => []TablesAgree
<1>1. SwInv => TablesAgree
  BY DEF SwInv, PmInv
<1> QED
  BY SwInitInv, SwNextInv, <1>1, PTL DEF SwSpec

(* A handle in the tables of the switch is one DOCA Flow has: no command     *)
(* uses a pipe or an entry after it was freed.                               *)
THEOREM SwitchHandlesLive == SwSpec => []HandlesLive
<1>1. SwInv => HandlesLive
  BY DEF SwInv
<1> QED
  BY SwInitInv, SwNextInv, <1>1, PTL DEF SwSpec

(* Every pipe DOCA Flow has is in the tables of the switch, so a command can *)
(* still destroy it.                                                         *)
THEOREM SwitchNoOrphanPipes == SwSpec => []NoOrphanPipes
<1>1. SwInv => NoOrphanPipes
  BY DEF SwInv
<1> QED
  BY SwInitInv, SwNextInv, <1>1, PTL DEF SwSpec

-----------------------------------------------------------------------------
(* What pipes_manager_get_entry finds. *)

(* The entry table leads to the pipe that has the entry. *)
Named ==
  ~env.collide =>
    \A s \in Used : \A e \in EntryIds :
      pipeInfo[s].entries[e] # None => entryPipe[e] = s

(* No pipe has an entry under e. *)
Fresh(e) == \A s \in Used : pipeInfo[s].entries[e] = None

(* A step that leaves what the manager says of the entries alone. *)
LEMMA SameFound ==
  ASSUME PmTypeOK, UNCHANGED <<pipeInfo, entryPipe>>
  PROVE  OwnEntry
<1>1. Gone = {} /\ Used' = Used
  BY DEF Gone, Used
<1>2. \A e \in EntryIds : GetEntry(e)' = GetEntry(e)
  BY <1>1 DEF GetEntry
<1>3. [e \in EntryIds |-> GetEntry(e)]' = Kept
  BY <1>1, <1>2, ZenonT(20) DEF Kept
<1> QED
  BY <1>3 DEF OwnEntry

(* The entry x is put into the table of the pipe in s, or taken out of it    *)
(* (None), and the entry table follows.                                      *)
LEMMA OneFound ==
  ASSUME PmTypeOK, NEW s \in Used, NEW e \in EntryIds, NEW x \in Entries \cup {None},
         pipeInfo' = WithEntry(s, e, x),
         NEW t \in Slots \cup {None}, entryPipe' = [entryPipe EXCEPT ![e] = t],
         x # None => t = s /\ GetEntry(e) = None, x = None => t = None
  PROVE  OwnEntry
<1> USE NoneAssumption
<1>1. /\ Used' = Used
      /\ \A r \in Used, f \in EntryIds : pipeInfo'[r].entries[f] =
           IF r = s /\ f = e THEN x ELSE pipeInfo[r].entries[f]
      /\ pipeInfo' \in [Slots -> PipeInfo \cup {None}]
  BY EntrySet
<1>2. Gone = {}
  BY <1>1 DEF Gone, Used
<1>3. Kept = [f \in EntryIds |-> GetEntry(f)]
  BY <1>2 DEF Kept
<1>4. entryPipe'[e] = t /\ \A f \in EntryIds : f # e => entryPipe'[f] = entryPipe[f]
  BY ZenonT(20) DEF PmTypeOK
<1>5. \A f \in EntryIds : f # e => GetEntry(f)' = GetEntry(f)
  BY <1>1, <1>4 DEF GetEntry
<1>6. GetEntry(e)' = x
  <2>1. CASE x = None
    BY <1>4, <2>1 DEF GetEntry
  <2>2. CASE x # None
    <3>1. s \in Slots /\ s \in Used' /\ entryPipe'[e] = s /\ pipeInfo'[s].entries[e] = x
      BY <1>1, <1>4, <2>2 DEF Used
    <3> QED
      BY <3>1 DEF GetEntry
  <2> QED
    BY <2>1, <2>2
<1>7. [f \in EntryIds |-> GetEntry(f)]' = [Kept EXCEPT ![e] = x]
  BY <1>3, <1>5, <1>6
<1>8. x # None => Kept[e] = None
  BY <1>3
<1> QED
  BY <1>2, <1>7, <1>8, ZenonT(20) DEF OwnEntry

(* Without an entry under e, taking it out changes nothing. *)
LEMMA NothingTaken ==
  ASSUME PmTypeOK, NEW s \in Used, NEW e \in EntryIds, pipeInfo[s].entries[e] = None
  PROVE  WithEntry(s, e, None) = pipeInfo
<1> DEFINE r == pipeInfo[s]
<1>1. s \in Slots /\ r \in PipeInfo /\ pipeInfo = [t \in Slots |-> pipeInfo[t]]
  BY DEF PmTypeOK, Used
<1>2. [r.entries EXCEPT ![e] = None] = r.entries
  BY <1>1 DEF PipeInfo
<1>3. [r EXCEPT !.entries = r.entries] = r
  BY <1>1 DEF PipeInfo
<1>4. WithEntry(s, e, None) = [pipeInfo EXCEPT ![s] = [r EXCEPT !.entries = [r.entries EXCEPT ![e] = None]]]
  BY DEF WithEntry
<1>5. WithEntry(s, e, None) = [pipeInfo EXCEPT ![s] = r]
  BY <1>2, <1>3, <1>4, Zenon
<1> QED
  BY <1>1, <1>5

(* What the end of a command that adds an entry does to the tables. *)
LEMMA RegisterTables ==
  ASSUME SwInv, ~env.collide, NEW id, NEW x \in Entries, NEW h, NEW q, Register(id, x, h, q)
  PROVE  \/ UNCHANGED <<pipeInfo, entryPipe>>
         \/ \E e \in EntryIds, s \in Used :
              /\ Fresh(e) /\ pipeInfo' = WithEntry(s, e, x)
              /\ entryPipe' = [entryPipe EXCEPT ![e] = s]
<1>1. PICK e \in EntryIdsFor : PipeAddEntry(x, id, e) \/ PipeAddEntryFails(id, e)
  BY DEF Register
<1>2. e \in EntryIds /\ Fresh(e)
  BY DEF EntryIdsFor, Fresh
<1>3. CASE PipeAddEntry(x, id, e)
  BY <1>2, <1>3, Zenon DEF PipeAddEntry, SlotOf
<1>4. CASE PipeAddEntryFails(id, e)
  <2>1. PICK s \in SlotOf(id) :
          \/ UNCHANGED pmVars
          \/ pipeInfo' = WithEntry(s, e, None) /\ UNCHANGED <<entryPipe, portPipes>>
    BY <1>4, Zenon DEF PipeAddEntryFails
  <2>2. s \in Used /\ PmTypeOK
    BY DEF SlotOf, SwInv, PmInv
  <2>3. WithEntry(s, e, None) = pipeInfo
    BY <1>2, <2>2, NothingTaken DEF Fresh
  <2> QED
    BY <2>1, <2>3 DEF pmVars
<1> QED
  BY <1>1, <1>3, <1>4

LEMMA RegisterFound ==
  ASSUME SwInv, Named, NEW id, NEW x \in Entries, NEW h, NEW q, Register(id, x, h, q),
         UNCHANGED env
  PROVE  Named' /\ (env.collide \/ OwnEntry)
<1> USE NoneAssumption
<1> SUFFICES ASSUME ~env.collide PROVE Named' /\ OwnEntry
  BY DEF Named
<1>1. PmTypeOK
  BY ZenonT(20) DEF SwInv, PmInv
<1>2. CASE UNCHANGED <<pipeInfo, entryPipe>>
  BY <1>1, <1>2, SameFound DEF Named, Used
<1>3. ASSUME NEW e \in EntryIds, NEW s \in Used, Fresh(e), pipeInfo' = WithEntry(s, e, x),
             entryPipe' = [entryPipe EXCEPT ![e] = s]
      PROVE  Named' /\ OwnEntry
  <2>1. GetEntry(e) = None
    BY <1>3 DEF GetEntry, Fresh
  <2>2. OwnEntry
    BY <1>1, <1>3, <2>1, OneFound, Zenon DEF Used
  <2>3. /\ Used' = Used
        /\ \A r \in Used, f \in EntryIds : pipeInfo'[r].entries[f] =
             IF r = s /\ f = e THEN x ELSE pipeInfo[r].entries[f]
    BY <1>1, <1>3, EntrySet
  <2>4. entryPipe'[e] = s /\ \A f \in EntryIds : f # e => entryPipe'[f] = entryPipe[f]
    BY <1>1, <1>3, ZenonT(20) DEF PmTypeOK
  <2>5. Named'
    BY <1>3, <2>3, <2>4 DEF Named, Fresh
  <2> QED
    BY <2>2, <2>5, ZenonT(20)
<1> QED
  BY <1>2, <1>3, RegisterTables, ZenonT(20)

LEMMA CreatePipeFound ==
  ASSUME SwInv, Named, CreatePipe
  PROVE  Named' /\ OwnEntry
<1> USE NoneAssumption, SwitchPortAssumption
<1>1. PICK id \in PipeIds, x \in Pipes :
        /\ PipeCreate(x, SwitchPort, id) \/ PipeCreateFails(SwitchPort, id)
        /\ UNCHANGED env
  BY Zenon DEF CreatePipe
<1>2. PmTypeOK /\ PmInv
  BY ZenonT(20) DEF SwInv, PmInv
<1>3. CASE PipeCreateFails(SwitchPort, id)
  <2>1. UNCHANGED <<pipeInfo, entryPipe>>
    BY <1>3 DEF PipeCreateFails, pmVars
  <2> QED
    BY <1>1, <1>2, <2>1, SameFound DEF Named, Used
<1>4. CASE PipeCreate(x, SwitchPort, id)
  <2>1. PICK s \in Slots \ Used :
          pipeInfo' = [pipeInfo EXCEPT ![s] =
            [id |-> id, pipe |-> x, port |-> SwitchPort,
             entries |-> [e \in EntryIds |-> None]]]
    BY <1>4, Zenon DEF PipeCreate
  <2>2. /\ \A e \in EntryIds : pipeInfo'[s].entries[e] = None
        /\ \A t \in Used : pipeInfo'[t] = pipeInfo[t]
        /\ Used' \subseteq Used \cup {s}
    BY <1>2, <2>1, SMTT(30) DEF PmTypeOK, Used
  <2>3. Gone = {} /\ entryPipe' = entryPipe /\ Used \subseteq Used'
    BY <1>4, <2>2, ZenonT(20) DEF Gone, Used, PipeCreate
  <2>4. \A e \in EntryIds : GetEntry(e)' = GetEntry(e)
    <3>1. \A e \in EntryIds : entryPipe[e] # None => entryPipe[e] \in Used
      BY <1>2, SMTT(30) DEF PmInv, TablesAgree
    <3> QED
      BY <2>2, <2>3, <3>1, ZenonT(20) DEF GetEntry
  <2>5. [e \in EntryIds |-> GetEntry(e)]' = Kept
    BY <2>3, <2>4, ZenonT(20) DEF Kept
  <2>6. Named'
    BY <1>1, <2>2, <2>3, ZenonT(20) DEF Named
  <2> QED
    BY <2>5, <2>6 DEF OwnEntry
<1> QED
  BY <1>1, <1>3, <1>4

(* Pipes that go take exactly their entries with them. *)
LEMMA TakeOutFound ==
  ASSUME PmInv, Named, UNCHANGED env, NEW gone \in SUBSET Used,
         pipeInfo' = [s \in Slots |-> IF s \in gone THEN None ELSE pipeInfo[s]],
         entryPipe' = [e \in EntryIds |->
           IF \E s \in gone : pipeInfo[s].entries[e] # None THEN None ELSE entryPipe[e]]
  PROVE  Named' /\ OwnEntry
<1>1. Used' = Used \ gone /\ Gone = gone /\ \A s \in Used' : pipeInfo'[s] = pipeInfo[s]
  BY DEF Used, Gone
<1>2. \A e \in EntryIds : GetEntry(e)' =
        IF \E s \in gone : pipeInfo[s].entries[e] # None THEN None ELSE GetEntry(e)
  <2> SUFFICES ASSUME NEW e \in EntryIds
               PROVE  GetEntry(e)' =
                 IF \E s \in gone : pipeInfo[s].entries[e] # None THEN None ELSE GetEntry(e)
    OBVIOUS
  <2>1. CASE \E s \in gone : pipeInfo[s].entries[e] # None
    <3>1. entryPipe'[e] = None
      BY <2>1
    <3> QED
      BY <2>1, <3>1 DEF GetEntry
  <2>2. CASE ~\E s \in gone : pipeInfo[s].entries[e] # None
    <3>1. entryPipe'[e] = entryPipe[e]
      BY <2>2
    <3>2. entryPipe[e] # None => entryPipe[e] \in Used /\ entryPipe[e] \notin gone
      BY <2>2, ZenonT(20) DEF PmInv, TablesAgree
    <3> QED
      BY <1>1, <2>2, <3>1, <3>2 DEF GetEntry
  <2> QED
    BY <2>1, <2>2
<1>3. [e \in EntryIds |-> GetEntry(e)]' = Kept
  BY <1>1, <1>2 DEF Kept
<1>4. Named'
  <2> SUFFICES ASSUME ~env.collide, NEW t \in Used', NEW e \in EntryIds,
                      pipeInfo'[t].entries[e] # None
               PROVE  entryPipe'[e] = t
    BY DEF Named
  <2>1. t \in Used /\ t \notin gone /\ pipeInfo[t].entries[e] # None /\ entryPipe[e] = t
    BY <1>1 DEF Named
  <2>2. \A s \in gone : pipeInfo[s].entries[e] = None
    BY <2>1 DEF Named
  <2> QED
    BY <2>1, <2>2
<1> QED
  BY <1>3, <1>4, ZenonT(20) DEF OwnEntry

LEMMA DestroyPipeFound ==
  ASSUME SwInv, Named, DestroyPipe
  PROVE  Named' /\ OwnEntry
<1>1. PICK id \in PipeIds : PipeDestroy(id) /\ UNCHANGED env
  BY Zenon DEF DestroyPipe
<1>2. PICK s \in SlotOf(id) :
        /\ entryPipe' = [e \in EntryIds |->
             IF pipeInfo[s].entries[e] # None THEN None ELSE entryPipe[e]]
        /\ pipeInfo' = [pipeInfo EXCEPT ![s] = None]
  BY <1>1, Zenon DEF PipeDestroy
<1>3. s \in Slots /\ {s} \in SUBSET Used /\ PmInv
  BY DEF SlotOf, Used, SwInv
<1>4. pipeInfo' = [t \in Slots |-> IF t \in {s} THEN None ELSE pipeInfo[t]]
  BY <1>2, <1>3, Zenon DEF PmInv, PmTypeOK
<1>5. entryPipe' = [e \in EntryIds |->
        IF \E t \in {s} : pipeInfo[t].entries[e] # None THEN None ELSE entryPipe[e]]
  BY <1>2
<1> QED
  BY <1>1, <1>3, <1>4, <1>5, TakeOutFound, Zenon

LEMMA FlushPortFound ==
  ASSUME SwInv, Named, FlushPort
  PROVE  Named' /\ OwnEntry
<1> DEFINE gone == {s \in Used : pipeInfo[s].id \in Listed(SwitchPort)}
<1>1. /\ pipeInfo' = [s \in Slots |-> IF s \in gone THEN None ELSE pipeInfo[s]]
      /\ entryPipe' = [e \in EntryIds |->
           IF \E s \in gone : pipeInfo[s].entries[e] # None THEN None ELSE entryPipe[e]]
      /\ UNCHANGED env
  BY DEF FlushPort, PipesFlush
<1>2. gone \in SUBSET Used /\ PmInv
  BY DEF SwInv
<1> HIDE DEF gone
<1> QED
  BY <1>1, <1>2, TakeOutFound, Zenon

LEMMA QuitFound ==
  ASSUME SwInv, Named, Quit
  PROVE  Named' /\ OwnEntry
<1>1. /\ pipeInfo' = [s \in Slots |-> None] /\ entryPipe' = [e \in EntryIds |-> None]
      /\ UNCHANGED env
  BY DEF Quit, DestroyManager
<1>2. PmInv /\ PmTypeOK
  BY DEF SwInv, PmInv
<1>3. pipeInfo' = [s \in Slots |-> IF s \in Used THEN None ELSE pipeInfo[s]]
  BY <1>1 DEF Used
<1>4. \A e \in EntryIds : entryPipe[e] # None => \E s \in Used : pipeInfo[s].entries[e] # None
  BY <1>2, ZenonT(20) DEF PmInv, TablesAgree
<1>5. entryPipe' = [e \in EntryIds |->
        IF \E s \in Used : pipeInfo[s].entries[e] # None THEN None ELSE entryPipe[e]]
  BY <1>1, <1>4
<1> QED
  BY <1>1, <1>2, <1>3, <1>5, TakeOutFound

LEMMA RmEntryFound ==
  ASSUME SwInv, Named, RmEntry
  PROVE  Named' /\ OwnEntry
<1> USE NoneAssumption
<1>1. PICK e \in EntryIds : PipeRmEntry(e) /\ UNCHANGED env
  BY Zenon DEF RmEntry
<1>2. PmTypeOK
  BY DEF SwInv, PmInv
<1>3. /\ entryPipe[e] \in Used /\ entryPipe' = [entryPipe EXCEPT ![e] = None]
      /\ pipeInfo' = WithEntry(entryPipe[e], e, None)
  BY <1>1, Zenon DEF PipeRmEntry
<1>4. OwnEntry
  BY <1>2, <1>3, OneFound, Zenon
<1>5. /\ Used' = Used
      /\ \A r \in Used, f \in EntryIds : pipeInfo'[r].entries[f] =
           IF r = entryPipe[e] /\ f = e THEN None ELSE pipeInfo[r].entries[f]
  BY <1>2, <1>3, EntrySet
<1>6. \A f \in EntryIds : f # e => entryPipe'[f] = entryPipe[f]
  BY <1>2, <1>3, ZenonT(20) DEF PmTypeOK
<1>7. Named'
  BY <1>1, <1>5, <1>6 DEF Named
<1> QED
  BY <1>4, <1>7

LEMMA AddFound ==
  ASSUME SwInv, Named, AddEntry \/ AddControlEntry
  PROVE  Named' /\ (env.collide \/ OwnEntry)
<1>1. \/ UNCHANGED <<pmVars, env>>
      \/ \E id, h, q : \E x \in Entries : Register(id, x, h, q) /\ UNCHANGED env
  <2>1. CASE AddEntry
    <3>1. PICK id \in PipeIds, x \in FreeEntries : \E s \in SlotOf(id) :
            \E k, bad, stray : Added(id, x, s, k, bad, stray)
      BY <2>1, AddTaken
    <3>2. x \in Entries
      BY DEF FreeEntries
    <3> QED
      BY <3>1, <3>2, Zenon DEF Added
  <2>2. CASE AddControlEntry
    BY <2>2, ZenonT(40) DEF AddControlEntry, FreeEntries
  <2> QED
    BY <2>1, <2>2
<1>2. CASE UNCHANGED <<pmVars, env>>
  BY <1>2, SameFound DEF Named, Used, pmVars, SwInv, PmInv
<1> QED
  BY <1>1, <1>2, RegisterFound

LEMMA NextFound ==
  ASSUME SwInv, Named, SwNext
  PROVE  Named' /\ (env.collide \/ OwnEntry)
  BY CreatePipeFound, AddFound, DestroyPipeFound, RmEntryFound, FlushPortFound, QuitFound DEF SwNext

LEMMA NamedInv == SwInv /\ Named /\ [SwNext]_swVars => Named'
<1>1. CASE UNCHANGED swVars
  BY <1>1 DEF swVars, pmVars, Named, Used
<1> QED
  BY <1>1, NextFound

LEMMA NamedInit == SwInit => Named
  BY DEF SwInit, PmInit, Named, Used

(* As long as generateID makes distinct ids, an entry in the table of a pipe *)
(* is found under its id, whichever insertion fails and however often a      *)
(* position of the table is used again.                                      *)
THEOREM SwitchEntriesFound == SwSpec => []EntriesFound
<1>1. SwInv /\ Named => EntriesFound
  <2> SUFFICES ASSUME SwInv, Named, ~env.collide, NEW s \in Used, NEW e \in EntryIds,
                      pipeInfo[s].entries[e] # None
               PROVE  GetEntry(e) = pipeInfo[s].entries[e]
    BY DEF EntriesFound
  <2>1. entryPipe[e] = s /\ s # None
    BY NoneAssumption DEF Named, Used
  <2> QED
    BY <2>1 DEF GetEntry
<1> QED
  BY SwInitInv, SwNextInv, NamedInit, NamedInv, <1>1, PTL DEF SwSpec

(* No command makes pipes_manager_get_entry find another entry, or lose one, *)
(* than the command is about, as long as generateID makes distinct ids.      *)
THEOREM SwitchOnlyOwnEntries == SwSpec => OnlyOwnEntries
<1>1. SwInv /\ Named /\ [SwNext]_swVars => [env.collide \/ OwnEntry]_swVars
  BY NextFound
<1> QED
  BY SwInitInv, SwNextInv, NamedInit, NamedInv, <1>1, PTL DEF SwSpec, OnlyOwnEntries

-----------------------------------------------------------------------------
(* What was queued, and what the status of pipe_add_entry says. *)

Queued == queue \in Seq(Op) /\ env \in Environments /\ up \in BOOLEAN

(* The entries in the tables of the pipes. *)
Tabled == {y \in Entries : \E s \in Used : \E e \in EntryIds : pipeInfo[s].entries[e] = y}

(* With everything processed, no entry is left in doubt. *)
Drained == env.pace = "all" => CreatedIsActive /\ \A y \in Entries : hw[y].st # "adding"

LEMMA TabledActive ==
  ASSUME PmTypeOK
  PROVE  CreatedIsActive <=> \A y \in Tabled : hw[y].st \in {"active", "control"}
<1>1. \A s \in Used : \A e \in EntryIds : pipeInfo[s].entries[e] \in Entries \cup {None}
  BY TableTypes
<1>2. \A s \in Used : \A e \in EntryIds :
        pipeInfo[s].entries[e] # None => pipeInfo[s].entries[e] \in Tabled
  BY <1>1 DEF Tabled
<1>3. \A y \in Tabled : \E s \in Used : \E e \in EntryIds :
        pipeInfo[s].entries[e] = y /\ y # None
  BY NoneAssumption DEF Tabled
<1> HIDE DEF Tabled
<1> QED
  BY <1>2, <1>3 DEF CreatedIsActive

LEMMA DrainedKept ==
  ASSUME SwInv', UNCHANGED env,
         env.pace = "all" => \A y \in Entries :
           /\ hw'[y].st # "adding"
           /\ y \in Tabled' => hw'[y].st \in {"active", "control", "free", "removing"}
  PROVE  Drained'
<1> SUFFICES ASSUME env.pace = "all"
             PROVE  CreatedIsActive' /\ \A y \in Entries : hw'[y].st # "adding"
  BY ZenonT(20) DEF Drained
<1>1. \A s \in Used' : \A e \in EntryIds :
        pipeInfo'[s].entries[e] # None => hw'[pipeInfo'[s].entries[e]].st \in Held
  BY ZenonT(20) DEF SwInv, HandlesLive
<1>2. \A y \in Tabled' : y \in Entries /\ hw'[y].st \in Held
  BY <1>1, NoneAssumption DEF Tabled
<1>3. \A y \in Tabled' : hw'[y].st \in {"active", "control"}
  BY <1>2, ZenonT(20) DEF Held
<1>4. \A s \in Used' : \A e \in EntryIds :
        pipeInfo'[s].entries[e] # None => pipeInfo'[s].entries[e] \in Tabled'
  BY ZenonT(20) DEF SwInv, PmInv, PmTypeOK, PipeInfo, Used, Tabled
<1> HIDE DEF Tabled
<1>5. CreatedIsActive'
  BY <1>3, <1>4 DEF CreatedIsActive
<1> QED
  BY <1>5

(* A step that puts no entry into the tables, and after which an entry is as *)
(* it was, or is on its way out.                                             *)
LEMMA DrainedLess ==
  ASSUME SwInv, SwInv', Drained, UNCHANGED env, Tabled' \subseteq Tabled,
         \A y \in Entries : hw'[y] = hw[y] \/ hw'[y].st \in {"free", "removing"}
  PROVE  Drained'
<1> SUFFICES ASSUME env.pace = "all"
             PROVE  \A y \in Entries :
               /\ hw'[y].st # "adding"
               /\ y \in Tabled' => hw'[y].st \in {"active", "control", "free", "removing"}
  BY DrainedKept
<1>1. \A y \in Tabled : hw[y].st \in {"active", "control"}
  BY TabledActive DEF Drained, SwInv, PmInv
<1>2. \A y \in Entries : hw[y].st # "adding"
  BY DEF Drained
<1> QED
  BY <1>1, <1>2

LEMMA RemoveQueued ==
  ASSUME NEW x \in Entries, NEW h, NEW q \in Seq(Op), HwRemove(x, h, q)
  PROVE  queue' \in Seq(Op)
<1>1. [op |-> "del", entry |-> x] \in Op
  BY DEF Op
<1> QED
  BY <1>1 DEF HwRemove

LEMMA DestroyQueued ==
  ASSUME queue \in Seq(Op), NEW pipes, HwDestroy(pipes)
  PROVE  queue' \in Seq(Op)
<1> DEFINE kept == {i \in 1..Len(queue) : hw[queue[i].entry].pipe \notin pipes}
<1>a. PICK n \in 0..Len(queue) : \E at \in [1..n -> kept] :
        queue' = [i \in 1..n |-> queue[at[i]]]
  BY Zenon DEF HwDestroy
<1>1. PICK at \in [1..n -> kept] : queue' = [i \in 1..n |-> queue[at[i]]]
  BY <1>a
<1>2. \A i \in 1..n : queue[at[i]] \in Op
  BY SMTT(30)
<1> HIDE DEF kept
<1> QED
  BY <1>1, <1>2

LEMMA DestroyKeeps ==
  ASSUME NEW pipes, HwDestroy(pipes)
  PROVE  \A y \in Entries : hw'[y] = hw[y] \/ hw'[y].st \in {"free", "removing"}
  BY SMTT(30) DEF HwDestroy, Free

(* The entry x is put into the tables, or removed from DOCA Flow. *)
LEMMA RegisterQueued ==
  ASSUME SwInv, NEW id, NEW x \in Entries, NEW h \in [Entries -> HwEntry], NEW q \in Seq(Op),
         Register(id, x, h, q)
  PROVE  /\ queue' \in Seq(Op)
         /\ Tabled' \subseteq Tabled \cup {x}
         /\ \A y \in Entries : hw'[y] = h[y] \/ hw'[y].st = "removing"
<1> USE NoneAssumption
<1>1. PICK e \in EntryIds : \/ PipeAddEntry(x, id, e) /\ hw' = h /\ queue' = q
                            \/ PipeAddEntryFails(id, e) /\ HwRemove(x, h, q)
  BY DEF Register, EntryIdsFor
<1>2. queue' \in Seq(Op)
  BY <1>1, RemoveQueued
<1>3. \A y \in Entries : hw'[y] = h[y] \/ hw'[y].st = "removing"
  BY <1>1 DEF HwRemove, HwEntry
<1>4. \/ UNCHANGED pipeInfo
      \/ \E s \in Used, z \in {x, None} : pipeInfo' = WithEntry(s, e, z)
  BY <1>1, Zenon DEF PipeAddEntry, PipeAddEntryFails, pmVars, SlotOf
<1>5. ASSUME NEW s \in Used, NEW z \in {x, None}, pipeInfo' = WithEntry(s, e, z)
      PROVE  Tabled' \subseteq Tabled \cup {x}
  <2>1. PmTypeOK /\ z \in Entries \cup {None}
    BY ZenonT(20) DEF SwInv, PmInv
  <2>2. /\ Used' = Used
        /\ \A r \in Used, f \in EntryIds : pipeInfo'[r].entries[f] =
             IF r = s /\ f = e THEN z ELSE pipeInfo[r].entries[f]
    BY <1>5, <2>1, EntrySet
  <2> QED
    BY <2>2 DEF Tabled
<1>6. ASSUME UNCHANGED pipeInfo
      PROVE  Tabled' \subseteq Tabled \cup {x}
  BY <1>6 DEF Tabled, Used
<1> QED
  BY <1>2, <1>3, <1>4, <1>5, <1>6, ZenonT(20)

(* After the first k operations of q no entry is left in doubt, and the one  *)
(* whose status is good is active.                                           *)
Settled(h, q, k, x, bad, stray) ==
  LET h1 == Processed(h, q, k, bad) IN
  /\ \A y \in Entries : h1[y].st # "adding"
  /\ \A y \in Entries : y # x => h1[y] = h[y] \/ h1[y].st = "free"
  /\ StatusGood(Counted(q, k, x, stray), bad) => h1[x].st = "active"

(* doca_flow_entries_process takes out everything that is queued, the add of *)
(* x last.                                                                   *)
LEMMA AllProcessed ==
  ASSUME queue \in Seq(Op), env.pace = "all", NEW x \in Entries,
         NEW h \in [Entries -> HwEntry], h[x].st = "adding",
         \A y \in Entries : y # x => h[y].st # "adding",
         NEW q, q = Append(queue, [op |-> "add", entry |-> x]),
         NEW k \in Least(q)..Len(q), NEW bad, NEW stray
  PROVE  Settled(h, q, k, x, bad, stray)
<1> DEFINE o == [op |-> "add", entry |-> x]
           h1 == Processed(h, q, k, bad)
           done == {q[i] : i \in 1..k}
<1>1. o \in Op /\ o.op = "add" /\ o.entry = x
  BY SMTT(30) DEF Op
<1>2. q \in Seq(Op) /\ Len(q) \in Nat /\ Len(q) > 0 /\ q[Len(q)] = o
  BY <1>1
<1>3. k = Len(q)
  BY <1>2, SMTT(30) DEF Least
<1>4. o \in done
  BY <1>2, <1>3
<1>5. \A y \in Entries : y # x =>
        h1[y] = h[y] \/ (h[y].st = "removing" /\ h1[y] = Free)
  BY DEF Processed
<1>6. h1[x] = [h[x] EXCEPT !.st = IF x \in bad THEN "failed" ELSE "active"]
  BY <1>1, <1>4 DEF Processed
<1>7. h1[x].st = IF x \in bad THEN "failed" ELSE "active"
  BY <1>6 DEF HwEntry
<1>8. StatusGood(Counted(q, k, x, stray), bad) => x \notin bad
  <2>1. x \in Counted(q, k, x, stray)
    BY ONLY x \in Entries, <1>1, <1>2, <1>3 DEF Counted
  <2> QED
    BY <2>1 DEF StatusGood
<1> HIDE DEF h1
<1>9. \A y \in Entries : y # x => h1[y] = h[y] \/ h1[y].st = "free"
  BY <1>5 DEF Free
<1>10. \A y \in Entries : h1[y].st # "adding"
  <2> SUFFICES ASSUME NEW y \in Entries PROVE h1[y].st # "adding"
    OBVIOUS
  <2>1. CASE y = x
    BY <1>7, <2>1
  <2>2. CASE y # x
    BY <1>9, <2>2, ZenonT(20)
  <2> QED
    BY <2>1, <2>2
<1>11. StatusGood(Counted(q, k, x, stray), bad) => h1[x].st = "active"
  BY <1>7, <1>8
<1> QED
  BY <1>9, <1>10, <1>11, Zenon DEF h1, Settled

LEMMA AddDrained ==
  ASSUME SwInv, SwInv', Queued, Drained, AddEntry
  PROVE  Queued' /\ Drained'
<1>a. PICK id \in PipeIds, x \in FreeEntries : \E s \in SlotOf(id) :
        \E k, bad, stray : Added(id, x, s, k, bad, stray)
  BY AddTaken
<1>s. PICK s \in SlotOf(id) : \E k, bad, stray : Added(id, x, s, k, bad, stray)
  BY <1>a, Zenon
<1>b. PICK k, bad, stray : Added(id, x, s, k, bad, stray)
  BY <1>s, Zenon
<1> DEFINE q == Append(queue, [op |-> "add", entry |-> x])
           h == [hw EXCEPT ![x] = [st |-> "adding", pipe |-> pipeInfo[s].pipe]]
<1>c. /\ k \in Least(q)..Len(q)
      /\ UNCHANGED <<live, env, up>>
      /\ \/ /\ StatusGood(Counted(q, k, x, stray), bad)
            /\ Register(id, x, Processed(h, q, k, bad), SubSeq(q, k + 1, Len(q)))
         \/ /\ hw' = Processed(h, q, k, bad)
            /\ queue' = SubSeq(q, k + 1, Len(q))
            /\ UNCHANGED pmVars
  BY <1>b, Zenon DEF Added
<1> DEFINE h1 == Processed(h, q, k, bad)
           q1 == SubSeq(q, k + 1, Len(q))
<1>1. x \in Entries /\ hw[x].st = "free" /\ hw \in [Entries -> HwEntry]
  BY DEF FreeEntries, SwInv
<1>2. pipeInfo[s].pipe \in Pipes
  BY TableTypes, SMTT(30) DEF SwInv, PmInv, SlotOf
<1>3. h \in [Entries -> HwEntry] /\ h[x].st = "adding" /\ \A y \in Entries : y # x => h[y] = hw[y]
  BY <1>1, <1>2, SMTT(30) DEF HwEntry, Held
<1>4. h1 \in [Entries -> HwEntry]
  BY <1>3, ProcessedHolds, Zenon
<1>5. q \in Seq(Op) /\ q1 \in Seq(Op)
  <2>1. [op |-> "add", entry |-> x] \in Op
    BY <1>1 DEF Op
  <2>2. q \in Seq(Op) /\ Len(q) \in Nat
    BY <2>1 DEF Queued
  <2>3. Least(q) \in Nat
    BY <2>2 DEF Least
  <2>4. k \in Nat /\ k <= Len(q)
    BY <1>c, <2>2, <2>3
  <2> QED
    BY <2>2, <2>4
<1>d. q = Append(queue, [op |-> "add", entry |-> x])
  BY ZenonT(20)
<1> HIDE DEF h, q1, q
<1>6. env.pace = "all" =>
        /\ \A y \in Entries : h1[y].st # "adding"
        /\ \A y \in Entries : y # x => h1[y] = hw[y] \/ h1[y].st = "free"
        /\ StatusGood(Counted(q, k, x, stray), bad) => h1[x].st = "active"
  <2> SUFFICES ASSUME env.pace = "all"
               PROVE  /\ \A y \in Entries : h1[y].st # "adding"
                      /\ \A y \in Entries : y # x => h1[y] = hw[y] \/ h1[y].st = "free"
                      /\ StatusGood(Counted(q, k, x, stray), bad) => h1[x].st = "active"
    BY Zenon
  <2>1. \A y \in Entries : y # x => h[y].st # "adding"
    BY <1>3 DEF Drained
  <2>2. queue \in Seq(Op)
    BY DEF Queued
  <2>3. x \in Entries /\ h \in [Entries -> HwEntry] /\ h[x].st = "adding"
    BY <1>1, <1>3
  <2>4. k \in Least(q)..Len(q)
    BY <1>c
  <2>5. Settled(h, q, k, x, bad, stray)
    BY ONLY env.pace = "all", <1>d, <2>1, <2>2, <2>3, <2>4, AllProcessed, ZenonT(40)
  <2> QED
    BY <1>3, <2>5, ZenonT(20) DEF Settled
<1>7. x \notin Tabled
  BY <1>1, NoneAssumption DEF SwInv, HandlesLive, Tabled, Held
<1>8. \A y \in Tabled : y \in Entries /\ (env.pace = "all" => hw[y].st \in {"active", "control"})
  <2>1. \A y \in Tabled : y \in Entries
    BY ZenonT(20) DEF Tabled
  <2> QED
    BY <2>1, TabledActive DEF Drained, SwInv, PmInv
<1> HIDE DEF h1
<1>9. CASE StatusGood(Counted(q, k, x, stray), bad) /\ Register(id, x, h1, q1)
  <2>1. /\ queue' \in Seq(Op)
        /\ Tabled' \subseteq Tabled \cup {x}
        /\ \A y \in Entries : hw'[y] = h1[y] \/ hw'[y].st = "removing"
    BY <1>1, <1>4, <1>5, <1>9, RegisterQueued, ZenonT(40)
  <2>2. env.pace = "all" => \A y \in Entries :
          /\ hw'[y].st # "adding"
          /\ y \in Tabled' => hw'[y].st \in {"active", "control", "free", "removing"}
    <3> SUFFICES ASSUME env.pace = "all", NEW y \in Entries
                 PROVE  /\ hw'[y].st # "adding"
                        /\ y \in Tabled' => hw'[y].st \in {"active", "control", "free", "removing"}
      BY Zenon
    <3>1. /\ h1[y].st # "adding"
          /\ y # x => h1[y] = hw[y] \/ h1[y].st = "free"
          /\ h1[x].st = "active"
          /\ hw'[y] = h1[y] \/ hw'[y].st = "removing"
          /\ y \in Tabled' => y = x \/ hw[y].st \in {"active", "control"}
      BY <1>6, <1>8, <1>9, <2>1, Zenon
    <3> QED
      BY ONLY <3>1
  <2>3. Drained'
    BY <1>c, <2>2, DrainedKept
  <2> QED
    BY <1>c, <2>1, <2>3, ZenonT(20) DEF Queued
<1>10. CASE hw' = h1 /\ queue' = q1 /\ UNCHANGED pmVars
  <2>1. Tabled' = Tabled
    BY <1>10, ZenonT(20) DEF Tabled, Used, pmVars
  <2>2. env.pace = "all" => \A y \in Entries :
          /\ hw'[y].st # "adding"
          /\ y \in Tabled' => hw'[y].st \in {"active", "control", "free", "removing"}
    BY <1>6, <1>7, <1>8, <1>10, <2>1
  <2>3. Drained'
    BY <1>c, <2>2, DrainedKept
  <2> QED
    BY <1>c, <1>5, <1>10, <2>3 DEF Queued
<1> QED
  BY <1>c, <1>9, <1>10 DEF h1, q1

LEMMA AddControlDrained ==
  ASSUME SwInv, SwInv', Queued, Drained, AddControlEntry
  PROVE  Queued' /\ Drained'
<1>a. PICK id \in PipeIds, x \in FreeEntries : \E s \in SlotOf(id) :
        /\ Register(id, x,
             [hw EXCEPT ![x] = [st |-> "control", pipe |-> pipeInfo[s].pipe]],
             Append(queue, [op |-> "control", entry |-> x]))
        /\ UNCHANGED <<live, env, up>>
  BY ZenonT(40) DEF AddControlEntry
<1> DEFINE q == Append(queue, [op |-> "control", entry |-> x])
<1>b. PICK s \in SlotOf(id) :
        /\ Register(id, x, [hw EXCEPT ![x] = [st |-> "control", pipe |-> pipeInfo[s].pipe]], q)
        /\ UNCHANGED <<live, env, up>>
  BY <1>a
<1> DEFINE h == [hw EXCEPT ![x] = [st |-> "control", pipe |-> pipeInfo[s].pipe]]
<1>1. x \in Entries /\ hw \in [Entries -> HwEntry]
  BY DEF FreeEntries, SwInv
<1>2. pipeInfo[s].pipe \in Pipes
  BY TableTypes DEF SwInv, PmInv, SlotOf
<1>3. h \in [Entries -> HwEntry] /\ h[x].st = "control" /\ \A y \in Entries : y # x => h[y] = hw[y]
  BY <1>1, <1>2 DEF HwEntry, Held
<1>4. q \in Seq(Op)
  <2>1. [op |-> "control", entry |-> x] \in Op
    BY <1>1 DEF Op
  <2> QED
    BY <2>1 DEF Queued
<1>5. Register(id, x, h, q) /\ UNCHANGED <<env, up>>
  BY <1>b
<1> HIDE DEF h, q
<1>6. /\ queue' \in Seq(Op)
      /\ Tabled' \subseteq Tabled \cup {x}
      /\ \A y \in Entries : hw'[y] = h[y] \/ hw'[y].st = "removing"
  BY <1>1, <1>3, <1>4, <1>5, RegisterQueued, ZenonT(40)
<1>7. env.pace = "all" => \A y \in Entries :
        hw[y].st # "adding" /\ (y \in Tabled => hw[y].st \in {"active", "control"})
  BY TabledActive DEF Drained, SwInv, PmInv
<1>8. Drained'
  BY <1>3, <1>5, <1>6, <1>7, DrainedKept
<1> QED
  BY <1>5, <1>6, <1>8 DEF Queued

LEMMA RmEntryDrained ==
  ASSUME SwInv, SwInv', Queued, Drained, RmEntry
  PROVE  Queued' /\ Drained'
<1> USE NoneAssumption
<1>1. PICK e \in EntryIds : /\ GetEntry(e) # None /\ PipeRmEntry(e)
                            /\ HwRemove(GetEntry(e), hw, queue) /\ UNCHANGED <<env, up>>
  BY Zenon DEF RmEntry
<1>2. PmTypeOK /\ hw \in [Entries -> HwEntry] /\ queue \in Seq(Op)
  BY DEF SwInv, PmInv, Queued
<1>3. entryPipe[e] \in Used /\ pipeInfo' = WithEntry(entryPipe[e], e, None)
  BY <1>1, ZenonT(40) DEF PipeRmEntry
<1>4. GetEntry(e) \in Entries
  BY <1>1, <1>2, <1>3, TableTypes, ZenonT(20) DEF GetEntry
<1>5. queue' \in Seq(Op)
  BY <1>1, <1>2, <1>4, RemoveQueued
<1>6. \A y \in Entries : hw'[y] = hw[y] \/ hw'[y].st \in {"free", "removing"}
  BY <1>1, <1>2, <1>4, SMTT(30) DEF HwRemove, HwEntry
<1>7. /\ Used' = Used
      /\ \A r \in Used, f \in EntryIds : pipeInfo'[r].entries[f] =
           IF r = entryPipe[e] /\ f = e THEN None ELSE pipeInfo[r].entries[f]
  BY <1>2, <1>3, EntrySet
<1>8. Tabled' \subseteq Tabled
  BY <1>7 DEF Tabled
<1> QED
  BY <1>1, <1>5, <1>6, <1>8, DrainedLess DEF Queued

(* Pipes go, and DOCA Flow is told. *)
LEMMA TakeOutDrained ==
  ASSUME SwInv, SwInv', Queued, Drained, UNCHANGED env, up' \in BOOLEAN,
         NEW pipes, HwDestroy(pipes), Used' \subseteq Used,
         \A s \in Used' : pipeInfo'[s] = pipeInfo[s]
  PROVE  Queued' /\ Drained'
<1>1. queue' \in Seq(Op)
  BY DestroyQueued DEF Queued
<1>2. Tabled' \subseteq Tabled
  BY DEF Tabled
<1>3. \A y \in Entries : hw'[y] = hw[y] \/ hw'[y].st \in {"free", "removing"}
  BY DestroyKeeps
<1> QED
  BY <1>1, <1>2, <1>3, DrainedLess DEF Queued

LEMMA DestroysDrained ==
  ASSUME SwInv, SwInv', Queued, Drained, DestroyPipe \/ FlushPort \/ Quit
  PROVE  Queued' /\ Drained'
<1>1. CASE DestroyPipe
  <2>1. PICK id \in PipeIds : \E s \in SlotOf(id) :
          PipeDestroy(id) /\ HwDestroy({pipeInfo[s].pipe}) /\ UNCHANGED <<env, up>>
    BY <1>1, Zenon DEF DestroyPipe
  <2>2. PICK p : HwDestroy({p}) /\ UNCHANGED <<env, up>>
    BY <2>1, Zenon
  <2>3. PICK s \in SlotOf(id) : pipeInfo' = [pipeInfo EXCEPT ![s] = None]
    BY <2>1, Zenon DEF PipeDestroy
  <2>4. Used' \subseteq Used /\ \A t \in Used' : pipeInfo'[t] = pipeInfo[t]
    BY <2>3 DEF SwInv, PmInv, PmTypeOK, Used, SlotOf
  <2> QED
    BY <2>2, <2>4, TakeOutDrained DEF Queued
<1>2. CASE FlushPort
  <2>1. Used' \subseteq Used /\ \A t \in Used' : pipeInfo'[t] = pipeInfo[t]
    BY <1>2 DEF FlushPort, PipesFlush, Used
  <2> QED
    BY <1>2, <2>1, TakeOutDrained, ZenonT(20) DEF FlushPort, Queued
<1>3. CASE Quit
  <2>1. Used' \subseteq Used /\ \A t \in Used' : pipeInfo'[t] = pipeInfo[t]
    BY <1>3 DEF Quit, DestroyManager, Used
  <2> QED
    BY <1>3, <2>1, TakeOutDrained, Zenon DEF Quit
<1> QED
  BY <1>1, <1>2, <1>3

LEMMA CreateDrained ==
  ASSUME SwInv, SwInv', Queued, Drained, CreatePipe
  PROVE  Queued' /\ Drained'
<1> USE NoneAssumption
<1>1. PICK id \in PipeIds, x \in Pipes :
        /\ PipeCreate(x, SwitchPort, id) \/ PipeCreateFails(SwitchPort, id)
        /\ UNCHANGED <<hw, queue, env, up>>
  BY Zenon DEF CreatePipe
<1>2. CASE PipeCreateFails(SwitchPort, id)
  <2>1. UNCHANGED pipeInfo
    BY <1>2 DEF PipeCreateFails, pmVars
  <2>2. Tabled' \subseteq Tabled
    BY <2>1 DEF Tabled, Used
  <2> QED
    BY <1>1, <2>2, DrainedLess DEF Queued
<1>3. CASE PipeCreate(x, SwitchPort, id)
  <2>1. PICK s \in Slots \ Used :
          pipeInfo' = [pipeInfo EXCEPT ![s] =
            [id |-> id, pipe |-> x, port |-> SwitchPort,
             entries |-> [e \in EntryIds |-> None]]]
    BY <1>3, ZenonT(40) DEF PipeCreate
  <2>2. /\ \A e \in EntryIds : pipeInfo'[s].entries[e] = None
        /\ \A t \in Used : pipeInfo'[t] = pipeInfo[t]
        /\ Used' \subseteq Used \cup {s}
    BY <2>1, Zenon DEF SwInv, PmInv, PmTypeOK, Used
  <2>3. Tabled' \subseteq Tabled
    BY <2>2 DEF Tabled
  <2> QED
    BY <1>1, <2>3, DrainedLess DEF Queued
<1> QED
  BY <1>1, <1>2, <1>3

LEMMA DrainedInv ==
  SwInv /\ SwInv' /\ Queued /\ Drained /\ [SwNext]_swVars => Queued' /\ Drained'
<1>1. CASE UNCHANGED swVars
  BY <1>1 DEF swVars, pmVars, hwVars, Queued, Drained, CreatedIsActive, Used
<1> QED
  BY <1>1, CreateDrained, AddDrained, AddControlDrained, RmEntryDrained, DestroysDrained, ZenonT(20) DEF SwNext

LEMMA DrainedInit == SwInit => Queued /\ Drained
<1>1. SwInit => Queued
  BY DEF SwInit, Queued
<1>2. SwInit => Drained
  BY DEF SwInit, PmInit, Drained, CreatedIsActive, Used, Free
<1> QED
  BY <1>1, <1>2

(* The tables, the handles and the queue keep their types: what is queued    *)
(* stays a sequence of operations on known entries when pipes go and take    *)
(* theirs out of its middle.                                                 *)
THEOREM SwitchTypeCorrect == SwSpec => []SwTypeOK
<1>1. SwInv /\ Queued => SwTypeOK
  <2> SUFFICES ASSUME SwInv, Queued PROVE live \subseteq Pipes
    BY DEF SwInv, PmInv, Queued, SwTypeOK
  <2>1. \A s \in Used : pipeInfo[s].pipe \in Pipes
    BY TableTypes DEF SwInv, PmInv
  <2> QED
    BY <2>1 DEF SwInv, NoOrphanPipes
<1> QED
  BY SwInitInv, SwNextInv, DrainedInit, DrainedInv, <1>1, PTL DEF SwSpec

(* When every doca_flow_entries_process takes out all that is queued,        *)
(* pipe_add_entry reports no entry as created that failed.                   *)
THEOREM SwitchDrainedIsExact == SwSpec => []DrainedIsExact
<1>1. Drained => DrainedIsExact
  BY DEF Drained, DrainedIsExact
<1> QED
  BY SwInitInv, SwNextInv, DrainedInit, DrainedInv, <1>1, PTL DEF SwSpec
=============================================================================
