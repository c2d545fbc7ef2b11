----------------------------- MODULE PspGateway -----------------------------
(***************************************************************************)
(* The PSP gateways (applications/psp_gateway/psp_gw_svc_impl.cpp): how    *)
(* two gateways come to an encrypted tunnel between them.                  *)
(*                                                                         *)
(* A gateway is one virtual address and one gRPC service.  Its client      *)
(* thread is a packet core, which asks for a tunnel when a packet misses,  *)
(* or the main thread, which tries its list of hosts until all are         *)
(* connected.  Every request it answers runs on a thread of the gRPC       *)
(* server.  No lock protects what these threads share: the key generator,  *)
(* the sessions and the counter of crypto ids; their steps interleave here *)
(* at every access.  The operations of std::map are taken as atomic.       *)
(*                                                                         *)
(* Keys are named by the gateway and the SPI they were generated with.     *)
(* gRPC, the key generator and DOCA Flow are external.                     *)
(***************************************************************************)
EXTENDS Integers, FiniteSets

CONSTANTS
  Gateways,       \* gateways, each with one virtual address
  None,           \* no session, no peer, a key that was wiped
  MaxTunnels,     \* bound of config->max_tunnels
  MaxSpi,         \* bound: keys a gateway generates
  MaxCalls,       \* bound: requests a gateway sends
  Environments    \* what the runs let happen: see EnvironmentsAssumption

ASSUME BoundsAssumption ==
  MaxTunnels \in Nat /\ MaxSpi \in Nat /\ MaxCalls \in Nat

ASSUME NoneAssumption == None \notin Gateways

(* mode: create_tunnels_at_startup of every gateway.  talk: the gateways     *)
(* whose hosts send packets.  acl: FALSE for disable_ingress_acl.  tunnels:  *)
(* max_tunnels.  faults: how many calls and hardware operations fail.        *)
ASSUME EnvironmentsAssumption ==
  Environments \subseteq
    [mode : [Gateways -> {"startup", "demand"}], talk : SUBSET Gateways,
     acl : BOOLEAN, tunnels : 0 .. MaxTunnels, faults : Nat]

VARIABLES
  env,         \* the environment of this behaviour
  th,          \* the threads
  calls,       \* requests every gateway has sent
  todo,        \* remotes_to_connect
  pass,        \* hosts of todo that this try_connect has not tried yet
  bulk,        \* bulk_key_gen: the pair it holds
  spis,        \* SPIs generated so far
  sessions,    \* gateway -> peer -> session
  nextId,      \* next_crypto_id_
  acl,         \* entries of the ingress ACL pipe
  slots,       \* crypto id -> key of the shared resource
  rules,       \* entries of the egress ACL pipe
  faults,      \* failures that may still happen
  overlap      \* two threads of the gateway were in each other's way

vars == <<env, th, calls, todo, pass, bulk, spis, sessions, nextId, acl,
          slots, rules, faults, overlap>>

(* <<g, 0>> is the client thread of g, <<g, n>> the thread that answers its  *)
(* n-th request.                                                             *)
Threads == Gateways \X (0 .. MaxCalls)
Client(g) == <<g, 0>>
IsClient(t) == t[2] = 0

Spis == 0 .. MaxSpi
Keys == (Gateways \X Spis) \cup {None}
Pair == [spi : Spis, key : Keys]
Ids == 0 .. MaxTunnels + 1

(* No parameters in a message, and the generator before its first use.  No   *)
(* SPI is 0.                                                                 *)
NoPair == [spi |-> 0, key |-> None]

Session == [ingress : Spis, egress : Spis, id : Ids]
NoSession == [ingress |-> 0, egress |-> 0, id |-> 0]

Pcs == {"idle", "generate", "get", "wipe", "ingress", "acl", "call", "wait",
        "sent", "id", "egress", "key", "rule", "reinject", "done", "failed"}

Thread ==
  [pc : Pcs, at : Gateways, peer : Gateways \cup {None}, own : Pair,
   rem : Pair, id : Ids]

Quiet(g) ==
  [pc |-> "idle", at |-> g, peer |-> None, own |-> NoPair, rem |-> NoPair,
   id |-> 0]

PspTypeOK ==
  /\ env \in Environments
  /\ th \in [Threads -> Thread]
  /\ calls \in [Gateways -> 0 .. MaxCalls]
  /\ todo \in [Gateways -> SUBSET Gateways]
  /\ pass \in [Gateways -> SUBSET Gateways]
  /\ bulk \in [Gateways -> Pair]
  /\ spis \in [Gateways -> Spis]
  /\ \A g, h \in Gateways :
       sessions[g][h] # None => sessions[g][h] \in Session
  /\ nextId \in [Gateways -> 1 .. env.tunnels + 1]
  /\ \A g \in Gateways : acl[g] \subseteq [src : Gateways, spi : Spis]
  /\ slots \in [Gateways -> [Ids -> Keys]]
  /\ \A g \in Gateways :
       rules[g] \subseteq [dst : Gateways, spi : Spis, id : Ids]
  /\ faults \in Nat
  /\ overlap \in [Gateways -> BOOLEAN]

PspInit ==
  /\ env \in Environments
  /\ th = [t \in Threads |-> Quiet(t[1])]
  /\ calls = [g \in Gateways |-> 0]
  /\ todo = [g \in Gateways |->
       IF env.mode[g] = "startup" THEN Gateways \ {g} ELSE {}]
  /\ pass = todo
  /\ bulk = [g \in Gateways |-> NoPair]
  /\ spis = [g \in Gateways |-> 0]
  /\ sessions = [g \in Gateways |-> [h \in Gateways |-> None]]
  /\ nextId = [g \in Gateways |-> 1]
  /\ acl = [g \in Gateways |-> {}]
  /\ slots = [g \in Gateways |-> [i \in Ids |-> None]]
  /\ rules = [g \in Gateways |-> {}]
  /\ faults = env.faults
  /\ overlap = [g \in Gateways |-> FALSE]

-----------------------------------------------------------------------------
(* Threads in each other's way: at the key generator, at the counter of      *)
(* crypto ids, or at the same half of one session.                           *)

Generating == {"get", "wipe"}
Numbering == {"egress"}
Incoming == {"acl"}
Outgoing == {"key", "rule"}

InTheWay(t, u) ==
  /\ t # u
  /\ th[t].at = th[u].at
  /\ \/ {th[t].pc, th[u].pc} \subseteq Generating
     \/ {th[t].pc, th[u].pc} \subseteq Numbering
     \/ /\ th[t].peer = th[u].peer
        /\ \/ {th[t].pc, th[u].pc} \subseteq Incoming
           \/ {th[t].pc, th[u].pc} \subseteq Outgoing

(* A thread holds a reference to a session that was erased. *)
Dangling(u) ==
  /\ th[u].pc \in Incoming \cup Outgoing
  /\ sessions[th[u].at][th[u].peer] = None

Conflict(g) ==
  \E t \in Threads :
    /\ th[t].at = g
    /\ Dangling(t) \/ \E u \in Threads : InTheWay(t, u)

-----------------------------------------------------------------------------
(* How a thread goes on.                                                     *)

HasRule(g, h) == \E r \in rules[g] : r.dst = h

Goto(t, pc) == th' = [th EXCEPT ![t].pc = pc]

(* The client drops the packet, or keeps the host for the next pass; the     *)
(* server answers with an error.                                             *)
Failed(t) == IF IsClient(t) THEN "idle" ELSE "failed"

(* Mutant of AfterAcl: the server leaves the reverse parameters unused. *)
MutantAfterAcl(t) == IF IsClient(t) THEN "call" ELSE "done"

(* After the ACL: the client calls, the server goes on with the reverse      *)
(* parameters when the request has some.                                     *)
AfterAcl(t) ==
  CASE IsClient(t) -> "call"
    [] ~IsClient(t) /\ th[t].rem.spi # 0 -> "id"
    [] OTHER -> "done"

(* After the tunnel: the packet core sends the packet again, the main thread *)
(* takes the host off its list, the server answers.                          *)
AfterRule(t) ==
  CASE IsClient(t) /\ env.mode[th[t].at] = "demand" -> "reinject"
    [] IsClient(t) /\ env.mode[th[t].at] = "startup" -> "idle"
    [] OTHER -> "done"

(* sessions[vip], which creates the session when there is none.  A reference *)
(* to a session that was erased reads freed memory: 0 stands for the garbage *)
(* that is there.                                                            *)
Opened(t) ==
  LET s == sessions[th[t].at][th[t].peer]
  IN  IF s = None THEN NoSession ELSE s

SetSession(t, s) == sessions' = [sessions EXCEPT ![th[t].at][th[t].peer] = s]

(* A failure of the environment. *)
Fault == faults > 0 /\ faults' = faults - 1

-----------------------------------------------------------------------------
(* The client.                                                               *)

(* handle_miss_packet: a packet that found no rule when it was sent reaches  *)
(* the packet core.  A session is taken for a tunnel.                        *)
Miss(g, h) ==
  /\ env.mode[g] = "demand" /\ g \in env.talk /\ g # h
  /\ th[Client(g)].pc = "idle"
  /\ th' = [th EXCEPT ![Client(g)] =
       [Quiet(g) EXCEPT !.peer = h,
          !.pc = IF sessions[g][h] # None THEN "reinject" ELSE "generate"]]
  /\ UNCHANGED <<env, calls, todo, pass, bulk, spis, sessions, nextId, acl,
                 slots, rules, faults>>

Reinject(g) ==
  /\ th[Client(g)].pc = "reinject"
  /\ Goto(Client(g), "idle")
  /\ UNCHANGED <<env, calls, todo, pass, bulk, spis, sessions, nextId, acl,
                 slots, rules, faults>>

(* Mutant of TryConnect: the host leaves the list before it is connected. *)
MutantTryConnect(g, h) ==
  LET hosts == IF pass[g] = {} THEN todo[g] ELSE pass[g]
  IN  /\ env.mode[g] = "startup"
      /\ th[Client(g)].pc = "idle"
      /\ h \in hosts
      /\ pass' = [pass EXCEPT ![g] = hosts \ {h}]
      /\ todo' = [todo EXCEPT ![g] = @ \ {h}]
      /\ th' = [th EXCEPT ![Client(g)] =
                  [Quiet(g) EXCEPT !.peer = h, !.pc = "call"]]
      /\ UNCHANGED <<env, calls, bulk, spis, sessions, nextId, acl, slots,
                     rules, faults>>

(* try_connect, one host: no reverse parameters.  The main loop calls it     *)
(* again when it is through the list.                                        *)
TryConnect(g, h) ==
  LET hosts == IF pass[g] = {} THEN todo[g] ELSE pass[g]
  IN  /\ env.mode[g] = "startup"
      /\ th[Client(g)].pc = "idle"
      /\ h \in hosts
      /\ pass' = [pass EXCEPT ![g] = hosts \ {h}]
      /\ th' = [th EXCEPT ![Client(g)] =
                  [Quiet(g) EXCEPT !.peer = h, !.pc = "call"]]
      /\ UNCHANGED <<env, calls, todo, bulk, spis, sessions, nextId, acl,
                     slots, rules, faults>>

(* The call leaves: a thread for it, with the reverse parameters. *)
Call(g) ==
  LET c == th[Client(g)]
  IN  /\ c.pc = "call"
      /\ calls[g] < MaxCalls
      /\ calls' = [calls EXCEPT ![g] = @ + 1]
      /\ th' = [th EXCEPT
           ![Client(g)].pc = "wait",
           ![<<g, calls[g] + 1>>] =
             [Quiet(c.peer) EXCEPT !.pc = "sent", !.peer = g, !.rem = c.own]]
      /\ UNCHANGED <<env, todo, pass, bulk, spis, sessions, nextId, acl,
                     slots, rules, faults>>

(* The answer arrives; create_tunnel_flow begins. *)
Receive(g) ==
  LET s == th[<<g, calls[g]>>]
  IN  /\ th[Client(g)].pc = "wait"
      /\ \/ /\ s.pc = "done"
            /\ th' = [th EXCEPT ![Client(g)].pc = "id",
                                ![Client(g)].rem = s.own]
         \/ /\ s.pc = "failed"
            /\ Goto(Client(g), "idle")
      /\ UNCHANGED <<env, calls, todo, pass, bulk, spis, sessions, nextId,
                     acl, slots, rules, faults>>

(* The call fails at the client, whatever becomes of it at the server. *)
RpcFails(g) ==
  /\ th[Client(g)].pc = "wait"
  /\ Fault
  /\ Goto(Client(g), "idle")
  /\ UNCHANGED <<env, calls, todo, pass, bulk, spis, sessions, nextId, acl,
                 slots, rules>>

(* RequestTunnelParams begins. *)
Serve(t) ==
  /\ th[t].pc = "sent"
  /\ Goto(t, "generate")
  /\ UNCHANGED <<env, calls, todo, pass, bulk, spis, sessions, nextId, acl,
                 slots, rules, faults>>

-----------------------------------------------------------------------------
(* generate_tunnel_params.                                                   *)

Generate(t) ==
  LET g == th[t].at
  IN  /\ th[t].pc = "generate"
      /\ spis[g] < MaxSpi
      /\ spis' = [spis EXCEPT ![g] = @ + 1]
      /\ bulk' = [bulk EXCEPT ![g] =
                    [spi |-> spis[g] + 1, key |-> <<g, spis[g] + 1>>]]
      /\ Goto(t, "get")
      /\ UNCHANGED <<env, calls, todo, pass, sessions, nextId, acl, slots,
                     rules, faults>>

GenerateFails(t) ==
  /\ th[t].pc = "generate"
  /\ Fault
  /\ Goto(t, Failed(t))
  /\ UNCHANGED <<env, calls, todo, pass, bulk, spis, sessions, nextId, acl,
                 slots, rules>>

Get(t) ==
  /\ th[t].pc = "get"
  /\ th' = [th EXCEPT ![t].own = bulk[th[t].at], ![t].pc = "wipe"]
  /\ UNCHANGED <<env, calls, todo, pass, bulk, spis, sessions, nextId, acl,
                 slots, rules, faults>>

(* The key is wiped and the SPI stays. *)
Wipe(t) ==
  /\ th[t].pc = "wipe"
  /\ bulk' = [bulk EXCEPT ![th[t].at].key = None]
  /\ Goto(t, IF env.acl THEN "ingress" ELSE AfterAcl(t))
  /\ UNCHANGED <<env, calls, todo, pass, spis, sessions, nextId, acl, slots,
                 rules, faults>>

-----------------------------------------------------------------------------
(* The ingress half of a session: the same lines in the client and in the    *)
(* server.                                                                   *)

Ingress(t) ==
  /\ th[t].pc = "ingress"
  /\ SetSession(t, [Opened(t) EXCEPT !.ingress = th[t].own.spi])
  /\ Goto(t, "acl")
  /\ UNCHANGED <<env, calls, todo, pass, bulk, spis, nextId, acl, slots,
                 rules, faults>>

(* add_ingress_acl_entry, with what the session says now. *)
AddAcl(t) ==
  LET g == th[t].at
  IN  /\ th[t].pc = "acl"
      /\ Cardinality(acl[g]) < env.tunnels
      /\ acl' = [acl EXCEPT ![g] =
                   @ \cup {[src |-> th[t].peer, spi |-> Opened(t).ingress]}]
      /\ Goto(t, AfterAcl(t))
      /\ UNCHANGED <<env, calls, todo, pass, bulk, spis, sessions, nextId,
                     slots, rules, faults>>

(* The entry is refused, or the pipe is full: the session stays. *)
AddAclFails(t) ==
  /\ th[t].pc = "acl"
  /\ \/ Fault
     \/ /\ Cardinality(acl[th[t].at]) >= env.tunnels
        /\ UNCHANGED faults
  /\ Goto(t, Failed(t))
  /\ UNCHANGED <<env, calls, todo, pass, bulk, spis, sessions, nextId, acl,
                 slots, rules>>

-----------------------------------------------------------------------------
(* create_tunnel_flow.                                                       *)

(* next_crypto_id reads the counter. *)
TakeId(t) ==
  LET i == nextId[th[t].at]
  IN  /\ th[t].pc = "id"
      /\ th' = [th EXCEPT ![t].id = i,
                  ![t].pc = IF i > env.tunnels THEN Failed(t) ELSE "egress"]
      /\ UNCHANGED <<env, calls, todo, pass, bulk, spis, sessions, nextId,
                     acl, slots, rules, faults>>

(* Mutant of Egress: the counter stays. *)
MutantEgress(t) ==
  /\ th[t].pc = "egress"
  /\ SetSession(t, [Opened(t) EXCEPT !.egress = th[t].rem.spi,
                                     !.id = th[t].id])
  /\ Goto(t, "key")
  /\ UNCHANGED <<env, calls, todo, pass, bulk, spis, nextId, acl, slots,
                 rules, faults>>

(* It writes the counter; the egress half of the session. *)
Egress(t) ==
  /\ th[t].pc = "egress"
  /\ nextId' = [nextId EXCEPT ![th[t].at] = th[t].id + 1]
  /\ SetSession(t, [Opened(t) EXCEPT !.egress = th[t].rem.spi,
                                     !.id = th[t].id])
  /\ Goto(t, "key")
  /\ UNCHANGED <<env, calls, todo, pass, bulk, spis, acl, slots, rules,
                 faults>>

(* add_encrypt_entry: the key goes to the shared resource, then the rule to  *)
(* the egress pipe.                                                          *)
AddKey(t) ==
  /\ th[t].pc = "key"
  /\ slots' = [slots EXCEPT ![th[t].at][Opened(t).id] = th[t].rem.key]
  /\ Goto(t, "rule")
  /\ UNCHANGED <<env, calls, todo, pass, bulk, spis, sessions, nextId, acl,
                 rules, faults>>

AddRule(t) ==
  LET g == th[t].at
  IN  /\ th[t].pc = "rule"
      /\ Cardinality(rules[g]) < env.tunnels
      /\ rules' = [rules EXCEPT ![g] =
           @ \cup {[dst |-> th[t].peer, spi |-> Opened(t).egress,
                    id |-> Opened(t).id]}]
      /\ todo' = [todo EXCEPT ![g] = IF IsClient(t) THEN @ \ {th[t].peer}
                                     ELSE @]
      /\ Goto(t, AfterRule(t))
      /\ UNCHANGED <<env, calls, pass, bulk, spis, sessions, nextId, acl,
                     slots, faults>>

(* The key or the rule is refused, or the pipe is full: the session goes,    *)
(* with the ingress half of it.                                              *)
EncryptFails(t) ==
  LET g == th[t].at
  IN  /\ th[t].pc \in {"key", "rule"}
      /\ \/ Fault
         \/ /\ th[t].pc = "rule"
            /\ Cardinality(rules[g]) >= env.tunnels
            /\ UNCHANGED faults
      /\ SetSession(t, None)
      /\ Goto(t, Failed(t))
      /\ UNCHANGED <<env, calls, todo, pass, bulk, spis, nextId, acl, slots,
                     rules>>

-----------------------------------------------------------------------------
ThreadStep(t) ==
  \/ Generate(t) \/ Get(t) \/ Wipe(t) \/ Ingress(t) \/ AddAcl(t)
  \/ TakeId(t) \/ Egress(t) \/ AddKey(t) \/ AddRule(t)

ThreadFails(t) == GenerateFails(t) \/ AddAclFails(t) \/ EncryptFails(t)

ClientStep(g) == Reinject(g) \/ Call(g) \/ Receive(g)

PspStep ==
  \/ \E g, h \in Gateways : Miss(g, h) \/ TryConnect(g, h)
  \/ \E g \in Gateways : ClientStep(g) \/ RpcFails(g)
  \/ \E t \in Threads : Serve(t) \/ ThreadStep(t) \/ ThreadFails(t)

(* overlap only records; no step reads it. *)
PspNext ==
  /\ PspStep
  /\ overlap' = [g \in Gateways |-> overlap[g] \/ Conflict(g)']

(* A call is answered, and a thread comes to an end; that operations fail is *)
(* never required, except where a pipe is full.                              *)
PspFairness ==
  /\ \A g, h \in Gateways : WF_th(TryConnect(g, h))
  /\ \A g \in Gateways : WF_th(ClientStep(g))
  /\ \A t \in Threads :
       WF_th(Serve(t) \/ ThreadStep(t) \/ (ThreadFails(t) /\ UNCHANGED faults))

PspSpec == PspInit /\ [][PspNext]_vars /\ PspFairness

-----------------------------------------------------------------------------
(* What the peer h of g does with the packets a rule encrypts: the key in    *)
(* the slot of the rule is the one h derives from the SPI, and its ACL       *)
(* admits the SPI from g.                                                    *)
Accepted(g, r) ==
  /\ slots[g][r.id] = <<r.dst, r.spi>>
  /\ env.acl => [src |-> g, spi |-> r.spi] \in acl[r.dst]

(* Whatever a gateway encrypts, the other end can decrypt and admits, from   *)
(* the moment the rule is there: request_tunnel_to_host opens its ACL before *)
(* it sends the reverse parameters, RequestTunnelParams before it answers,   *)
(* failed and abandoned calls included, and also when both ask each other at *)
(* once.  What it takes is that the threads of a gateway do not get into     *)
(* each other's way.                                                         *)
TunnelsAccepted ==
  \A g \in Gateways : \A r \in rules[g] :
    overlap[g] \/ overlap[r.dst] \/ Accepted(g, r)

Peers == Cardinality(Gateways) - 1

(* The main loop connects every host in the end, through the failures of the *)
(* environment: try_connect keeps the hosts it could not connect, and a      *)
(* failed try leaves nothing behind that stops the next one, except that it  *)
(* uses up an id and an entry, for which max_tunnels must leave room.        *)
StartupConnects ==
  \A g, h \in Gateways :
    (env.mode[g] = "startup" /\ g # h /\ env.tunnels >= Peers + env.faults)
      ~> HasRule(g, h)

(* A packet that misses gets its tunnel, from its own request or from one    *)
(* its peer sends at the same time, as long as nothing fails, the peer       *)
(* creates its tunnels on demand too and max_tunnels has room for both       *)
(* requests when they cross.                                                 *)
OnDemandConnects ==
  \A g, h \in Gateways :
    (/\ th[Client(g)].peer = h
     /\ env.mode = [x \in Gateways |-> "demand"]
     /\ env.tunnels >= 2 * Peers)
      ~> (HasRule(g, h) \/ faults < env.faults)

(* A packet is sent again only when a tunnel is there for it, as             *)
(* handle_miss_packet has it: "A new tunnel was created; we can now resubmit *)
(* the packet and it will be encrypted and sent to the right port."          *)
ReinjectedIsEncrypted ==
  \A g \in Gateways :
    LET c == th[Client(g)]
    IN  c.pc = "reinject" => HasRule(g, c.peer)
=============================================================================
