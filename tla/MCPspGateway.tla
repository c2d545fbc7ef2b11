---------------------------- MODULE MCPspGateway ----------------------------
(* Instances of PspGateway. *)
EXTENDS PspGateway, TLC

CONSTANTS ga, gb

Demand == [g \in Gateways |-> "demand"]
Startup == [g \in Gateways |-> "startup"]
Mixed == [Startup EXCEPT ![gb] = "demand"]

(* At start-up with a failure; on demand, both at once, or one with a        *)
(* failure; one of each.  One tunnel is too few for a retry and for requests *)
(* that cross.                                                               *)
MCEnvironments ==
  [mode : {Startup}, talk : {{}}, acl : {TRUE}, tunnels : {2}, faults : {1}]
    \cup
  [mode : {Startup}, talk : {{}}, acl : {FALSE}, tunnels : {1}, faults : {1}]
    \cup
  [mode : {Demand}, talk : {{ga, gb}}, acl : {TRUE}, tunnels : {1, 2},
   faults : {0}]
    \cup
  [mode : {Demand}, talk : {{ga}}, acl : BOOLEAN, tunnels : {2}, faults : {1}]
    \cup
  [mode : {Mixed}, talk : {{gb}}, acl : {TRUE}, tunnels : {2}, faults : {0}]

(* On demand, and one call or one operation fails. *)
MCFailing ==
  [mode : {Demand}, talk : {{ga}}, acl : {TRUE}, tunnels : {2}, faults : {1}]

=============================================================================
