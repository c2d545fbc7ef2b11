----------------------------- MODULE ReduceSpec -----------------------------
(***************************************************************************)
(* What an allreduce promises its clients.  Every client submits the same  *)
(* operations in the same order, a batch at a time.  An operation ends at  *)
(* a client only after every client has submitted it, and leaves there the *)
(* reduction of all the vectors submitted for it, each taken once.         *)
(***************************************************************************)
EXTENDS Naturals, Bags

CONSTANT Null          \* no result yet

VARIABLES
  plan,                \* the clients, the size of a batch, the last operation
  next,                \* per client, the first operation not yet submitted
  got                  \* per client and operation, the result

rvars == <<plan, next, got>>

(* Operation 0 is a barrier: it carries no data and changes none. *)
Full(c, id) ==
  IF id = 0 THEN SetToBag({<<c, 0>>})
            ELSE SetToBag({<<d, id>> : d \in plan.clients})

RInit ==
  /\ next = [c \in plan.clients |-> 0]
  /\ got = [c \in plan.clients |-> [id \in 0..plan.last |-> Null]]

RSubmit(c) ==
  /\ next[c] <= plan.last
  /\ \A id \in 0..plan.last : id < next[c] => got[c][id] # Null
  /\ next' = [next EXCEPT ![c] = IF @ = 0 THEN 1 ELSE @ + plan.bs]
  /\ UNCHANGED <<plan, got>>

RFinish(c, id) ==
  /\ got[c][id] = Null
  /\ \A d \in plan.clients : id < next[d]
  /\ got' = [got EXCEPT ![c][id] = Full(c, id)]
  /\ UNCHANGED <<plan, next>>

RNext ==
  \E c \in plan.clients :
    \/ RSubmit(c)
    \/ \E id \in 0..plan.last : RFinish(c, id)

RSpec == RInit /\ [][RNext]_rvars
=============================================================================
