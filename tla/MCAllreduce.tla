---------------------------- MODULE MCAllreduce ----------------------------
(* Allreduce on small configurations. *)
EXTENDS Allreduce

CONSTANTS c1, c2, c3, d1, d2

Direct(cs, bs, n, rndv, fails) ==
  [offloaded |-> FALSE, daemon |-> <<>>, peers |-> cs, bs |-> bs,
   batches |-> n, rndv |-> rndv, fails |-> fails, slow |-> FALSE]

Offloaded(dm, ds, n, rndv, fails, slow) ==
  [offloaded |-> TRUE, daemon |-> dm, peers |-> ds, bs |-> 1,
   batches |-> n, rndv |-> rndv, fails |-> fails, slow |-> slow]

OneDaemon == [c \in {c1, c2} |-> d1]
TwoDaemons == [c \in {c1, c2, c3} |-> IF c = c3 THEN d2 ELSE d1]

ThreeEager == Direct({c1, c2, c3}, 1, 1, FALSE, FALSE)
TwoRndv == Direct({c1, c2}, 2, 2, TRUE, FALSE)
TwoFailing == Direct({c1, c2}, 1, 2, FALSE, TRUE)
TwoByTwo == Offloaded(TwoDaemons, {d1, d2}, 1, TRUE, FALSE, FALSE)
SlowDaemon == Offloaded(OneDaemon, {d1}, 1, FALSE, FALSE, TRUE)
FailingDaemon == Offloaded(OneDaemon, {d1}, 2, FALSE, TRUE, FALSE)
LongDaemon == Offloaded(OneDaemon, {d1}, 4, FALSE, FALSE, FALSE)

(* The vectors of more than two processes come eagerly. *)
MCTopologies ==
  {ThreeEager, TwoRndv, TwoFailing, TwoByTwo, SlowDaemon, FailingDaemon,
   LongDaemon}

(* Three processes and rendezvous. *)
MCRndv == {Direct({c1, c2, c3}, 1, 1, TRUE, FALSE)}
=============================================================================
