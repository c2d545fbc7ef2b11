------------------------ MODULE SecureChannelProofs ------------------------
(***************************************************************************)
(* Proofs about SecureChannel, for any number of messages, any capacity of *)
(* the channel, interrupts at any time and any failing calls.              *)
(***************************************************************************)
EXTENDS SecureChannel, TLAPS

MainAt == {"createSend", "createRecv", "joinSend", "joinRecv", "destroy", "end"}
SndAt == {"none", "begin", "check", "sigwait", "send", "wait", "done"}
RcvAt == {"none", "begin", "recv", "accept", "signal", "wait", "done"}
Results == {"ok", "err"}

(* ScTypeOK with the domains of the functions, which it leaves open.       *)
Domains ==
  /\ env \in Envs
  /\ main \in [Sides -> MainAt] /\ snd \in [Sides -> SndAt] /\ rcv \in [Sides -> RcvAt]
  /\ peer \in [Sides -> BOOLEAN] /\ created \in [Sides -> BOOLEAN]
  /\ usr1 \in [Sides -> BOOLEAN] /\ intr \in [Sides -> BOOLEAN]
  /\ cancel \in [Sides -> BOOLEAN] /\ ep \in [Sides -> BOOLEAN]
  /\ left \in [Sides -> Nat] /\ chan \in [Sides -> Nat] /\ got \in [Sides -> Nat]
  /\ res \in [Sides -> [send : Results, recv : Results]]
  /\ ret \in [Sides -> Results \cup {"none"}]

(* A message that the receiver took and has not counted yet.               *)
InHand(s) == IF rcv[s] \in {"accept", "signal"} THEN 1 ELSE 0

(* What is sent is on its way, in hand or counted, or was refused.         *)
Conserved ==
  \A s \in Sides :
    /\ chan[s] <= Cap /\ left[s] <= MsgNb[s]
    /\ snd[s] \in {"sigwait", "send", "wait"} => left[s] > 0
    /\ got[s] + chan[s] + InHand(s) <= MsgNb[Peer(s)] - left[Peer(s)]

(* How the sender comes to know that there is a peer.                      *)
PeerKnown ==
  \A s \in Sides :
    /\ s = "host" => peer[s]
    /\ snd[s] \in {"send", "wait"} \/ usr1[s] \/ rcv[s] = "signal" => peer[s]
    /\ peer[s] /\ s = "dpu" => created[s]

(* The main thread and the threads it has created and joined.              *)
Joined ==
  \A s \in Sides :
    /\ ~ep[s] => main[s] = "end"
    /\ main[s] = "createSend" => snd[s] = "none"
    /\ main[s] \in {"createSend", "createRecv"} => rcv[s] = "none"
    /\ main[s] \in {"joinSend", "joinRecv"} => rcv[s] # "none"
    /\ main[s] = "joinRecv" => snd[s] = "done"
    /\ main[s] \in {"destroy", "end"} =>
         \/ rcv[s] = "none" /\ ret[s] = "err"
         \/ rcv[s] = "done" /\ snd[s] = "done" /\ ret[s] = res[s].recv

(* A sender of the DPU without a connection, when nothing fails.           *)
Unconnected ==
  ~MayFail /\ ~created["dpu"] /\ ~cancel["dpu"] =>
    /\ snd["dpu"] \in {"none", "begin", "check", "sigwait"}
    /\ left["dpu"] = MsgNb["dpu"]

ScInv == Domains /\ Conserved /\ PeerKnown /\ Joined /\ Unconnected

-----------------------------------------------------------------------------

(* The two sides are each other's peer.                                    *)
LEMMA Peers ==
  ASSUME NEW s \in Sides
  PROVE  Peer(s) \in Sides /\ Peer(s) # s /\ Peer(Peer(s)) = s
         /\ Sides = {s, Peer(s)}
  BY DEF Peer, Sides

(* What an environment says, and that it does not change.                  *)
LEMMA Environment ==
  ASSUME Domains, env' = env
  PROVE  /\ MsgNb \in [Sides -> Nat \ {0}] /\ Cap \in Nat /\ MayFail \in BOOLEAN
         /\ MsgNb' = MsgNb /\ Cap' = Cap /\ MayFail' = MayFail
  BY SecureChannelAssumption DEF Domains, MsgNb, Cap, MayFail

(* A thread that fails leaves a proper struct t_results.                   *)
LEMMA FailedResults ==
  ASSUME res \in [Sides -> [send : Results, recv : Results]], NEW s \in Sides
  PROVE  /\ \A which : SndFail(s, which) =>
                res' \in [Sides -> [send : Results, recv : Results]]
         /\ RcvFail(s) => res' \in [Sides -> [send : Results, recv : Results]]
<1>1. /\ [res[s] EXCEPT !.send = "err"] \in [send : Results, recv : Results]
      /\ [res[s] EXCEPT !.recv = "err"] \in [send : Results, recv : Results]
  BY DEF Results
<1>2. ASSUME NEW which, SndFail(s, which)
      PROVE  res' \in [Sides -> [send : Results, recv : Results]]
  <2>1. res' = [res EXCEPT ![s] = IF which = "send" THEN [res[s] EXCEPT !.send = "err"]
                                                   ELSE [res[s] EXCEPT !.recv = "err"]]
    BY <1>2 DEF SndFail
  <2> QED BY <1>1, <2>1
<1>3. ASSUME RcvFail(s)
      PROVE  res' \in [Sides -> [send : Results, recv : Results]]
  <2>1. res' = [res EXCEPT ![s] = [res[s] EXCEPT !.recv = "err"]]
    BY <1>3 DEF RcvFail
  <2> QED BY <1>1, <2>1
<1> QED BY <1>2, <1>3

(* start_threads creates the sender, then the receiver, or gives up.       *)
LEMMA CreateThreadsInv ==
  ASSUME ScInv, NEW s \in Sides, CreateThreads(s), env' = env PROVE ScInv'
<1> USE DEF ScInv, CreateThreads, Set, signals
<1>0. /\ MsgNb \in [Sides -> Nat \ {0}] /\ Cap \in Nat /\ MayFail \in BOOLEAN
      /\ MsgNb' = MsgNb /\ Cap' = Cap /\ MayFail' = MayFail
  BY Environment
<1>p. Peer(s) \in Sides /\ Peer(s) # s /\ Peer(Peer(s)) = s /\ Sides = {s, Peer(s)}
  BY Peers
<1>1. Domains'
  BY <1>0, ZenonT(40) DEF Domains, MainAt, SndAt, RcvAt, Results
<1>2. Conserved'
  BY <1>0, <1>p DEF Domains, Conserved, InHand
<1>3. PeerKnown'
  BY <1>0 DEF Domains, PeerKnown, Sides
<1>4. Joined'
  BY <1>0 DEF Domains, Joined
<1>5. Unconnected'
  BY <1>0, <1>p DEF Domains, Unconnected, Sides, PeerKnown
<1> QED BY <1>1, <1>2, <1>3, <1>4, <1>5

(* sc_start joins the sender, then the receiver.                           *)
LEMMA JoinThreadsInv ==
  ASSUME ScInv, NEW s \in Sides, JoinThreads(s), env' = env PROVE ScInv'
<1> USE DEF ScInv, JoinThreads, Set, signals
<1>0. /\ MsgNb \in [Sides -> Nat \ {0}] /\ Cap \in Nat /\ MayFail \in BOOLEAN
      /\ MsgNb' = MsgNb /\ Cap' = Cap /\ MayFail' = MayFail
  BY Environment
<1>p. Peer(s) \in Sides /\ Peer(s) # s /\ Peer(Peer(s)) = s /\ Sides = {s, Peer(s)}
  BY Peers
<1>1. Domains'
  <2>1. res[s].recv \in Results
    BY DEF Domains
  <2> QED
    BY <2>1, Zenon DEF JoinThreads, signals, Set, Domains, MainAt
<1>2. Conserved'
  BY <1>0, <1>p DEF Domains, Conserved, InHand
<1>3. PeerKnown'
  BY <1>0 DEF Domains, PeerKnown, Sides
<1>4. Joined'
  BY <1>0 DEF Domains, Joined
<1>5. Unconnected'
  BY <1>0, <1>p DEF Domains, Unconnected, Sides, PeerKnown
<1> QED BY <1>1, <1>2, <1>3, <1>4, <1>5

(* The endpoint is destroyed when both threads have been joined, or could  *)
(* not be created.                                                         *)
LEMMA DestroyCcInv ==
  ASSUME ScInv, NEW s \in Sides, DestroyCc(s), env' = env PROVE ScInv'
<1> USE DEF ScInv, DestroyCc, Set, signals
<1>0. /\ MsgNb \in [Sides -> Nat \ {0}] /\ Cap \in Nat /\ MayFail \in BOOLEAN
      /\ MsgNb' = MsgNb /\ Cap' = Cap /\ MayFail' = MayFail
  BY Environment
<1>p. Peer(s) \in Sides /\ Peer(s) # s /\ Peer(Peer(s)) = s /\ Sides = {s, Peer(s)}
  BY Peers
<1>1. Domains'
  BY <1>0 DEF Domains, MainAt, SndAt, RcvAt, Results
<1>2. Conserved'
  BY <1>0, <1>p DEF Domains, Conserved, InHand
<1>3. PeerKnown'
  BY <1>0 DEF Domains, PeerKnown, Sides
<1>4. Joined'
  BY <1>0 DEF Domains, Joined
<1>5. Unconnected'
  BY <1>0, <1>p DEF Domains, Unconnected, Sides, PeerKnown
<1> QED BY <1>1, <1>2, <1>3, <1>4, <1>5

(* The sender sets up its epoll instance.                                  *)
LEMMA SndBeginInv ==
  ASSUME ScInv, NEW s \in Sides, SndBegin(s), env' = env PROVE ScInv'
<1> USE DEF ScInv, SndBegin, Set, signals, SndFail, SndExit
<1>0. /\ MsgNb \in [Sides -> Nat \ {0}] /\ Cap \in Nat /\ MayFail \in BOOLEAN
      /\ MsgNb' = MsgNb /\ Cap' = Cap /\ MayFail' = MayFail
  BY Environment
<1>p. Peer(s) \in Sides /\ Peer(s) # s /\ Peer(Peer(s)) = s /\ Sides = {s, Peer(s)}
  BY Peers
<1>1. Domains'
  <2>1. res' \in [Sides -> [send : Results, recv : Results]]
    BY FailedResults, Zenon DEF SndBegin, Domains
  <2> QED
    BY <1>0, <1>p, <2>1 DEF Domains, SndAt, RcvAt
<1>2. Conserved'
  BY <1>0, <1>p DEF Domains, Conserved, InHand
<1>3. PeerKnown'
  BY <1>0 DEF Domains, PeerKnown, Sides
<1>4. Joined'
  BY <1>0 DEF Domains, Joined
<1>5. Unconnected'
  BY <1>0, <1>p DEF Domains, Unconnected, Sides, PeerKnown
<1> QED BY <1>1, <1>2, <1>3, <1>4, <1>5

(* The sender's loop: a sender of the DPU has a message left, so it waits  *)
(* for a peer instead of ending.                                           *)
LEMMA SndCheckInv ==
  ASSUME ScInv, NEW s \in Sides, SndCheck(s), env' = env PROVE ScInv'
<1> USE DEF ScInv, SndCheck, Set, signals
<1>0. /\ MsgNb \in [Sides -> Nat \ {0}] /\ Cap \in Nat /\ MayFail \in BOOLEAN
      /\ MsgNb' = MsgNb /\ Cap' = Cap /\ MayFail' = MayFail
  BY Environment
<1>p. Peer(s) \in Sides /\ Peer(s) # s /\ Peer(Peer(s)) = s /\ Sides = {s, Peer(s)}
  BY Peers
<1>1. Domains'
  BY <1>0 DEF Domains, MainAt, SndAt, RcvAt, Results
<1>2. Conserved'
  BY <1>0, <1>p DEF Domains, Conserved, InHand
<1>3. PeerKnown'
  BY <1>0 DEF Domains, PeerKnown, Sides
<1>4. Joined'
  BY <1>0 DEF Domains, Joined
<1>5. Unconnected'
  BY <1>0, <1>p DEF Domains, Unconnected, Sides, PeerKnown
<1> QED BY <1>1, <1>2, <1>3, <1>4, <1>5

(* SIGUSR1 is pending only when the peer is known.                         *)
LEMMA SndSigwaitInv ==
  ASSUME ScInv, NEW s \in Sides, SndSigwait(s), env' = env PROVE ScInv'
<1> USE DEF ScInv, SndSigwait, Set, signals, SndFail, SndExit
<1>0. /\ MsgNb \in [Sides -> Nat \ {0}] /\ Cap \in Nat /\ MayFail \in BOOLEAN
      /\ MsgNb' = MsgNb /\ Cap' = Cap /\ MayFail' = MayFail
  BY Environment
<1>p. Peer(s) \in Sides /\ Peer(s) # s /\ Peer(Peer(s)) = s /\ Sides = {s, Peer(s)}
  BY Peers
<1>1. Domains'
  <2>1. res' \in [Sides -> [send : Results, recv : Results]]
    BY FailedResults, Zenon DEF SndSigwait, Domains
  <2> QED
    BY <1>0, <1>p, <2>1, Zenon DEF Domains, SndAt, RcvAt
<1>2. Conserved'
  BY <1>0, <1>p DEF Domains, Conserved, InHand
<1>3. PeerKnown'
  BY <1>0 DEF Domains, PeerKnown, Sides
<1>4. Joined'
  BY <1>0 DEF Domains, Joined
<1>5. Unconnected'
  BY <1>0, <1>p DEF Domains, Unconnected, Sides, PeerKnown
<1> QED BY <1>1, <1>2, <1>3, <1>4, <1>5

(* A message that is sent moves from left to chan, one that is refused is  *)
(* lost.                                                                   *)
LEMMA SndSendInv ==
  ASSUME ScInv, NEW s \in Sides, SndSend(s), env' = env PROVE ScInv'
<1> USE DEF ScInv, SndSend, Set, signals, SndFail, SndExit, SendErrs
<1>0. /\ MsgNb \in [Sides -> Nat \ {0}] /\ Cap \in Nat /\ MayFail \in BOOLEAN
      /\ MsgNb' = MsgNb /\ Cap' = Cap /\ MayFail' = MayFail
  BY Environment
<1>p. Peer(s) \in Sides /\ Peer(s) # s /\ Peer(Peer(s)) = s /\ Sides = {s, Peer(s)}
  BY Peers
<1>1. Domains'
  <2>1. res' \in [Sides -> [send : Results, recv : Results]]
    BY FailedResults, Zenon DEF SndSend, Domains
  <2> QED
    BY <1>0, <1>p, <2>1 DEF Domains, SndAt, RcvAt, Conserved
<1>2. Conserved'
  BY <1>0, <1>p DEF Domains, Conserved, InHand
<1>3. PeerKnown'
  BY <1>0 DEF Domains, PeerKnown, Sides
<1>4. Joined'
  BY <1>0 DEF Domains, Joined
<1>5. Unconnected'
  BY <1>0, <1>p DEF Domains, Unconnected, Sides, PeerKnown
<1> QED BY <1>1, <1>2, <1>3, <1>4, <1>5

(* The sender waits for room in the channel.                               *)
LEMMA SndWaitInv ==
  ASSUME ScInv, NEW s \in Sides, SndWait(s), env' = env PROVE ScInv'
<1> USE DEF ScInv, SndWait, Set, signals, SndFail, SndExit
<1>0. /\ MsgNb \in [Sides -> Nat \ {0}] /\ Cap \in Nat /\ MayFail \in BOOLEAN
      /\ MsgNb' = MsgNb /\ Cap' = Cap /\ MayFail' = MayFail
  BY Environment
<1>p. Peer(s) \in Sides /\ Peer(s) # s /\ Peer(Peer(s)) = s /\ Sides = {s, Peer(s)}
  BY Peers
<1>1. Domains'
  <2>1. res' \in [Sides -> [send : Results, recv : Results]]
    BY FailedResults, Zenon DEF SndWait, Domains
  <2> QED
    BY <1>0, <1>p, <2>1 DEF Domains, SndAt, RcvAt
<1>2. Conserved'
  BY <1>0, <1>p DEF Domains, Conserved, InHand
<1>3. PeerKnown'
  BY <1>0 DEF Domains, PeerKnown, Sides
<1>4. Joined'
  BY <1>0 DEF Domains, Joined
<1>5. Unconnected'
  BY <1>0, <1>p DEF Domains, Unconnected, Sides, PeerKnown
<1> QED BY <1>1, <1>2, <1>3, <1>4, <1>5

(* The receiver sets up its epoll instance.                                *)
LEMMA RcvBeginInv ==
  ASSUME ScInv, NEW s \in Sides, RcvBegin(s), env' = env PROVE ScInv'
<1> USE DEF ScInv, RcvBegin, Set, signals, RcvFail
<1>0. /\ MsgNb \in [Sides -> Nat \ {0}] /\ Cap \in Nat /\ MayFail \in BOOLEAN
      /\ MsgNb' = MsgNb /\ Cap' = Cap /\ MayFail' = MayFail
  BY Environment
<1>p. Peer(s) \in Sides /\ Peer(s) # s /\ Peer(Peer(s)) = s /\ Sides = {s, Peer(s)}
  BY Peers
<1>1. Domains'
  <2>1. res' \in [Sides -> [send : Results, recv : Results]]
    BY FailedResults, Zenon DEF RcvBegin, Domains
  <2> QED
    BY <1>0, <1>p, <2>1 DEF Domains, SndAt, RcvAt
<1>2. Conserved'
  BY <1>0, <1>p DEF Domains, Conserved, InHand
<1>3. PeerKnown'
  BY <1>0 DEF Domains, PeerKnown, Sides
<1>4. Joined'
  BY <1>0 DEF Domains, Joined
<1>5. Unconnected'
  BY <1>0, <1>p DEF Domains, Unconnected, Sides, PeerKnown
<1> QED BY <1>1, <1>2, <1>3, <1>4, <1>5

(* A message moves from chan to the receiver's hand or counter.            *)
LEMMA RcvRecvInv ==
  ASSUME ScInv, NEW s \in Sides, RcvRecv(s), env' = env PROVE ScInv'
<1> USE DEF ScInv, RcvRecv, Set, signals, RcvFail
<1>0. /\ MsgNb \in [Sides -> Nat \ {0}] /\ Cap \in Nat /\ MayFail \in BOOLEAN
      /\ MsgNb' = MsgNb /\ Cap' = Cap /\ MayFail' = MayFail
  BY Environment
<1>p. Peer(s) \in Sides /\ Peer(s) # s /\ Peer(Peer(s)) = s /\ Sides = {s, Peer(s)}
  BY Peers
<1>1. Domains'
  <2>1. res' \in [Sides -> [send : Results, recv : Results]]
    BY FailedResults, Zenon DEF RcvRecv, Domains
  <2> QED
    BY <1>0, <1>p, <2>1 DEF Domains, SndAt, RcvAt
<1>2. Conserved'
  BY <1>0, <1>p DEF Domains, Conserved, InHand
<1>3. PeerKnown'
  BY <1>0 DEF Domains, PeerKnown, Sides
<1>4. Joined'
  BY <1>0 DEF Domains, Joined
<1>5. Unconnected'
  BY <1>0, <1>p DEF Domains, Unconnected, Sides, PeerKnown
<1> QED BY <1>1, <1>2, <1>3, <1>4, <1>5

(* The peer is stored first, then the sender is woken.                     *)
LEMMA RcvAcceptInv ==
  ASSUME ScInv, NEW s \in Sides, RcvAccept(s), env' = env PROVE ScInv'
<1> USE DEF ScInv, RcvAccept, Set, signals, RcvFail
<1>0. /\ MsgNb \in [Sides -> Nat \ {0}] /\ Cap \in Nat /\ MayFail \in BOOLEAN
      /\ MsgNb' = MsgNb /\ Cap' = Cap /\ MayFail' = MayFail
  BY Environment
<1>p. Peer(s) \in Sides /\ Peer(s) # s /\ Peer(Peer(s)) = s /\ Sides = {s, Peer(s)}
  BY Peers
<1>1. Domains'
  <2>1. res' \in [Sides -> [send : Results, recv : Results]]
    BY FailedResults DEF RcvAccept, Domains
  <2>2. usr1' \in [Sides -> BOOLEAN]
    <3>1. (snd[s] # "done") \in BOOLEAN
      OBVIOUS
    <3> QED BY <3>1, Zenon DEF RcvAccept, Set, Domains
  <2>3. peer' \in [Sides -> BOOLEAN] /\ created' \in [Sides -> BOOLEAN]
    BY Zenon DEF RcvAccept, Set, Domains
  <2>4. got' = got \/ got' = [got EXCEPT ![s] = @ + 1]
    BY Zenon DEF RcvAccept
  <2>5. \E v \in {"signal", "recv", "done"} : rcv' = [rcv EXCEPT ![s] = v]
    BY Zenon DEF RcvAccept, RcvFail, Set
  <2>6. got' \in [Sides -> Nat] /\ rcv' \in [Sides -> RcvAt]
    <3>1. got \in [Sides -> Nat] /\ rcv \in [Sides -> RcvAt]
      BY DEF Domains
    <3>2. got' \in [Sides -> Nat]
      BY ONLY <2>4, <3>1
    <3>3. rcv' \in [Sides -> RcvAt]
      BY ONLY <2>5, <3>1 DEF RcvAt
    <3> QED BY <3>2, <3>3
  <2>7. UNCHANGED <<env, main, snd, intr, cancel, left, chan, ret, ep>>
    BY Zenon DEF RcvAccept
  <2> QED
    BY <2>1, <2>2, <2>3, <2>6, <2>7 DEF Domains
<1>2. Conserved'
  BY <1>0, <1>p DEF Domains, Conserved, InHand
<1>3. PeerKnown'
  BY <1>0 DEF Domains, PeerKnown, Sides
<1>4. Joined'
  BY <1>0 DEF Domains, Joined
<1>5. Unconnected'
  BY <1>0, <1>p DEF Domains, Unconnected, Sides, PeerKnown
<1> QED BY <1>1, <1>2, <1>3, <1>4, <1>5

(* An interrupt cancels a sender that has no connection.                   *)
LEMMA RcvWaitInv ==
  ASSUME ScInv, NEW s \in Sides, RcvWait(s), env' = env PROVE ScInv'
<1> USE DEF ScInv, RcvWait, Set, signals, RcvFail
<1>0. /\ MsgNb \in [Sides -> Nat \ {0}] /\ Cap \in Nat /\ MayFail \in BOOLEAN
      /\ MsgNb' = MsgNb /\ Cap' = Cap /\ MayFail' = MayFail
  BY Environment
<1>p. Peer(s) \in Sides /\ Peer(s) # s /\ Peer(Peer(s)) = s /\ Sides = {s, Peer(s)}
  BY Peers
<1>1. Domains'
  <2>1. res' \in [Sides -> [send : Results, recv : Results]]
    BY FailedResults, SMTT(30) DEF RcvWait, Domains
  <2>2. cancel' \in [Sides -> BOOLEAN]
    BY ZenonT(40) DEF RcvWait, Set, Domains
  <2> QED
    BY <1>0, <1>p, <2>1, <2>2 DEF Domains, SndAt, RcvAt
<1>2. Conserved'
  BY <1>0, <1>p DEF Domains, Conserved, InHand
<1>3. PeerKnown'
  BY <1>0 DEF Domains, PeerKnown, Sides
<1>4. Joined'
  BY <1>0, SMTT(30) DEF Domains, Joined
<1>5. Unconnected'
  BY <1>0, <1>p DEF Domains, Unconnected, Sides, PeerKnown
<1> QED BY <1>1, <1>2, <1>3, <1>4, <1>5

(* SIGINT by itself changes nothing the invariant is about.                *)
LEMMA InterruptInv ==
  ASSUME ScInv, NEW s \in Sides, Interrupt(s), env' = env PROVE ScInv'
<1> USE DEF ScInv, Interrupt, Set, signals, threads
<1>0. /\ MsgNb \in [Sides -> Nat \ {0}] /\ Cap \in Nat /\ MayFail \in BOOLEAN
      /\ MsgNb' = MsgNb /\ Cap' = Cap /\ MayFail' = MayFail
  BY Environment
<1>p. Peer(s) \in Sides /\ Peer(s) # s /\ Peer(Peer(s)) = s /\ Sides = {s, Peer(s)}
  BY Peers
<1>1. Domains'
  BY <1>0 DEF Domains, MainAt, SndAt, RcvAt, Results
<1>2. Conserved'
  BY <1>0, <1>p DEF Domains, Conserved, InHand
<1>3. PeerKnown'
  BY <1>0 DEF Domains, PeerKnown, Sides
<1>4. Joined'
  BY <1>0 DEF Domains, Joined
<1>5. Unconnected'
  BY <1>0, <1>p DEF Domains, Unconnected, Sides, PeerKnown
<1> QED BY <1>1, <1>2, <1>3, <1>4, <1>5

-----------------------------------------------------------------------------

(* The programs start in the invariant, after init_cc.                     *)
LEMMA ScInitInv == ScInit => ScInv
<1> SUFFICES ASSUME ScInit PROVE ScInv
  OBVIOUS
<1>1. MsgNb \in [Sides -> Nat \ {0}] /\ Cap \in Nat
  BY SecureChannelAssumption DEF ScInit, MsgNb, Cap
<1>2. Domains
  <2>1. \A s \in Sides : (s = "host") \in BOOLEAN
    OBVIOUS
  <2>2. peer \in [Sides -> BOOLEAN]
    BY <2>1, Zenon DEF ScInit
  <2>3. res \in [Sides -> [send : Results, recv : Results]]
    BY DEF ScInit, Results
  <2>4. /\ usr1 \in [Sides -> BOOLEAN] /\ intr \in [Sides -> BOOLEAN]
        /\ cancel \in [Sides -> BOOLEAN] /\ ep \in [Sides -> BOOLEAN]
        /\ created \in [Sides -> BOOLEAN]
    BY DEF ScInit
  <2>5. left \in [Sides -> Nat] /\ chan \in [Sides -> Nat] /\ got \in [Sides -> Nat]
    BY <1>1 DEF ScInit
  <2>6. main \in [Sides -> MainAt] /\ snd \in [Sides -> SndAt] /\ rcv \in [Sides -> RcvAt]
        /\ ret \in [Sides -> Results \cup {"none"}] /\ env \in Envs
    BY DEF ScInit, MainAt, SndAt, RcvAt
  <2> QED BY <2>2, <2>3, <2>4, <2>5, <2>6 DEF Domains
<1>3. Conserved
  BY <1>1, Peers DEF Conserved, ScInit, InHand
<1>4. PeerKnown /\ Joined /\ Unconnected
  BY Zenon DEF PeerKnown, Joined, Unconnected, ScInit, Sides
<1> QED BY <1>2, <1>3, <1>4 DEF ScInv

(* Every step keeps the invariant.                                         *)
LEMMA ScStepInv == ScInv /\ [ScNext]_scVars => ScInv'
<1> SUFFICES ASSUME ScInv, [ScNext]_scVars PROVE ScInv'
  OBVIOUS
<1>1. CASE UNCHANGED scVars
  BY <1>1 DEF scVars, ScInv, Domains, Conserved, InHand, PeerKnown, Joined,
              Unconnected, MsgNb, Cap, MayFail
<1>2. ASSUME NEW s \in Sides, Main(s) PROVE ScInv'
  BY <1>2, CreateThreadsInv, JoinThreadsInv, DestroyCcInv DEF Main
<1>3. ASSUME NEW s \in Sides, Sender(s) PROVE ScInv'
  BY <1>3, SndBeginInv, SndCheckInv, SndSigwaitInv, SndSendInv, SndWaitInv DEF Sender
<1>4. ASSUME NEW s \in Sides, Receiver(s) PROVE ScInv'
  BY <1>4, RcvBeginInv, RcvRecvInv, RcvAcceptInv, RcvWaitInv DEF Receiver
<1>5. ASSUME NEW s \in Sides, Signal(s) PROVE ScInv'
  BY <1>5, InterruptInv DEF Signal
<1> QED BY <1>1, <1>2, <1>3, <1>4, <1>5 DEF ScNext

(* The inductive invariant holds for any number of messages, any capacity, *)
(* any interrupts and any failing calls.                                   *)
THEOREM ScInvariant == ScSpec => []ScInv
  BY ScInitInv, ScStepInv, PTL DEF ScSpec

(* Nothing is made or counted twice between the programs' counters.        *)
THEOREM ScTypeCorrect == ScSpec => []ScTypeOK
<1>1. ScInv => ScTypeOK
  <2> SUFFICES ASSUME ScInv, NEW s \in Sides
               PROVE  /\ main[s] \in MainAt /\ snd[s] \in SndAt /\ rcv[s] \in RcvAt
                      /\ {peer[s], created[s], usr1[s], intr[s], cancel[s], ep[s]}
                           \subseteq BOOLEAN
                      /\ left[s] \in 0 .. MsgNb[s] /\ chan[s] \in 0 .. Cap
                      /\ got[s] + chan[s] + InHand(s) <= MsgNb[Peer(s)] - left[Peer(s)]
    BY DEF ScTypeOK, MainAt, SndAt, RcvAt, InHand
  <2>1. MsgNb \in [Sides -> Nat \ {0}] /\ Cap \in Nat
    BY SecureChannelAssumption DEF ScInv, Domains, MsgNb, Cap
  <2>2. /\ main[s] \in MainAt /\ snd[s] \in SndAt /\ rcv[s] \in RcvAt
        /\ {peer[s], created[s], usr1[s], intr[s], cancel[s], ep[s]} \subseteq BOOLEAN
    BY DEF ScInv, Domains
  <2> QED BY <2>1, <2>2 DEF ScInv, Domains, Conserved
<1> QED BY <1>1, ScInvariant, PTL

(* The sender never sends before ctx->peer is set: the receiver stores the *)
(* peer before it sends SIGUSR1, and no other step makes SIGUSR1 pending.  *)
THEOREM ScSendsHavePeer == ScSpec => []SendsHavePeer
<1>1. ScInv => SendsHavePeer
  BY DEF ScInv, PeerKnown, SendsHavePeer
<1> QED BY <1>1, ScInvariant, PTL

(* destroy_cc comes after the joins: no thread uses a dead endpoint.       *)
THEOREM ScEpOutlivesThreads == ScSpec => []EpOutlivesThreads
<1>1. ScInv => EpOutlivesThreads
  BY DEF ScInv, Joined, EpOutlivesThreads
<1> QED BY <1>1, ScInvariant, PTL

(* sc_start's return value covers the receiver and the thread creations.   *)
THEOREM ScFailureReported == ScSpec => []FailureReported
<1>1. ScInv => FailureReported
  BY DEF ScInv, Joined, FailureReported
<1> QED BY <1>1, ScInvariant, PTL

(* pthread_cancel of the DPU's receiver only meets a sender that waits for *)
(* its first connection and has not been joined, when nothing fails.       *)
THEOREM ScCancelsWaiting == ScSpec => CancelsWaiting
<1> DEFINE P == cancel'["dpu"] # cancel["dpu"] /\ ~MayFail =>
         main["dpu"] # "joinRecv" /\ snd["dpu"] \in {"none", "begin", "check", "sigwait"}
<1>1. ScInv /\ [ScNext]_scVars => [P]_scVars
  <2> SUFFICES ASSUME ScInv, ScNext, cancel'["dpu"] # cancel["dpu"], ~MayFail
               PROVE  main["dpu"] # "joinRecv"
                      /\ snd["dpu"] \in {"none", "begin", "check", "sigwait"}
    BY DEF scVars
  <2>1. PICK s \in Sides : RcvWait(s)
    BY ZenonT(40) DEF ScNext, Main, Sender, Receiver, Signal, CreateThreads, JoinThreads,
       DestroyCc, SndBegin, SndCheck, SndSigwait, SndSend, SndWait, RcvBegin, RcvRecv,
       RcvAccept, Interrupt, signals
  <2>2. cancel' = Set(cancel, s, TRUE) /\ ~created[s]
    BY <2>1, Zenon DEF RcvWait
  <2>3. s = "dpu" /\ ~cancel["dpu"]
    BY <2>2, Zenon DEF Set, ScInv, Domains, Sides
  <2> QED BY <2>2, <2>3 DEF ScInv, Unconnected, Joined, Sides
<1>2. ScSpec => [][P]_scVars
  BY <1>1, ScInvariant, PTL DEF ScSpec
<1> QED BY <1>2 DEF CancelsWaiting
=============================================================================
