---------------------------- MODULE SecureChannel ----------------------------
(***************************************************************************)
(* The secure channel application                                          *)
(* (applications/secure_channel/secure_channel_core.c): a host and a DPU   *)
(* program, each with a main thread, a thread that sends cfg->send_msg_nb  *)
(* messages and a thread that receives until SIGINT.  The DPU's sender     *)
(* waits in sigwait until its receiver has accepted a first message,       *)
(* stored ctx->peer and sent it SIGUSR1.                                   *)
(*                                                                         *)
(* Each thread takes one step per access to what the threads share; a      *)
(* Comm Channel call with the lock and unlock around it is one step.  A    *)
(* program starts here after init_cc and init_signaling_polling succeeded. *)
(* External: SIGINT and SIGUSR1 are blocked and never read, so an epoll    *)
(* instance with a signalfd reports SIGINT to both threads from its        *)
(* arrival on, and SIGUSR1, which is sent to the sender thread, to the     *)
(* sender while it is pending; the channel is FIFO, a full one returns     *)
(* DOCA_ERROR_AGAIN; arming reports a message that is already there.       *)
(***************************************************************************)
EXTENDS Integers, FiniteSets

CONSTANT
    Envs  \* the environments: how much is sent, and what may happen

Sides == {"host", "dpu"}

ASSUME SecureChannelAssumption ==
    Envs \subseteq [msgs : [Sides -> Nat \ {0}], cap : Nat \ {0},
                   interrupt : BOOLEAN, fail : BOOLEAN]

VARIABLES
    env,             \* the environment of this behaviour
    main, snd, rcv,  \* where each side's three threads are
    peer,            \* is ctx->peer set?
    created,         \* channel_created of the receiver
    usr1,            \* is SIGUSR1 pending for the sender?
    intr,            \* is SIGINT pending?
    cancel,          \* was pthread_cancel called on the sender?
    left,            \* msg_nb of the sender
    chan,            \* how many messages are on their way to each side
    got,             \* recv_count of the receiver
    res,             \* struct t_results
    ret,             \* what sc_start returns
    ep               \* is the endpoint alive?

threads == <<main, snd, rcv>>
signals == <<usr1, intr, cancel>>
scVars == <<env, main, snd, rcv, peer, created, usr1, intr, cancel, left, chan, got, res, ret, ep>>

MsgNb == env.msgs             \* cfg->send_msg_nb of each side
Cap == env.cap                \* how many messages the channel holds in each direction
MayInterrupt == env.interrupt \* may SIGINT arrive?
MayFail == env.fail           \* may a system or a Comm Channel call fail?

Peer(s) == IF s = "host" THEN "dpu" ELSE "host"
Set(f, s, v) == [f EXCEPT ![s] = v]

(* The host is connected by init_cc, the DPU by its first message.         *)
ScInit ==
    /\ env \in Envs
    /\ main = [s \in Sides |-> "createSend"]
    /\ snd = [s \in Sides |-> "none"] /\ rcv = [s \in Sides |-> "none"]
    /\ peer = [s \in Sides |-> s = "host"]
    /\ created = [s \in Sides |-> FALSE]
    /\ usr1 = [s \in Sides |-> FALSE] /\ intr = [s \in Sides |-> FALSE]
    /\ cancel = [s \in Sides |-> FALSE]
    /\ left = MsgNb
    /\ chan = [s \in Sides |-> 0]
    /\ got = [s \in Sides |-> 0]
    /\ res = [s \in Sides |-> [send |-> "ok", recv |-> "ok"]]
    /\ ret = [s \in Sides |-> "none"]
    /\ ep = [s \in Sides |-> TRUE]

-----------------------------------------------------------------------------
(* The main thread: sc_start and start_threads.                            *)

CreateThreads(s) ==
    /\ \/ /\ main[s] = "createSend"
          /\ main' = Set(main, s, "createRecv") /\ snd' = Set(snd, s, "begin")
          /\ UNCHANGED <<rcv, ret>>
       \/ /\ main[s] = "createRecv"
          /\ main' = Set(main, s, "joinSend") /\ rcv' = Set(rcv, s, "begin")
          /\ UNCHANGED <<snd, ret>>
       \/ /\ MayFail /\ main[s] \in {"createSend", "createRecv"}
          /\ main' = Set(main, s, "destroy") /\ ret' = Set(ret, s, "err")
          /\ UNCHANGED <<snd, rcv>>
    /\ UNCHANGED <<peer, created, signals, left, chan, got, res, ep>>

(* Mutant of JoinThreads: the receiver is not joined.                      *)
MutantJoinSender(s) ==
    /\ main[s] = "joinSend" /\ snd[s] = "done"
    /\ main' = Set(main, s, "destroy") /\ ret' = Set(ret, s, res[s].recv)
    /\ UNCHANGED <<snd, rcv, peer, created, signals, left, chan, got, res, ep>>

(* The receiver's result replaces the sender's.                            *)
JoinThreads(s) ==
    /\ \/ /\ main[s] = "joinSend" /\ snd[s] = "done"
          /\ main' = Set(main, s, "joinRecv") /\ UNCHANGED ret
       \/ /\ main[s] = "joinRecv" /\ rcv[s] = "done"
          /\ main' = Set(main, s, "destroy") /\ ret' = Set(ret, s, res[s].recv)
    /\ UNCHANGED <<snd, rcv, peer, created, signals, left, chan, got, res, ep>>

DestroyCc(s) ==
    /\ main[s] = "destroy"
    /\ main' = Set(main, s, "end") /\ ep' = Set(ep, s, FALSE)
    /\ UNCHANGED <<snd, rcv, peer, created, signals, left, chan, got, res, ret>>

-----------------------------------------------------------------------------
(* The sender: sendto_channel.                                             *)

SndExit(s) == snd' = Set(snd, s, "done")
SndFail(s, which) ==
    /\ MayFail /\ SndExit(s)
    /\ res' = [res EXCEPT ![s] = IF which = "send" THEN [@ EXCEPT !.send = "err"]
                                                   ELSE [@ EXCEPT !.recv = "err"]]

(* A failing epoll_ctl is noted as the receiver's result.                  *)
SndBegin(s) ==
    /\ snd[s] = "begin"
    /\ \/ snd' = Set(snd, s, "check") /\ UNCHANGED res
       \/ SndFail(s, "send") \/ SndFail(s, "recv")
    /\ UNCHANGED <<main, rcv, peer, created, signals, left, chan, got, ret, ep>>

(* The loop's condition, and the look at ctx->peer.                        *)
SndCheck(s) ==
    /\ snd[s] = "check"
    /\ snd' = Set(snd, s, IF left[s] = 0 THEN "done"
                          ELSE IF s = "dpu" /\ ~peer[s] THEN "sigwait" ELSE "send")
    /\ UNCHANGED <<main, rcv, peer, created, signals, left, chan, got, res, ret, ep>>

SndSigwait(s) ==
    /\ snd[s] = "sigwait"
    /\ \/ /\ usr1[s] /\ usr1' = Set(usr1, s, FALSE)
          /\ snd' = Set(snd, s, "send") /\ UNCHANGED res
       \/ cancel[s] /\ SndExit(s) /\ UNCHANGED <<usr1, res>>
       \/ SndFail(s, "send") /\ UNCHANGED usr1
    /\ UNCHANGED <<main, rcv, peer, created, intr, cancel, left, chan, got, ret, ep>>

(* doca_comm_channel_ep_sendto.  A message it refuses counts as sent for   *)
(* the loop.  The call may be a cancellation point.                        *)
SendErrs(s) == MayFail \/ ~peer[s] \/ ~ep[Peer(s)]

SndSend(s) ==
    /\ snd[s] = "send"
    /\ \/ /\ peer[s] /\ chan[Peer(s)] < Cap
          /\ chan' = [chan EXCEPT ![Peer(s)] = @ + 1]
          /\ left' = [left EXCEPT ![s] = @ - 1] /\ snd' = Set(snd, s, "check")
          /\ UNCHANGED res
       \/ /\ peer[s] /\ chan[Peer(s)] = Cap
          /\ snd' = Set(snd, s, "wait") /\ UNCHANGED <<chan, left, res>>
       \/ /\ SendErrs(s)
          /\ left' = [left EXCEPT ![s] = @ - 1] /\ snd' = Set(snd, s, "check")
          /\ UNCHANGED <<chan, res>>
       \/ cancel[s] /\ SndExit(s) /\ UNCHANGED <<chan, left, res>>
       \/ SndFail(s, "send") /\ UNCHANGED <<chan, left>>
    /\ UNCHANGED <<main, rcv, peer, created, signals, got, ret, ep>>

(* Arm, and epoll_wait for ten milliseconds.                               *)
SndWait(s) ==
    /\ snd[s] = "wait"
    /\ \/ (intr[s] \/ usr1[s] \/ cancel[s]) /\ SndExit(s) /\ UNCHANGED res
       \/ ~intr[s] /\ ~usr1[s] /\ snd' = Set(snd, s, "check") /\ UNCHANGED res
       \/ SndFail(s, "send")
    /\ UNCHANGED <<main, rcv, peer, created, signals, left, chan, got, ret, ep>>

-----------------------------------------------------------------------------
(* The receiver: recvfrom_channel.                                         *)

RcvFail(s) == /\ MayFail /\ rcv' = Set(rcv, s, "done")
              /\ res' = [res EXCEPT ![s].recv = "err"]

RcvBegin(s) ==
    /\ rcv[s] = "begin"
    /\ (rcv' = Set(rcv, s, "recv") /\ UNCHANGED res) \/ RcvFail(s)
    /\ UNCHANGED <<main, snd, peer, created, signals, left, chan, got, ret, ep>>

(* doca_comm_channel_ep_recvfrom: a message, DOCA_ERROR_AGAIN, or another  *)
(* error, which is a warning and a retry.  Here and in SndSend the mutex   *)
(* calls around it may fail.                                               *)
RcvRecv(s) ==
    /\ rcv[s] = "recv"
    /\ \/ /\ chan[s] > 0 /\ chan' = [chan EXCEPT ![s] = @ - 1]
          /\ IF ~created[s] /\ s = "dpu"
             THEN rcv' = Set(rcv, s, "accept") /\ UNCHANGED got
             ELSE got' = [got EXCEPT ![s] = @ + 1] /\ UNCHANGED rcv
          /\ UNCHANGED res
       \/ chan[s] = 0 /\ rcv' = Set(rcv, s, "wait") /\ UNCHANGED <<chan, got, res>>
       \/ RcvFail(s) /\ UNCHANGED <<chan, got>>
    /\ UNCHANGED <<main, snd, peer, created, signals, left, ret, ep>>

(* Mutant of RcvAccept: the sender is woken before it has a peer.          *)
MutantSignalFirst(s) ==
    /\ rcv[s] \in {"accept", "signal"}
    /\ IF rcv[s] = "accept"
       THEN /\ created' = Set(created, s, TRUE) /\ usr1' = Set(usr1, s, snd[s] # "done")
            /\ rcv' = Set(rcv, s, "signal") /\ UNCHANGED <<peer, got, res>>
       ELSE /\ peer' = Set(peer, s, TRUE) /\ got' = [got EXCEPT ![s] = @ + 1]
            /\ rcv' = Set(rcv, s, "recv") /\ UNCHANGED <<created, usr1, res>>
    /\ UNCHANGED <<main, snd, intr, cancel, left, chan, ret, ep>>

(* Mutant of RcvAccept: the waiting sender is not woken.                   *)
MutantNoSignal(s) ==
    /\ rcv[s] = "accept"
    /\ created' = Set(created, s, TRUE) /\ peer' = Set(peer, s, TRUE)
    /\ got' = [got EXCEPT ![s] = @ + 1] /\ rcv' = Set(rcv, s, "recv")
    /\ UNCHANGED <<main, snd, signals, left, chan, res, ret, ep>>

(* The first message on the DPU: store the peer, then signal the sender.   *)
RcvAccept(s) ==
    /\ \/ /\ rcv[s] = "accept"
          /\ created' = Set(created, s, TRUE) /\ peer' = Set(peer, s, TRUE)
          /\ rcv' = Set(rcv, s, "signal") /\ UNCHANGED <<usr1, got, res>>
       \/ /\ rcv[s] = "signal"
          /\ usr1' = Set(usr1, s, snd[s] # "done")
          /\ got' = [got EXCEPT ![s] = @ + 1]
          /\ rcv' = Set(rcv, s, "recv") /\ UNCHANGED <<created, peer, res>>
       \/ rcv[s] = "signal" /\ RcvFail(s) /\ UNCHANGED <<created, peer, usr1, got>>
    /\ UNCHANGED <<main, snd, intr, cancel, left, chan, ret, ep>>

(* Mutant of RcvWait: the interrupt leaves a waiting sender alone.         *)
MutantNoCancel(s) ==
    /\ rcv[s] = "wait"
    /\ \/ intr[s] /\ rcv' = Set(rcv, s, "done")
       \/ ~intr[s] /\ chan[s] > 0 /\ rcv' = Set(rcv, s, "recv")
    /\ UNCHANGED <<main, snd, peer, created, signals, left, chan, got, res, ret, ep>>

(* Mutant of RcvWait: the interrupt cancels the sender in any case.        *)
MutantAlwaysCancel(s) ==
    /\ rcv[s] = "wait"
    /\ \/ intr[s] /\ rcv' = Set(rcv, s, "done") /\ cancel' = Set(cancel, s, TRUE)
       \/ ~intr[s] /\ chan[s] > 0 /\ rcv' = Set(rcv, s, "recv") /\ UNCHANGED cancel
    /\ UNCHANGED <<main, snd, peer, created, usr1, intr, left, chan, got, res, ret, ep>>

(* Arm, and epoll_wait without a timeout.  An interrupt goes before a      *)
(* message.                                                                *)
RcvWait(s) ==
    /\ rcv[s] = "wait"
    /\ \/ /\ intr[s] /\ rcv' = Set(rcv, s, "done")
          /\ cancel' = (IF created[s] THEN cancel ELSE Set(cancel, s, TRUE))
          /\ UNCHANGED res
       \/ /\ ~intr[s] /\ chan[s] > 0
          /\ rcv' = Set(rcv, s, "recv") /\ UNCHANGED <<cancel, res>>
       \/ RcvFail(s) /\ UNCHANGED cancel
    /\ UNCHANGED <<main, snd, peer, created, usr1, intr, left, chan, got, ret, ep>>

-----------------------------------------------------------------------------

Interrupt(s) ==
    /\ MayInterrupt /\ ~intr[s] /\ main[s] # "end"
    /\ intr' = Set(intr, s, TRUE)
    /\ UNCHANGED <<threads, peer, created, usr1, cancel, left, chan, got, res, ret, ep>>

Main(s) == (CreateThreads(s) \/ JoinThreads(s) \/ DestroyCc(s)) /\ UNCHANGED env
Sender(s) == /\ SndBegin(s) \/ SndCheck(s) \/ SndSigwait(s) \/ SndSend(s) \/ SndWait(s)
             /\ UNCHANGED env
Receiver(s) == (RcvBegin(s) \/ RcvRecv(s) \/ RcvAccept(s) \/ RcvWait(s)) /\ UNCHANGED env
Signal(s) == Interrupt(s) /\ UNCHANGED env

ScNext == \E s \in Sides : Main(s) \/ Sender(s) \/ Receiver(s) \/ Signal(s)

ScSpec == ScInit /\ [][ScNext]_scVars

(* The operating system runs every thread that can run.                    *)
FairScSpec ==
    /\ ScSpec
    /\ \A s \in Sides : WF_scVars(Main(s)) /\ WF_scVars(Sender(s)) /\ WF_scVars(Receiver(s))

-----------------------------------------------------------------------------
(* Properties.                                                             *)

(* Type invariant of the three threads of each program; no message is made *)
(* or lost between the programs' counters while the sends succeed.         *)
ScTypeOK ==
    \A s \in Sides :
        /\ main[s] \in {"createSend", "createRecv", "joinSend", "joinRecv", "destroy", "end"}
        /\ snd[s] \in {"none", "begin", "check", "sigwait", "send", "wait", "done"}
        /\ rcv[s] \in {"none", "begin", "recv", "accept", "signal", "wait", "done"}
        /\ {peer[s], created[s], usr1[s], intr[s], cancel[s], ep[s]} \subseteq BOOLEAN
        /\ left[s] \in 0 .. MsgNb[s] /\ chan[s] \in 0 .. Cap
        /\ got[s] + chan[s] + (IF rcv[s] \in {"accept", "signal"} THEN 1 ELSE 0)
             <= MsgNb[Peer(s)] - left[Peer(s)]

(* The sender never sends before ctx->peer is set, although it reads       *)
(* ctx->peer without the mutex: the receiver stores the peer before it     *)
(* signals.                                                                *)
SendsHavePeer == \A s \in Sides : snd[s] \in {"send", "wait"} => peer[s]

(* The endpoint is destroyed only when neither thread of the program uses  *)
(* it any more, provided both threads could be created: sc_start joins     *)
(* them before destroy_cc.                                                 *)
EpOutlivesThreads ==
    \A s \in Sides : ~ep[s] /\ rcv[s] # "none" => {snd[s], rcv[s]} = {"done"}

(* Without failing calls an interrupt of the DPU cancels only a sender     *)
(* that main has not joined and that still waits for its first connection; *)
(* once connected it is left to finish.                                    *)
CancelsWaiting ==
    [][cancel'["dpu"] # cancel["dpu"] /\ ~MayFail =>
         main["dpu"] # "joinRecv" /\ snd["dpu"] \in {"none", "begin", "check", "sigwait"}]_scVars

(* Without failing calls SIGINT ends a program wherever its threads are,   *)
(* also a DPU that no host ever connected to.                              *)
InterruptEnds == \A s \in Sides : intr[s] /\ ~MayFail ~> main[s] = "end"

(* sc_start reports an error when a thread could not be started and when   *)
(* the receiver failed, however the threads ended.                         *)
FailureReported ==
    \A s \in Sides :
        main[s] = "end" /\ (res[s].recv = "err" \/ rcv[s] = "none") => ret[s] = "err"

(* Without interrupts and failures, and with room in the channel, every    *)
(* message of both programs arrives.                                       *)
Undisturbed == ~MayInterrupt /\ ~MayFail /\ \A s \in Sides : MsgNb[s] <= Cap
AllArrive == \A s \in Sides : Undisturbed ~> got[s] = MsgNb[Peer(s)]

(* A sender leaves messages unsent only because of an interrupt ("Check if *)
(* interrupt was received").                                               *)
OnlyInterruptStops ==
    \A s \in Sides : snd[s] = "done" /\ left[s] > 0 => intr[s]
=============================================================================
