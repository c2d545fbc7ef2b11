------------------------------- MODULE DmaCopy -------------------------------
(***************************************************************************)
(* The DMA copy application (applications/dma_copy/dma_copy_core.c): a     *)
(* host program and a DPU program agree over a Comm Channel which of them  *)
(* has the file, the host exports a buffer, the DPU copies by DMA between  *)
(* that buffer and its own, and the side without the file saves it.        *)
(*                                                                         *)
(* Both programs are sequential.  An action runs one of them from one Comm *)
(* Channel call, or one access to a buffer, to the next; the loops that    *)
(* retry on DOCA_ERROR_AGAIN are the wait for the action to be enabled.    *)
(* The channel is external: it is FIFO and loses nothing.  A behaviour     *)
(* runs in one environment.  In it every local call that may return an     *)
(* error may fail (LocalFails), every Comm Channel call may (ChannelFails), *)
(* and a receiver whose peer ended gets DOCA_ERROR_CONNECTION_RESET        *)
(* instead of DOCA_ERROR_AGAIN (ResetSeen), or not.                        *)
(***************************************************************************)
EXTENDS Integers, Sequences

CONSTANTS
    Sizes,         \* the sizes a source file may have
    MaxBuf,        \* the largest buffer of the DMA device
    Envs           \* the environments: what may happen in a behaviour

ASSUME DmaCopyAssumption ==
    /\ Sizes \subseteq Nat /\ MaxBuf \in Nat
    /\ Envs \subseteq SUBSET {"local", "channel", "reset"}

VARIABLES
    env,       \* the environment of this behaviour
    pc,        \* where each program is
    cfg,       \* struct dma_copy_cfg: is_file_found_locally and file_size
    chan,      \* the messages on their way to each side
    connected, \* the host's connection was accepted
    buf,       \* the buffer each side allocated
    offset,    \* host_dma_offset: the length the host sent
    task,      \* the DMA task: "none", "inflight", or "held" once completed
    file,      \* the file of each side
    result     \* what host_start_dma_copy and dpu_start_dma_copy return

dmaVars == <<env, pc, cfg, chan, connected, buf, offset, task, file, result>>

LocalFails == "local" \in env      \* files, memory, devices and tasks may fail
ChannelFails == "channel" \in env  \* a Comm Channel call may, while the peer runs
ResetSeen == "reset" \in env       \* a receiver learns that its peer ended

Sides == {"host", "dpu"}
Peer(s) == IF s = "host" THEN "dpu" ELSE "host"

NoBuf == [len |-> 0, data |-> "none"]
Raw(n) == [len |-> n, data |-> "raw"]

Dir(found, n) == [type |-> "dir", inHost |-> found, size |-> n]
Status(b) == [type |-> "status", success |-> b]
Export == [type |-> "export"]
Addr == [type |-> "addr"]
Length(n) == [type |-> "len", size |-> n]

(* args_validation_callback has looked for the file on each side.          *)
DmaInit ==
    /\ env \in Envs
    /\ pc = [host |-> "connect", dpu |-> "setup"]
    /\ cfg \in [Sides -> {[found |-> FALSE, size |-> 0]}
                         \cup {[found |-> TRUE, size |-> n] : n \in Sizes}]
    /\ chan = [s \in Sides |-> <<>>]
    /\ connected = FALSE
    /\ buf = [s \in Sides |-> NoBuf]
    /\ offset = 0
    /\ task = "none"
    /\ file = [s \in Sides |-> IF cfg[s].found
                               THEN [len |-> cfg[s].size, data |-> "src"]
                               ELSE NoBuf]
    /\ result = [s \in Sides |-> "none"]

-----------------------------------------------------------------------------

Goto(s, p) == pc' = [pc EXCEPT ![s] = p] /\ UNCHANGED result
Return(s, r) == /\ pc' = [pc EXCEPT ![s] = "cleanup"]
                /\ result' = [result EXCEPT ![s] = r]
Abort(s) == Return(s, "err")

Received(s) == chan[s] # <<>>
Taken(s) == [chan EXCEPT ![s] = Tail(@)]
Sent(c, to, m) == [c EXCEPT ![to] = Append(@, m)]
SendMayFail(to) == ChannelFails \/ pc[to] = "end"
PeerGone(s) == ResetSeen /\ connected /\ pc[Peer(s)] = "end" /\ chan[s] = <<>>
RecvMayFail(s) == ChannelFails \/ PeerGone(s)

(* A send whose error ends the program.                                    *)
SendTo(s, c, m, next) ==
    \/ chan' = Sent(c, Peer(s), m) /\ Goto(s, next)
    \/ SendMayFail(Peer(s)) /\ chan' = c /\ Abort(s)

(* send_status_msg where the caller drops its result.                      *)
Tell(c, b) ==
    \/ chan' = Sent(c, "host", Status(b))
    \/ SendMayFail("host") /\ chan' = c

-----------------------------------------------------------------------------
(* The host.                                                               *)

HostConnect ==
    /\ pc["host"] = "connect"
    /\ \/ /\ pc["dpu"] \notin {"setup", "end"}
          /\ connected' = TRUE
          /\ SendTo("host", chan, Dir(cfg["host"].found, cfg["host"].size), "recvDir")
       \/ /\ pc["dpu"] \in {"setup", "end"} \/ ChannelFails
          /\ Abort("host") /\ UNCHANGED <<connected, chan>>
    /\ UNCHANGED <<cfg, buf, offset, task, file>>

(* The answer is a direction message, or a status message, which has       *)
(* another length.                                                         *)
HostRecvDir ==
    /\ pc["host"] = "recvDir"
    /\ Received("host")
    /\ chan' = Taken("host")
    /\ LET m == Head(chan["host"]) IN
         \/ /\ m.type # "dir"
            /\ Abort("host") /\ UNCHANGED cfg
         \/ /\ m.type = "dir"
            /\ Goto("host", "alloc")
            /\ cfg' = IF cfg["host"].found THEN cfg
                      ELSE [cfg EXCEPT !["host"].size = m.size]
    /\ UNCHANGED <<connected, buf, offset, task, file>>

HostAlloc ==
    /\ pc["host"] = "alloc"
    /\ \/ /\ buf' = [buf EXCEPT !["host"] = Raw(cfg["host"].size)]
          /\ SendTo("host", chan, Export, "recvExport")
       \/ LocalFails /\ Abort("host") /\ UNCHANGED <<buf, chan>>
    /\ UNCHANGED <<cfg, connected, offset, task, file>>

(* Mutant of AfterStatus: the host does not wait for the DMA to end.       *)
MutantNoFinalWait(p) == CASE p = "recvExport" -> "fill"
                          [] p = "recvAddr" -> "sendLen"
                          [] OTHER -> "save"

(* wait_for_successful_status_msg, and the place the host goes on at.      *)
AfterStatus(p) == CASE p = "recvExport" -> "fill"
                    [] p = "recvAddr" -> "sendLen"
                    [] p = "recvLen" -> "recvDone"
                    [] p = "recvDone" -> "save"

HostRecvStatus ==
    /\ pc["host"] \in {"recvExport", "recvAddr", "recvLen", "recvDone"}
    /\ Received("host")
    /\ chan' = Taken("host")
    /\ IF Head(chan["host"]).success THEN Goto("host", AfterStatus(pc["host"]))
                                     ELSE Abort("host")
    /\ UNCHANGED <<cfg, connected, buf, offset, task, file>>

HostRecvError ==
    /\ pc["host"] \in {"recvDir", "recvExport", "recvAddr", "recvLen", "recvDone"}
    /\ RecvMayFail("host")
    /\ Abort("host")
    /\ UNCHANGED <<cfg, chan, connected, buf, offset, task, file>>

(* Mutant of HostFill: the buffer is sent as it was allocated.             *)
MutantNoFill ==
    /\ pc["host"] = "fill"
    /\ Goto("host", "sendAddr")
    /\ UNCHANGED <<cfg, chan, connected, buf, offset, task, file>>

HostFill ==
    /\ pc["host"] = "fill"
    /\ \/ /\ Goto("host", "sendAddr")
          /\ buf' = IF cfg["host"].found
                    THEN [buf EXCEPT !["host"].data = file["host"].data] ELSE buf
       \/ LocalFails /\ cfg["host"].found /\ Abort("host") /\ UNCHANGED buf
    /\ UNCHANGED <<cfg, chan, connected, offset, task, file>>

(* Mutant of HostSendAddr: the length follows without waiting.             *)
MutantNoAddrWait ==
    /\ pc["host"] = "sendAddr"
    /\ SendTo("host", chan, Addr, "sendLen")
    /\ UNCHANGED <<cfg, connected, buf, offset, task, file>>

HostSendAddr ==
    /\ pc["host"] = "sendAddr"
    /\ SendTo("host", chan, Addr, "recvAddr")
    /\ UNCHANGED <<cfg, connected, buf, offset, task, file>>

HostSendLen ==
    /\ pc["host"] = "sendLen"
    /\ SendTo("host", chan, Length(cfg["host"].size), "recvLen")
    /\ UNCHANGED <<cfg, connected, buf, offset, task, file>>

(* save_buffer_into_a_file: its failure leaves what it wrote of the file.  *)
Save(s) == file' = [file EXCEPT ![s] = [len |-> cfg[s].size, data |-> buf[s].data]]
SaveFails(s) == /\ LocalFails
                /\ \E f \in {file[s], [len |-> 0, data |-> "partial"]} :
                     file' = [file EXCEPT ![s] = f]

HostSave ==
    /\ pc["host"] = "save"
    /\ \/ cfg["host"].found /\ Return("host", "ok") /\ UNCHANGED file
       \/ ~cfg["host"].found /\ Save("host") /\ Return("host", "ok")
       \/ ~cfg["host"].found /\ SaveFails("host") /\ Abort("host")
    /\ UNCHANGED <<cfg, chan, connected, buf, offset, task>>

HostStep == \/ HostConnect \/ HostRecvDir \/ HostAlloc \/ HostRecvStatus
            \/ HostRecvError \/ HostFill \/ HostSendAddr \/ HostSendLen \/ HostSave

-----------------------------------------------------------------------------
(* The DPU.                                                                *)

DpuSetup ==
    /\ pc["dpu"] = "setup"
    /\ Goto("dpu", "recvDir") \/ (LocalFails /\ Abort("dpu"))
    /\ UNCHANGED <<cfg, chan, connected, buf, offset, task, file>>

(* The file must be on one side only, and fit the device.                  *)
Agreed(m) == cfg["dpu"].found # m.inHost
AgreedSize(m) == IF cfg["dpu"].found THEN cfg["dpu"].size ELSE m.size

DpuNegotiate ==
    /\ pc["dpu"] = "recvDir"
    /\ Received("dpu")
    /\ LET m == Head(chan["dpu"]) IN
         /\ cfg' = IF m.inHost /\ ~cfg["dpu"].found
                   THEN [cfg EXCEPT !["dpu"].size = m.size] ELSE cfg
         /\ IF Agreed(m) /\ AgreedSize(m) <= MaxBuf
            THEN SendTo("dpu", Taken("dpu"),
                        Dir(~cfg["dpu"].found, IF cfg["dpu"].found THEN cfg["dpu"].size ELSE 0),
                        "alloc")
            ELSE Tell(Taken("dpu"), FALSE) /\ Abort("dpu")
    /\ UNCHANGED <<connected, buf, offset, task, file>>

DpuRecvError ==
    /\ pc["dpu"] \in {"recvDir", "recvExport", "recvAddr", "recvLen"}
    /\ RecvMayFail("dpu")
    /\ Tell(chan, FALSE)
    /\ Abort("dpu")
    /\ UNCHANGED <<cfg, connected, buf, offset, task, file>>

DpuAlloc ==
    /\ pc["dpu"] = "alloc"
    /\ \/ /\ buf' = [buf EXCEPT !["dpu"] = Raw(cfg["dpu"].size)]
          /\ Goto("dpu", "recvExport")
       \/ LocalFails /\ Abort("dpu") /\ UNCHANGED buf
    /\ UNCHANGED <<cfg, chan, connected, offset, task, file>>

DpuRecvExport ==
    /\ pc["dpu"] = "recvExport"
    /\ Received("dpu")
    /\ SendTo("dpu", Taken("dpu"), Status(TRUE), "import")
    /\ UNCHANGED <<cfg, connected, buf, offset, task, file>>

(* doca_mmap_create_from_export: its failure is not told to the host.      *)
DpuImport ==
    /\ pc["dpu"] = "import"
    /\ Goto("dpu", "recvAddr") \/ (LocalFails /\ Abort("dpu"))
    /\ UNCHANGED <<cfg, chan, connected, buf, offset, task, file>>

(* Mutant of DpuRecvAddr: the address is not acknowledged.                 *)
MutantNoAddrAck ==
    /\ pc["dpu"] = "recvAddr"
    /\ Received("dpu")
    /\ chan' = Taken("dpu")
    /\ Goto("dpu", "recvLen")
    /\ UNCHANGED <<cfg, connected, buf, offset, task, file>>

DpuRecvAddr ==
    /\ pc["dpu"] = "recvAddr"
    /\ Received("dpu")
    /\ SendTo("dpu", Taken("dpu"), Status(TRUE), "recvLen")
    /\ UNCHANGED <<cfg, connected, buf, offset, task, file>>

DpuRecvLen ==
    /\ pc["dpu"] = "recvLen"
    /\ Received("dpu")
    /\ offset' = Head(chan["dpu"]).size
    /\ SendTo("dpu", Taken("dpu"), Status(TRUE), "bufs")
    /\ UNCHANGED <<cfg, connected, buf, task, file>>

(* The two doca_buf: a range that leaves its mmap is refused.              *)
DpuBufs ==
    /\ pc["dpu"] = "bufs"
    /\ \/ offset <= buf["dpu"].len /\ Goto("dpu", "fill") /\ UNCHANGED chan
       \/ /\ LocalFails \/ offset > buf["dpu"].len
          /\ Tell(chan, FALSE) /\ Abort("dpu")
    /\ UNCHANGED <<cfg, connected, buf, offset, task, file>>

(* Mutant of DpuFill: its failure is not told to the host.                 *)
MutantQuietFill ==
    /\ pc["dpu"] = "fill"
    /\ \/ /\ Goto("dpu", "submit")
          /\ buf' = IF cfg["dpu"].found
                    THEN [buf EXCEPT !["dpu"].data = file["dpu"].data] ELSE buf
       \/ LocalFails /\ cfg["dpu"].found /\ Abort("dpu") /\ UNCHANGED buf
    /\ UNCHANGED <<cfg, chan, connected, offset, task, file>>

DpuFill ==
    /\ pc["dpu"] = "fill"
    /\ \/ /\ Goto("dpu", "submit") /\ UNCHANGED chan
          /\ buf' = IF cfg["dpu"].found
                    THEN [buf EXCEPT !["dpu"].data = file["dpu"].data] ELSE buf
       \/ /\ LocalFails /\ cfg["dpu"].found
          /\ Tell(chan, FALSE) /\ Abort("dpu") /\ UNCHANGED buf
    /\ UNCHANGED <<cfg, connected, offset, task, file>>

DpuSubmit ==
    /\ pc["dpu"] = "submit"
    /\ \/ task' = "inflight" /\ Goto("dpu", "dma") /\ UNCHANGED chan
       \/ LocalFails /\ Tell(chan, FALSE) /\ Abort("dpu") /\ UNCHANGED task
    /\ UNCHANGED <<cfg, connected, buf, offset, file>>

(* The device copies, doca_pe_progress calls the completion or the error   *)
(* callback, and the wait of dpu_submit_dma_task ends.                     *)
CopySrc == IF cfg["dpu"].found THEN "dpu" ELSE "host"
CopyDst == Peer(CopySrc)

DpuDma ==
    /\ pc["dpu"] = "dma"
    /\ task = "inflight"
    /\ \/ /\ buf' = IF buf[CopyDst] = NoBuf THEN buf
                    ELSE [buf EXCEPT ![CopyDst].data = buf[CopySrc].data]
          /\ task' = "held" /\ Goto("dpu", "save") /\ UNCHANGED chan
       \/ /\ LocalFails
          /\ task' = "none" /\ Tell(chan, FALSE) /\ Abort("dpu") /\ UNCHANGED buf
    /\ UNCHANGED <<cfg, connected, offset, file>>

(* The rest of dpu_submit_dma_task.  When the save fails it returns before *)
(* doca_task_free.                                                         *)
DpuSave ==
    /\ pc["dpu"] = "save"
    /\ \/ /\ IF cfg["dpu"].found THEN UNCHANGED file ELSE Save("dpu")
          /\ task' = "none" /\ Goto("dpu", "reply") /\ UNCHANGED chan
       \/ /\ ~cfg["dpu"].found /\ SaveFails("dpu")
          /\ Tell(chan, FALSE) /\ Abort("dpu") /\ UNCHANGED task
    /\ UNCHANGED <<cfg, connected, buf, offset>>

DpuReply ==
    /\ pc["dpu"] = "reply"
    /\ Tell(chan, TRUE)
    /\ Return("dpu", "ok")
    /\ UNCHANGED <<cfg, connected, buf, offset, task, file>>

DpuStep == \/ DpuSetup \/ DpuNegotiate \/ DpuRecvError \/ DpuAlloc \/ DpuRecvExport
           \/ DpuImport \/ DpuRecvAddr \/ DpuRecvLen \/ DpuBufs \/ DpuFill
           \/ DpuSubmit \/ DpuDma \/ DpuSave \/ DpuReply

-----------------------------------------------------------------------------
(* Both.                                                                   *)

(* The labels after free_buffer: a cleanup call that fails turns success   *)
(* into an error.                                                          *)
Cleanup(s) ==
    /\ pc[s] = "cleanup"
    /\ pc' = [pc EXCEPT ![s] = "destroyCc"]
    /\ buf' = [buf EXCEPT ![s] = NoBuf]
    /\ \/ UNCHANGED result
       \/ LocalFails /\ result' = [result EXCEPT ![s] = "err"]
    /\ UNCHANGED <<cfg, chan, connected, offset, task, file>>

(* What destroy_cc returns is only logged.                                 *)
DestroyCc(s) ==
    /\ pc[s] = "destroyCc"
    /\ pc' = [pc EXCEPT ![s] = "end"]
    /\ UNCHANGED <<cfg, chan, connected, buf, offset, task, file, result>>

HostNext == (HostStep \/ Cleanup("host") \/ DestroyCc("host")) /\ UNCHANGED env
DpuNext == (DpuStep \/ Cleanup("dpu") \/ DestroyCc("dpu")) /\ UNCHANGED env

DmaNext == HostNext \/ DpuNext

DmaSpec == DmaInit /\ [][DmaNext]_dmaVars

(* A program polls in these places; it need not go on before a message or  *)
(* the end of its peer is there, and no other failure is bound to happen.  *)
Polling == {"recvDir", "recvExport", "recvAddr", "recvLen", "recvDone"}
MustRun(s) == pc[s] \in Polling => Received(s) \/ PeerGone(s)

(* Each program runs on, and the device completes what was submitted.      *)
FairDmaSpec == /\ DmaSpec
               /\ WF_dmaVars(MustRun("host") /\ HostNext)
               /\ WF_dmaVars(MustRun("dpu") /\ DpuNext)

-----------------------------------------------------------------------------
(* Properties.                                                             *)

HostPlaces == {"connect", "recvDir", "alloc", "recvExport", "fill", "sendAddr",
               "recvAddr", "sendLen", "recvLen", "recvDone", "save"}
DpuPlaces == {"setup", "recvDir", "alloc", "recvExport", "import", "recvAddr",
              "recvLen", "bufs", "fill", "submit", "dma", "save", "reply"}
LastPlaces == {"cleanup", "destroyCc", "end"}
Contents == [len : Nat, data : {"none", "raw", "src", "partial"}]

(* Type invariant of the two programs: besides the ranges, a program has a *)
(* result exactly when it left the copy for its cleanup labels.            *)
DmaTypeOK ==
    /\ pc["host"] \in HostPlaces \cup LastPlaces
    /\ pc["dpu"] \in DpuPlaces \cup LastPlaces
    /\ cfg \in [Sides -> [found : BOOLEAN, size : Nat]]
    /\ connected \in BOOLEAN
    /\ buf \in [Sides -> Contents] /\ file \in [Sides -> Contents]
    /\ offset \in Nat
    /\ task \in {"none", "inflight", "held"}
    /\ \A s \in Sides : (result[s] # "none") <=> (pc[s] \in LastPlaces)

(* While the device works on the DMA task, the host still has the buffer   *)
(* it exported: host_start_dma_copy is to "wait until DPU is done".        *)
HostBufferKept == task = "inflight" => buf["host"] # NoBuf

(* While the device works on the DMA task and no Comm Channel call fails,  *)
(* both programs have their buffers, of the agreed size, and the source    *)
(* buffer holds the file: host_start_dma_copy fills before it sends the    *)
(* address and frees only after the final status.                          *)
DmaOverLiveBuffers ==
    task = "inflight" /\ ~ChannelFails =>
        /\ HostBufferKept
        /\ buf["dpu"] # NoBuf
        /\ \A s \in Sides : buf[s].len = offset
        /\ buf[CopySrc].data = "src"
        /\ cfg["host"].found # cfg["dpu"].found

(* The host reports success only when both sides have the same whole file, *)
(* whatever fails on the way: the final status follows the DMA, and the    *)
(* DPU's save where the DPU has one.                                       *)
HostFaithful ==
    result["host"] = "ok" => file["host"] = file["dpu"] /\ file["host"].data = "src"

(* As long as no Comm Channel call fails, the DPU reports success only     *)
(* when it saved the host's file, or when the device wrote the DPU's file  *)
(* into the host's buffer.                                                 *)
DpuFaithful ==
    result["dpu"] = "ok" /\ ~ChannelFails =>
        IF cfg["dpu"].found THEN buf["host"] = NoBuf \/ buf["host"].data = "src"
                            ELSE file["dpu"] = file["host"]

(* The programs stay in step: what waits for a program is what its next    *)
(* receive expects, the DPU never has two messages waiting, and the host   *)
(* never more than the last acknowledgement and the final status, far      *)
(* below CC_MAX_QUEUE_SIZE, as long as no Comm Channel call fails.         *)
Expected(s) ==
    CASE pc[s] = "recvDir" -> {"dir"} \cup (IF s = "host" THEN {"status"} ELSE {})
      [] s = "host" /\ pc[s] \in {"recvExport", "recvAddr", "recvLen", "recvDone"} -> {"status"}
      [] s = "dpu" /\ pc[s] = "recvExport" -> {"export"}
      [] s = "dpu" /\ pc[s] = "recvAddr" -> {"addr"}
      [] s = "dpu" /\ pc[s] = "recvLen" -> {"len"}
      [] OTHER -> {"dir", "status", "export", "addr", "len"}

InStep == ~ChannelFails =>
    /\ \A s \in Sides : chan[s] # <<>> => Head(chan[s]).type \in Expected(s)
    /\ Len(chan["dpu"]) <= 1
    /\ Len(chan["host"]) <= IF pc["host"] = "recvLen" \/ result["host"] = "err" THEN 2 ELSE 1

(* Once the DPU has the buffer's address and length, every way it may fail *)
(* tells the host, so the host always ends if no Comm Channel call fails,  *)
(* although it would not learn of a DPU that just ended.                   *)
Copying == {"bufs", "fill", "submit", "dma", "save", "reply"}
HostTold == ~ChannelFails /\ pc["dpu"] \in Copying ~> pc["host"] = "end"

(* Whatever fails on either side, the host ends, and so does the DPU once  *)
(* a host connected (without one it listens for ever), provided a receive  *)
(* fails when the peer has ended.                                          *)
BothEnd ==
    /\ ResetSeen ~> pc["host"] = "end"
    /\ ResetSeen /\ connected ~> pc["dpu"] = "end"
=============================================================================
