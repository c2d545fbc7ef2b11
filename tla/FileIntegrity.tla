---------------------------- MODULE FileIntegrity ----------------------------
(***************************************************************************)
(* The file integrity application                                          *)
(* (applications/file_integrity/file_integrity_core.c): a client hashes a  *)
(* file and sends the hash, the number of messages and the file in blocks; *)
(* the server writes what it receives, hashes it block by block, compares  *)
(* the hashes, removes the file when they differ, and sends a finish       *)
(* message.                                                                *)
(*                                                                         *)
(* A file is a sequence of bytes, a byte one of two values.  The device's  *)
(* hash is taken to be free of collisions: the hash of a sequence is the   *)
(* sequence.  A program's step ends at its next Comm Channel call.  The    *)
(* channel is external, FIFO and reliable.  A behaviour runs in one        *)
(* environment, which says what may go wrong in it: "task" (a SHA task     *)
(* fails or is not accepted), "write" (the server's open or write fails),  *)
(* "remove" (it cannot remove a rejected file), "memory" (a calloc of it   *)
(* fails), "change" (another process writes to the client's file, which is *)
(* mapped shared), "stop" (the client ends early).  A wait of the server   *)
(* with a time limit may always run out.                                   *)
(***************************************************************************)
EXTENDS Integers, Sequences

CONSTANTS
    Sizes,     \* the sizes the client's file may have
    MaxMsg,    \* MAX_MSG_SIZE
    MinBlock,  \* the device's partial hash block size
    OldSizes,  \* the sizes of the file already at the server's path
    Envs       \* the environments: what may go wrong in a behaviour

ASSUME FileIntegrityAssumption ==
    /\ Sizes \subseteq Nat \ {0} /\ OldSizes \subseteq Nat
    /\ MaxMsg \in Nat \ {0} /\ MinBlock \in 1 .. MaxMsg
    /\ Envs \subseteq SUBSET {"task", "write", "remove", "memory", "change", "stop"}

VARIABLES
    env,             \* the environment of this behaviour
    cpc, spc,        \* where the client and the server are
    data,            \* the client's file
    hashed,          \* the content the client hashed
    sent,            \* the loop's i in send_file
    toServer, toClient,
    sha,             \* received_sha
    total, count,    \* total_msgs and the loop's i
    disk,            \* the file at the server's path
    written,         \* how much the server wrote to it
    acc,             \* the content the server's hash covers
    hashLen,         \* is there a hash in dst_doca_buf?
    verdict,         \* "none", or the result of the comparison
    cres, sres       \* what the client and the server return

fiVars == <<env, cpc, spc, data, hashed, sent, toServer, toClient, sha, total, count,
            disk, written, acc, hashLen, verdict, cres, sres>>

clientVars == <<cpc, data, hashed, sent, cres>>
serverVars == <<spc, sha, total, count, disk, written, acc, hashLen, verdict, sres>>

Fault(f) == f \in env
MIN(a, b) == IF a < b THEN a ELSE b
Bytes(n) == [i \in 1 .. n |-> 0]

(* A file of n bytes that was at the server's path before.                 *)
OldFile(n) == [i \in 1 .. n |-> 2]

FiInit ==
    /\ env \in Envs
    /\ cpc = "hash" /\ spc = "start"
    /\ \E n \in Sizes : data = Bytes(n)
    /\ hashed = <<>> /\ sent = 0
    /\ toServer = <<>> /\ toClient = <<>>
    /\ sha = <<>> /\ total = 0 /\ count = 0
    /\ \E n \in OldSizes : disk = OldFile(n)
    /\ written = 0 /\ acc = <<>> /\ hashLen = FALSE
    /\ verdict = "none" /\ cres = "none" /\ sres = "none"

-----------------------------------------------------------------------------
(* The client: file_integrity_client and send_file.                        *)

(* The largest multiple of the device's block that fits a message, and the *)
(* number of such blocks that holds the file.                              *)
PartialBlock == MaxMsg - (MaxMsg % MinBlock)

(* Mutant of TotalMsgs: not rounded up.                                    *)
MutantRoundDown(n) == IF n < PartialBlock THEN 1 ELSE n \div PartialBlock

TotalMsgs(n) == 1 + (n - 1) \div PartialBlock

ClientHash ==
    /\ cpc = "hash"
    /\ hashed' = data
    /\ toServer' = Append(toServer, [type |-> "sha", body |-> data])
    /\ cpc' = "total"
    /\ UNCHANGED <<data, sent, toClient, cres, serverVars>>

ClientTotal ==
    /\ cpc = "total"
    /\ toServer' = Append(toServer, [type |-> "total", n |-> TotalMsgs(Len(data))])
    /\ cpc' = "send"
    /\ UNCHANGED <<data, hashed, sent, toClient, cres, serverVars>>

(* One turn of the loop: the next block, or what is left of the file.      *)
ClientSend ==
    /\ cpc = "send"
    /\ LET from == sent * PartialBlock
           to == MIN(Len(data), from + PartialBlock)
       IN toServer' = Append(toServer, [type |-> "data", body |-> SubSeq(data, from + 1, to)])
    /\ sent' = sent + 1
    /\ cpc' = IF sent' = TotalMsgs(Len(data)) THEN "finish" ELSE "send"
    /\ UNCHANGED <<data, hashed, toClient, cres, serverVars>>

ClientFinish ==
    /\ cpc = "finish"
    /\ toClient # <<>>
    /\ toClient' = Tail(toClient)
    /\ cpc' = "end" /\ cres' = "ok"
    /\ UNCHANGED <<data, hashed, sent, toServer, serverVars>>

(* A failing call of the client, or the end of its process.                *)
ClientStop ==
    /\ Fault("stop") /\ cpc # "end"
    /\ cpc' = "end" /\ cres' = "err"
    /\ UNCHANGED <<data, hashed, sent, toServer, toClient, serverVars>>

(* Another process writes to the file the client has mapped (once, to      *)
(* bound the model).                                                       *)
FileChange ==
    /\ Fault("change") /\ cpc \in {"total", "send"} /\ data = hashed
    /\ \E i \in DOMAIN data : data' = [data EXCEPT ![i] = 1]
    /\ UNCHANGED <<cpc, hashed, sent, toServer, toClient, cres, serverVars>>

-----------------------------------------------------------------------------
(* The server: file_integrity_server.                                      *)

Arrived == toServer # <<>>
Msg == Head(toServer)
Take == toServer' = Tail(toServer)

(* The buffer for the client's hash; without it the server ends.           *)
ServerStart ==
    /\ spc = "start"
    /\ \/ spc' = "recvSha" /\ UNCHANGED sres
       \/ Fault("memory") /\ spc' = "end" /\ sres' = "err"
    /\ UNCHANGED <<clientVars, toServer, toClient, sha, total, count, disk, written, acc,
                   hashLen, verdict>>

ServerRecvSha ==
    /\ spc = "recvSha" /\ Arrived /\ Take
    /\ sha' = Msg.body /\ spc' = "recvTotal"
    /\ UNCHANGED <<clientVars, toClient, total, count, disk, written, acc, hashLen,
                   verdict, sres>>

(* The number of messages; then the file is opened without truncating it.  *)
(* The checks of the message's size and of a number below one are left     *)
(* out: what ClientTotal sends passes them.                                *)
ServerRecvTotal ==
    /\ spc = "recvTotal" /\ Arrived /\ Take
    /\ total' = Msg.n
    /\ \/ spc' = (IF Msg.n = 1 THEN "recvOne" ELSE "recvPart") /\ UNCHANGED sres
       \/ Fault("write") /\ spc' = "finish" /\ sres' = "err"
    /\ UNCHANGED <<clientVars, toClient, sha, count, disk, written, acc, hashLen, verdict>>

(* Mutant of ServerTimeout: the loop over the blocks has no time limit.    *)
MutantNoPartTimeout ==
    /\ spc \in {"recvTotal", "recvOne"}
    /\ toServer = <<>>
    /\ spc' = "finish" /\ sres' = "err"
    /\ UNCHANGED <<clientVars, toServer, toClient, sha, total, count, disk, written, acc,
                   hashLen, verdict>>

(* A wait with a time limit runs out.                                      *)
ServerTimeout ==
    /\ spc \in {"recvTotal", "recvOne", "recvPart"}
    /\ toServer = <<>>
    /\ spc' = "finish" /\ sres' = "err"
    /\ UNCHANGED <<clientVars, toServer, toClient, sha, total, count, disk, written, acc,
                   hashLen, verdict>>

(* write() at the file's offset: bytes beyond it stay.                     *)
Overwrite(f, at, s) ==
    [i \in 1 .. (IF at + Len(s) > Len(f) THEN at + Len(s) ELSE Len(f)) |->
        IF i \in at + 1 .. at + Len(s) THEN s[i - at] ELSE f[i]]

Write(s) == disk' = Overwrite(disk, written, s) /\ written' = written + Len(s)

(* A write that fails may have written a part.                             *)
WriteFails(s) ==
    /\ Fault("write")
    /\ \E n \in 0 .. Len(s) - 1 : Write(SubSeq(s, 1, n))
    /\ spc' = "finish" /\ sres' = "err"
    /\ UNCHANGED <<acc, hashLen, count>>

(* One message: write it, and calculate_sha.                               *)
ServerRecvOne ==
    /\ spc = "recvOne" /\ Arrived /\ Take
    /\ \/ /\ Write(Msg.body)
          /\ \/ /\ acc' = Msg.body /\ hashLen' = TRUE
                /\ spc' = "compare" /\ UNCHANGED sres
             \/ /\ Fault("task")
                /\ spc' = "finish" /\ sres' = "err" /\ UNCHANGED <<acc, hashLen>>
          /\ UNCHANGED count
       \/ WriteFails(Msg.body)
    /\ UNCHANGED <<clientVars, toClient, sha, total, verdict>>

(* Mutant of ServerRecvPart: the task is submitted and not waited for, so  *)
(* the comparison may come before the hash is in dst_doca_buf.             *)
MutantUnawaited ==
    /\ spc = "recvPart" /\ Arrived /\ Take
    /\ Write(Msg.body)
    /\ acc' = acc \o Msg.body
    /\ count' = count + 1
    /\ hashLen' \in {FALSE, count' = total}
    /\ spc' = IF count' = total THEN "compare" ELSE "recvPart"
    /\ UNCHANGED <<clientVars, toClient, sha, total, verdict, sres>>

(* One turn of receive_and_calculate_partial_sha: write, submit the        *)
(* partial hash task and wait for it.  A task that fails ends the loop     *)
(* with the result of doca_task_submit, which is DOCA_SUCCESS; one that is *)
(* not accepted ends it with an error.  The hash is in dst_doca_buf after  *)
(* the task marked final.                                                  *)
ServerRecvPart ==
    /\ spc = "recvPart" /\ Arrived /\ Take
    /\ \/ /\ Write(Msg.body)
          /\ \/ /\ acc' = acc \o Msg.body
                /\ count' = count + 1
                /\ hashLen' = (count' = total)
                /\ spc' = IF count' = total THEN "compare" ELSE "recvPart"
                /\ UNCHANGED sres
             \/ /\ Fault("task")
                /\ \/ spc' = "compare" /\ UNCHANGED sres
                   \/ spc' = "finish" /\ sres' = "err"
                /\ UNCHANGED <<acc, count, hashLen>>
       \/ WriteFails(Msg.body)
    /\ UNCHANGED <<clientVars, toClient, sha, total, verdict>>

(* memcmp over the length of the calculated hash: it finds no difference   *)
(* when there is no hash.  A file that differs is removed; when that fails *)
(* it stays, and the server goes on.  A failing calloc returns at once.    *)
ServerCompare ==
    /\ spc = "compare"
    /\ \/ /\ hashLen => acc = sha
          /\ verdict' = "same"
          /\ sres' = "ok" /\ spc' = "finish" /\ UNCHANGED disk
       \/ /\ hashLen /\ acc # sha
          /\ verdict' = "differs"
          /\ disk' = <<>> \/ (Fault("remove") /\ UNCHANGED disk)
          /\ sres' = "ok" /\ spc' = "finish"
       \/ Fault("memory") /\ sres' = "err" /\ spc' = "end" /\ UNCHANGED <<verdict, disk>>
    /\ UNCHANGED <<clientVars, toServer, toClient, sha, total, count, written, acc, hashLen>>

(* Mutant of ServerFinish: only a server that succeeded tells the client.  *)
MutantQuietFinish ==
    /\ spc = "finish"
    /\ toClient' = IF sres = "ok" THEN Append(toClient, "finish") ELSE toClient
    /\ spc' = "end"
    /\ UNCHANGED <<clientVars, toServer, sha, total, count, disk, written, acc, hashLen,
                   verdict, sres>>

ServerFinish ==
    /\ spc = "finish"
    /\ toClient' = Append(toClient, "finish")
    /\ spc' = "end"
    /\ UNCHANGED <<clientVars, toServer, sha, total, count, disk, written, acc, hashLen,
                   verdict, sres>>

-----------------------------------------------------------------------------

Client == (ClientHash \/ ClientTotal \/ ClientSend \/ ClientFinish) /\ UNCHANGED env
Server == /\ \/ ServerStart \/ ServerRecvSha \/ ServerRecvTotal \/ ServerTimeout
             \/ ServerRecvOne \/ ServerRecvPart \/ ServerCompare \/ ServerFinish
          /\ UNCHANGED env
Outside == (ClientStop \/ FileChange) /\ UNCHANGED env

FiNext == Client \/ Server \/ Outside

FiSpec == FiInit /\ [][FiNext]_fiVars

(* Both programs run on; a wait with a time limit ends.                    *)
FairFiSpec == FiSpec /\ WF_fiVars(Client) /\ WF_fiVars(Server)

-----------------------------------------------------------------------------
(* Properties.                                                             *)

(* Type invariant; the server has a result once it stopped receiving, and  *)
(* success is returned only after a comparison.                            *)
FiTypeOK ==
    /\ cpc \in {"hash", "total", "send", "finish", "end"}
    /\ spc \in {"start", "recvSha", "recvTotal", "recvOne", "recvPart", "compare", "finish", "end"}
    /\ sent \in 0 .. TotalMsgs(Len(data)) /\ written \in 0 .. Len(data)
    /\ count \in 0 .. total
    /\ verdict \in {"none", "same", "differs"}
    /\ {cres, sres} \subseteq {"none", "ok", "err"}
    /\ sres = "none" <=> spc \notin {"finish", "end"}
    /\ sres = "ok" => verdict # "none"

(* The server says "file SHA is identical to received SHA" only when it    *)
(* has calculated a hash of what it received.                              *)
HashCompared == verdict = "same" => hashLen

(* As long as no SHA task fails, the server says so only when the content  *)
(* the client hashed is on its disk, byte by byte, written over the file   *)
(* that was there before: it is opened without O_TRUNC, so what a longer   *)
(* one has beyond that content, and nothing else, stays behind it.         *)
VerdictSound ==
    verdict = "same" /\ ~Fault("task") =>
        \E n \in OldSizes : disk = Overwrite(OldFile(n), 0, hashed)

(* The server rejects a file only when it changed after the client hashed  *)
(* it: splitting it into blocks and hashing these one by one loses         *)
(* nothing, whatever the sizes of the file and of the blocks.              *)
RejectsOnlyChanges == verdict = "differs" => data # hashed

(* Whatever goes wrong after it has the hash, short of its memory, the     *)
(* server tells the client, so a client that sent its file ends.           *)
ClientEnds == ~Fault("memory") ~> cpc = "end"

(* A client that stops in the middle does not keep the server: the waits   *)
(* after the hash have a time limit.                                       *)
ServerEnds == spc = "recvTotal" ~> spc = "end"
=============================================================================
