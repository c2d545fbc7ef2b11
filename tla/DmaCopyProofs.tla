--------------------------- MODULE DmaCopyProofs ---------------------------
(***************************************************************************)
(* Proofs about DmaCopy, for files and device limits of any size and every *)
(* environment: the host reports success only when both sides have the     *)
(* file, whatever fails, and without failing Comm Channel calls the device *)
(* works on live and filled buffers.                                       *)
(***************************************************************************)
EXTENDS DmaCopy, SequenceTheorems, TLAPS

(* Short channels, and the messages the DPU sends.                         *)
None == <<>>
One(m) == <<m>>
Two(m, n) == <<m, n>>
Good == Status(TRUE)
Bad == Status(FALSE)
Answer == Dir(~cfg["dpu"].found, IF cfg["dpu"].found THEN cfg["dpu"].size ELSE 0)
Offer == Dir(cfg["host"].found, cfg["host"].size)

ToHost == chan["host"]
ToDpu == chan["dpu"]
Host == pc["host"]
Dpu == pc["dpu"]
Dead(s) == pc[s] \in LastPlaces

(* What can be on its way from a DPU that gave up after it sent q.         *)
Last(q) == ToHost \in {None, One(Bad)} \cup q

(* The types; DmaTypeOK leaves the domains of three functions open.        *)
Fields ==
  /\ DOMAIN pc = Sides /\ DOMAIN chan = Sides /\ DOMAIN result = Sides
  /\ Host \in HostPlaces \cup LastPlaces /\ Dpu \in DpuPlaces \cup LastPlaces
  /\ cfg \in [Sides -> [found : BOOLEAN, size : Nat]]
  /\ connected \in BOOLEAN /\ offset \in Nat
  /\ buf \in [Sides -> Contents] /\ file \in [Sides -> Contents]
  /\ task \in {"none", "inflight", "held"}

Results ==
  /\ (result["host"] # "none") <=> Dead("host")
  /\ (result["dpu"] # "none") <=> Dead("dpu")
  /\ task = "inflight" => Dpu = "dma"
  /\ result["host"] = "ok" => Dead("dpu")

(* A side that had the file at the start still has it.                     *)
Sources ==
  \A s \in Sides : cfg[s].found => file[s] = [len |-> cfg[s].size, data |-> "src"]

(* The negotiation has found one source and one size.                      *)
OneSource == cfg["host"].found # cfg["dpu"].found
Agree == OneSource /\ cfg["host"].size = cfg["dpu"].size

(* The file is where it is to be, up to the save of the host.              *)
Copied == IF cfg["dpu"].found
          THEN buf["host"] = [len |-> cfg["host"].size, data |-> "src"]
          ELSE file["dpu"] = file["host"]

(* What the DPU finds at each of its places, also from a host that has     *)
(* given up since.                                                         *)
Inbox ==
  /\ Dpu = "setup" => ToDpu = None
  /\ Dpu = "recvDir" => ToDpu \in {None, One(Offer)}
  /\ Dpu \in {"alloc", "recvExport"} => ToDpu \in {None, One(Export)}
  /\ Dpu \in {"import", "recvAddr"} => ToDpu \in {None, One(Addr)}
  /\ Dpu = "recvLen" => ToDpu \in {None, One(Length(cfg["host"].size))}
  /\ Dpu \in Copying => ToDpu = None

(* For each place of the host, where the DPU may be and what is between    *)
(* them.                                                                   *)
Before ==
  /\ Host = "connect" =>
       /\ Dpu \in {"setup", "recvDir"} \cup LastPlaces
       /\ ToDpu = None
       /\ IF Dead("dpu") THEN Last({}) ELSE ToHost = None
  /\ Host = "recvDir" =>
       \/ Dpu = "recvDir" /\ ToDpu = One(Offer) /\ ToHost = None
       \/ Dpu \in {"alloc", "recvExport"} /\ ToDpu = None /\ ToHost = One(Answer)
       \/ Dead("dpu") /\ Last({One(Answer), Two(Answer, Bad)})
  /\ Host = "alloc" =>
       \/ Dpu \in {"alloc", "recvExport"} /\ ToDpu = None /\ ToHost = None
       \/ Dead("dpu") /\ Last({})

Exchange ==
  /\ Host = "recvExport" =>
       \/ Dpu \in {"alloc", "recvExport"} /\ ToDpu = One(Export) /\ ToHost = None
       \/ Dpu \in {"import", "recvAddr"} /\ ToDpu = None /\ ToHost = One(Good)
       \/ Dead("dpu") /\ Last({One(Good), Two(Good, Bad)})
  /\ Host \in {"fill", "sendAddr"} =>
       \/ Dpu \in {"import", "recvAddr"} /\ ToDpu = None /\ ToHost = None
       \/ Dead("dpu") /\ Last({})
  /\ Host = "recvAddr" =>
       \/ Dpu \in {"import", "recvAddr"} /\ ToDpu = One(Addr) /\ ToHost = None
       \/ Dpu = "recvLen" /\ ToDpu = None /\ ToHost = One(Good)
       \/ Dead("dpu") /\ Last({One(Good), Two(Good, Bad)})
  /\ Host = "sendLen" =>
       \/ Dpu = "recvLen" /\ ToDpu = None /\ ToHost = None
       \/ Dead("dpu") /\ Last({})

During ==
  /\ Host = "recvLen" =>
       \/ Dpu = "recvLen" /\ ToDpu = One(Length(cfg["host"].size)) /\ ToHost = None
       \/ Dpu \in Copying /\ ToDpu = None /\ ToHost = One(Good)
       \/ Dead("dpu") /\ Last({One(Good), Two(Good, Bad)})
       \/ Dead("dpu") /\ Copied /\ ToHost = Two(Good, Good)
  /\ Host = "recvDone" =>
       \/ Dpu \in Copying /\ ToDpu = None /\ ToHost = None
       \/ Dead("dpu") /\ Last({})
       \/ Dead("dpu") /\ Copied /\ ToHost = One(Good)
  /\ Host = "save" => Dead("dpu") /\ Copied

(* What the negotiation settled.                                           *)
Settled ==
  /\ Host = "recvDir" /\ (Dpu \in {"alloc", "recvExport"} \/
                            ToHost \in {One(Answer), Two(Answer, Bad)}) =>
       OneSource /\ (cfg["host"].found => Agree)
  /\ Host \in HostPlaces \ {"connect", "recvDir"} => Agree

(* What is in the buffers, as long as the host has not given up.           *)
HostBuffer ==
  /\ Host \in {"recvExport", "fill"} => buf["host"] = Raw(cfg["host"].size)
  /\ Host \in {"sendAddr", "recvAddr", "sendLen", "recvLen", "recvDone", "save"} =>
       /\ buf["host"].len = cfg["host"].size /\ buf["host"] # NoBuf
       /\ cfg["host"].found => buf["host"].data = "src"

DpuBuffer ==
  /\ Dpu \in {"recvExport", "import", "recvAddr", "recvLen", "bufs", "fill"} =>
       buf["dpu"] = Raw(cfg["dpu"].size)
  /\ Dpu \in {"submit", "dma"} =>
       /\ buf["dpu"].len = cfg["dpu"].size /\ buf["dpu"] # NoBuf
       /\ cfg["dpu"].found => buf["dpu"].data = "src"
  /\ Dpu \in Copying /\ ~Dead("host") => offset = cfg["host"].size
  /\ Dpu = "save" /\ ~Dead("host") =>
       \A s \in Sides : buf[s] = [len |-> cfg["host"].size, data |-> "src"]
  /\ Dpu = "reply" /\ ~Dead("host") => Copied

(* A host that gave up, or was done, without a failing Comm Channel call,  *)
(* left nothing behind that the DPU waits for.                             *)
HostGone ==
  /\ Dpu \in Copying \/ result["dpu"] = "ok" =>
       Host \in {"recvLen", "recvDone", "save"} \cup LastPlaces
  /\ Dead("host") /\ ~ChannelFails /\ ~Dead("dpu") =>
       ToDpu = None /\ Dpu \notin Copying

DmaInv == /\ Fields /\ Results /\ Sources /\ Inbox /\ Before /\ Exchange /\ During /\ Settled
          /\ HostBuffer /\ DpuBuffer /\ HostGone /\ HostFaithful /\ DpuFaithful

-----------------------------------------------------------------------------
(* A message after another one makes two.                                  *)
LEMMA AppendOne == \A m, n : Append(One(m), n) = Two(m, n)
<1> SUFFICES ASSUME NEW m, NEW n PROVE Append(One(m), n) = Two(m, n)
  OBVIOUS
<1> DEFINE S == {m, n}
           s == Append(One(m), n)
           t == Two(m, n)
<1>0. <<m>> \in Seq(S) /\ n \in S
  OBVIOUS
<1>1. Append(<<m>>, n) \in Seq(S)
  <2> HIDE DEF S
  <2> QED BY <1>0, AppendProperties
<1>2. s \in Seq(S) /\ Len(s) = 2 /\ s[1] = m /\ s[2] = n
  <2>1. s \in Seq(S) /\ Len(s) = 2
    BY <1>1 DEF One
  <2>2. s[1] = m /\ s[2] = n
    BY DEF One
  <2> QED BY <2>1, <2>2
<1>3. t \in Seq(S) /\ Len(t) = 2 /\ t[1] = m /\ t[2] = n
  BY DEF Two
<1>4. \A i \in 1..2 : s[i] = t[i]
  BY <1>2, <1>3
<1> HIDE DEF s, t
<1>5. s = t
  BY <1>2, <1>3, <1>4, SeqEqual
<1> QED BY <1>5 DEF s, t

(* A message after none is one.                                            *)
LEMMA AppendNone == \A m : Append(None, m) = One(m)
  BY DEF None, One

(* The two ends of short channels.                                         *)
LEMMA Channels ==
  /\ \A m : /\ Append(None, m) = One(m) /\ One(m) # None
           /\ Head(One(m)) = m /\ Tail(One(m)) = None
  /\ \A m, n : /\ Append(One(m), n) = Two(m, n) /\ Two(m, n) # None
              /\ Head(Two(m, n)) = m /\ Tail(Two(m, n)) = One(n)
              /\ One(m) = One(n) => m = n
  /\ \A k, m, n : One(k) # Two(m, n)
  /\ \A j, k, m, n : Two(j, k) = Two(m, n) => j = m /\ k = n
<1>1. \A m : /\ Append(None, m) = One(m) /\ One(m) # None
             /\ Head(One(m)) = m /\ Tail(One(m)) = None
  BY DEF None, One
<1>2. \A m, n : Append(One(m), n) = Two(m, n)
  BY AppendOne
<1>3. \A m, n : /\ Two(m, n) # None
                /\ Head(Two(m, n)) = m /\ Tail(Two(m, n)) = One(n)
  BY DEF None, One, Two
<1>4. \A m, n : One(m) = One(n) => m = n
  BY DEF One
<1>5. \A k, m, n : One(k) # Two(m, n)
  <2> SUFFICES ASSUME NEW k, NEW m, NEW n PROVE Len(One(k)) # Len(Two(m, n))
    OBVIOUS
  <2> QED BY DEF One, Two
<1>6. \A j, k, m, n : Two(j, k) = Two(m, n) => j = m /\ k = n
  BY DEF Two
<1> QED BY <1>1, <1>2, <1>3, <1>4, <1>5, <1>6

(* The messages are told apart by their fields.                            *)
LEMMA Messages ==
  /\ Good.success /\ ~Bad.success /\ Good # Bad
  /\ Good.type = "status" /\ Bad.type = "status" /\ Answer.type = "dir"
  /\ Answer # Good /\ Answer # Bad
  /\ Answer.size = IF cfg["dpu"].found THEN cfg["dpu"].size ELSE 0
  /\ Offer.inHost = cfg["host"].found /\ Offer.size = cfg["host"].size
  /\ \A n : Length(n).size = n
<1>1. Good.success /\ ~Bad.success /\ Good.type = "status" /\ Bad.type = "status"
  BY DEF Good, Bad, Status
<1>2. /\ Answer.type = "dir"
      /\ Answer.size = IF cfg["dpu"].found THEN cfg["dpu"].size ELSE 0
      /\ Offer.inHost = cfg["host"].found /\ Offer.size = cfg["host"].size
  BY DEF Answer, Offer, Dir
<1>3. \A n : Length(n).size = n
  BY DEF Length
<1> QED BY <1>1, <1>2, <1>3

(* What the host finds in the channel, piece by piece.                     *)
LEMMA Replies ==
  /\ One(Bad) # None /\ One(Good) # None /\ One(Answer) # None /\ One(Bad) # One(Good)
  /\ Two(Good, Bad) # Two(Good, Good) /\ One(Good) # Two(Good, Good)
  /\ One(Bad) # Two(Good, Good)
  /\ One(Bad) # One(Answer) /\ One(Bad) # Two(Answer, Bad) /\ Two(Answer, Bad) # None
  /\ Head(One(Bad)) = Bad /\ Head(One(Good)) = Good /\ Head(One(Answer)) = Answer
  /\ Head(Two(Good, Bad)) = Good /\ Head(Two(Good, Good)) = Good
  /\ Head(Two(Answer, Bad)) = Answer
  /\ Tail(One(Bad)) = None /\ Tail(One(Good)) = None /\ Tail(One(Answer)) = None
  /\ Tail(Two(Good, Bad)) = One(Bad) /\ Tail(Two(Good, Good)) = One(Good)
  /\ Tail(Two(Answer, Bad)) = One(Bad)
  /\ Append(None, Bad) = One(Bad) /\ Append(None, Good) = One(Good)
  /\ Append(None, Answer) = One(Answer) /\ Append(One(Answer), Bad) = Two(Answer, Bad)
  /\ Append(One(Good), Bad) = Two(Good, Bad) /\ Append(One(Good), Good) = Two(Good, Good)
<1>1. One(Bad) # None /\ One(Good) # None /\ One(Answer) # None /\ Two(Answer, Bad) # None
  BY DEF None, One, Two
<1>2. /\ Two(Good, Bad) # Two(Good, Good) /\ One(Good) # Two(Good, Good)
      /\ One(Bad) # Two(Good, Good)
      /\ One(Bad) # One(Good) /\ One(Bad) # One(Answer) /\ One(Bad) # Two(Answer, Bad)
  BY Channels, Messages
<1>3. /\ Head(One(Bad)) = Bad /\ Head(One(Good)) = Good /\ Head(One(Answer)) = Answer
      /\ Head(Two(Good, Bad)) = Good /\ Head(Two(Good, Good)) = Good
      /\ Head(Two(Answer, Bad)) = Answer
  BY DEF None, One, Two
<1>4. /\ Tail(One(Bad)) = None /\ Tail(One(Good)) = None /\ Tail(One(Answer)) = None
      /\ Tail(Two(Good, Bad)) = One(Bad) /\ Tail(Two(Good, Good)) = One(Good)
      /\ Tail(Two(Answer, Bad)) = One(Bad)
  BY DEF None, One, Two
<1>6. /\ Append(None, Bad) = One(Bad) /\ Append(None, Good) = One(Good)
      /\ Append(None, Answer) = One(Answer)
  BY AppendNone
<1>7. /\ Append(One(Answer), Bad) = Two(Answer, Bad)
      /\ Append(One(Good), Bad) = Two(Good, Bad) /\ Append(One(Good), Good) = Two(Good, Good)
  BY AppendOne
<1> QED BY <1>1, <1>2, <1>3, <1>4, <1>6, <1>7

(* What the steps of the host do to its place, its result and the channel.  *)
LEMMA HostMoves ==
  ASSUME Fields, NEW p, NEW m
  PROVE  /\ Goto("host", p) => /\ Host' = p /\ Dpu' = Dpu /\ result' = result
                             /\ DOMAIN pc' = Sides
         /\ \A r : Return("host", r) =>
              /\ Host' = "cleanup" /\ Dpu' = Dpu /\ DOMAIN pc' = Sides
              /\ result'["host"] = r /\ result'["dpu"] = result["dpu"]
              /\ DOMAIN result' = Sides
         /\ chan' = Taken("host") => /\ ToHost' = Tail(ToHost) /\ ToDpu' = ToDpu
                                  /\ DOMAIN chan' = Sides
         /\ chan' = Sent(chan, "dpu", m) =>
              /\ ToDpu' = Append(ToDpu, m) /\ ToHost' = ToHost /\ DOMAIN chan' = Sides
         /\ chan' = Sent(Taken("host"), "dpu", m) =>
              /\ ToDpu' = Append(ToDpu, m) /\ ToHost' = Tail(ToHost) /\ DOMAIN chan' = Sides
<1> USE DEF Fields, Sides, Host, Dpu, ToHost, ToDpu
<1>1. Goto("host", p) => /\ Host' = p /\ Dpu' = Dpu /\ result' = result
                      /\ DOMAIN pc' = Sides
  BY DEF Goto
<1>2. \A r : Return("host", r) =>
        /\ Host' = "cleanup" /\ Dpu' = Dpu /\ DOMAIN pc' = Sides
        /\ result'["host"] = r /\ result'["dpu"] = result["dpu"]
        /\ DOMAIN result' = Sides
  BY DEF Return
<1>3. chan' = Taken("host") => ToHost' = Tail(ToHost) /\ ToDpu' = ToDpu /\ DOMAIN chan' = Sides
  BY DEF Taken
<1>4. chan' = Sent(chan, "dpu", m) =>
        ToDpu' = Append(ToDpu, m) /\ ToHost' = ToHost /\ DOMAIN chan' = Sides
  BY DEF Sent
<1>5. chan' = Sent(Taken("host"), "dpu", m) =>
        ToDpu' = Append(ToDpu, m) /\ ToHost' = Tail(ToHost) /\ DOMAIN chan' = Sides
  BY DEF Sent, Taken
<1> QED BY <1>1, <1>2, <1>3, <1>4, <1>5

(* What the steps of the DPU do to its place, its result and the channel.  *)
LEMMA DpuMoves ==
  ASSUME Fields, NEW p, NEW m
  PROVE  /\ Goto("dpu", p) => /\ Dpu' = p /\ Host' = Host /\ result' = result
                             /\ DOMAIN pc' = Sides
         /\ \A r : Return("dpu", r) =>
              /\ Dpu' = "cleanup" /\ Host' = Host /\ DOMAIN pc' = Sides
              /\ result'["dpu"] = r /\ result'["host"] = result["host"]
              /\ DOMAIN result' = Sides
         /\ chan' = Taken("dpu") => /\ ToDpu' = Tail(ToDpu) /\ ToHost' = ToHost
                                  /\ DOMAIN chan' = Sides
         /\ chan' = Sent(chan, "host", m) =>
              /\ ToHost' = Append(ToHost, m) /\ ToDpu' = ToDpu /\ DOMAIN chan' = Sides
         /\ chan' = Sent(Taken("dpu"), "host", m) =>
              /\ ToHost' = Append(ToHost, m) /\ ToDpu' = Tail(ToDpu) /\ DOMAIN chan' = Sides
<1> USE DEF Fields, Sides, Host, Dpu, ToHost, ToDpu
<1>1. Goto("dpu", p) => /\ Dpu' = p /\ Host' = Host /\ result' = result
                      /\ DOMAIN pc' = Sides
  BY DEF Goto
<1>2. \A r : Return("dpu", r) =>
        /\ Dpu' = "cleanup" /\ Host' = Host /\ DOMAIN pc' = Sides
        /\ result'["dpu"] = r /\ result'["host"] = result["host"]
        /\ DOMAIN result' = Sides
  BY DEF Return
<1>3. chan' = Taken("dpu") => ToDpu' = Tail(ToDpu) /\ ToHost' = ToHost /\ DOMAIN chan' = Sides
  BY DEF Taken
<1>4. chan' = Sent(chan, "host", m) =>
        ToHost' = Append(ToHost, m) /\ ToDpu' = ToDpu /\ DOMAIN chan' = Sides
  BY DEF Sent
<1>5. chan' = Sent(Taken("dpu"), "host", m) =>
        ToHost' = Append(ToHost, m) /\ ToDpu' = Tail(ToDpu) /\ DOMAIN chan' = Sides
  BY DEF Sent, Taken
<1> QED BY <1>1, <1>2, <1>3, <1>4, <1>5

(* The address follows the acknowledgement of the descriptor.              *)
LEMMA HostSendAddrInv ==
  ASSUME DmaInv, HostSendAddr, UNCHANGED env
  PROVE  DmaInv'
<1> USE DEF Host, Dpu, ToHost, ToDpu, Dead, Last, LastPlaces, HostPlaces, DpuPlaces,
           Copying, ChannelFails
<1>1. Fields /\ Results /\ Sources /\ Inbox /\ Before /\ Exchange
      /\ During /\ Settled /\ HostBuffer /\ DpuBuffer /\ HostGone /\ HostFaithful /\ DpuFaithful
  BY DEF DmaInv
<1>2. /\ DOMAIN pc' = Sides /\ DOMAIN chan' = Sides /\ DOMAIN result' = Sides
      /\ Host = "sendAddr" /\ Dpu' = Dpu /\ ToHost' = ToHost
      /\ \/ /\ Host' = "recvAddr" /\ result' = result
            /\ ToDpu' = Append(ToDpu, Addr)
         \/ /\ Host' = "cleanup" /\ ToDpu' = ToDpu /\ (ChannelFails \/ Dpu = "end")
            /\ result'["host"] = "err" /\ result'["dpu"] = result["dpu"]
      /\ UNCHANGED <<cfg, connected, buf, offset, task, file>>
      /\ Answer' = Answer /\ Offer' = Offer
  BY <1>1, HostMoves, ZenonT(30) DEF Fields, HostSendAddr, SendTo, SendMayFail, Peer, Abort,
     Answer, Offer
<1>3. \/ /\ Dpu \in {"import", "recvAddr"} /\ ToDpu = None /\ ToHost = None
         /\ Append(ToDpu, Addr) = One(Addr)
      \/ Dead("dpu") /\ Last({})
  BY <1>1, <1>2, Channels DEF Exchange
<1>4. Fields'
  BY <1>1, <1>2, <1>3 DEF Fields
<1>5. Results'
  BY <1>1, <1>2, <1>3, Zenon DEF Results
<1>6. Sources'
  BY <1>1, <1>2, <1>3, Zenon DEF Sources
<1>7. Inbox'
  BY <1>1, <1>2, <1>3, Zenon DEF Inbox
<1>8. Before'
  BY <1>1, <1>2, <1>3 DEF Before
<1>9. Exchange'
  BY <1>1, <1>2, <1>3, Zenon DEF Exchange
<1>10. During'
  BY <1>1, <1>2, <1>3, Zenon DEF During
<1>11. Settled'
  BY <1>1, <1>2, <1>3, Zenon DEF Settled, Before, Agree, OneSource, Inbox, Fields
<1>12. HostBuffer'
  BY <1>1, <1>2, <1>3, Zenon DEF HostBuffer
<1>13. DpuBuffer'
  BY <1>1, <1>2, <1>3, Zenon DEF DpuBuffer
<1>14. HostGone'
  BY <1>1, <1>2, <1>3, Zenon DEF HostGone
<1>15. HostFaithful'
  BY <1>1, <1>2, <1>3, Zenon DEF HostFaithful
<1>16. DpuFaithful'
  BY <1>1, <1>2, <1>3 DEF DpuFaithful
<1> QED BY <1>4, <1>5, <1>6, <1>7, <1>8, <1>9, <1>10, <1>11, <1>12,
           <1>13, <1>14, <1>15, <1>16 DEF DmaInv

(* The length follows the acknowledgement of the address.                  *)
LEMMA HostSendLenInv ==
  ASSUME DmaInv, HostSendLen, UNCHANGED env
  PROVE  DmaInv'
<1> USE DEF Host, Dpu, ToHost, ToDpu, Dead, Last, LastPlaces, HostPlaces, DpuPlaces,
           Copying, ChannelFails
<1>1. Fields /\ Results /\ Sources /\ Inbox /\ Before /\ Exchange
      /\ During /\ Settled /\ HostBuffer /\ DpuBuffer /\ HostGone /\ HostFaithful /\ DpuFaithful
  BY DEF DmaInv
<1>2. /\ DOMAIN pc' = Sides /\ DOMAIN chan' = Sides /\ DOMAIN result' = Sides
      /\ Host = "sendLen" /\ Dpu' = Dpu /\ ToHost' = ToHost
      /\ \/ /\ Host' = "recvLen" /\ result' = result
            /\ ToDpu' = Append(ToDpu, Length(cfg["host"].size))
         \/ /\ Host' = "cleanup" /\ ToDpu' = ToDpu /\ (ChannelFails \/ Dpu = "end")
            /\ result'["host"] = "err" /\ result'["dpu"] = result["dpu"]
      /\ UNCHANGED <<cfg, connected, buf, offset, task, file>>
      /\ Answer' = Answer /\ Offer' = Offer
  BY <1>1, HostMoves, ZenonT(30) DEF Fields, HostSendLen, SendTo, SendMayFail, Peer, Abort,
     Answer, Offer
<1>3. \/ /\ Dpu = "recvLen" /\ ToDpu = None /\ ToHost = None
         /\ Append(ToDpu, Length(cfg["host"].size)) = One(Length(cfg["host"].size))
      \/ Dead("dpu") /\ Last({})
  BY <1>1, <1>2, Channels DEF Exchange
<1>4. Fields'
  BY <1>1, <1>2, <1>3, Zenon DEF Fields
<1>5. Results'
  BY <1>1, <1>2, <1>3, Zenon DEF Results
<1>6. Sources'
  BY <1>1, <1>2, <1>3, Zenon DEF Sources
<1>7. Inbox'
  BY <1>1, <1>2, <1>3, Zenon DEF Inbox
<1>8. Before'
  BY <1>1, <1>2, <1>3, Zenon DEF Before
<1>9. Exchange'
  BY <1>1, <1>2, <1>3, Zenon DEF Exchange
<1>10. During'
  BY <1>1, <1>2, <1>3, Zenon DEF During
<1>11. Settled'
  BY <1>1, <1>2, <1>3, Zenon DEF Settled, Before, Agree, OneSource, Inbox, Fields
<1>12. HostBuffer'
  BY <1>1, <1>2, <1>3, Zenon DEF HostBuffer
<1>13. DpuBuffer'
  BY <1>1, <1>2, <1>3, Zenon DEF DpuBuffer
<1>14. HostGone'
  BY <1>1, <1>2, <1>3, Zenon DEF HostGone
<1>15. HostFaithful'
  BY <1>1, <1>2, <1>3, Zenon DEF HostFaithful
<1>16. DpuFaithful'
  BY <1>1, <1>2, <1>3, Zenon DEF DpuFaithful
<1> QED BY <1>4, <1>5, <1>6, <1>7, <1>8, <1>9, <1>10, <1>11, <1>12,
           <1>13, <1>14, <1>15, <1>16 DEF DmaInv

(* The host offers; a DPU that listens has nothing else waiting.           *)
LEMMA HostConnectInv ==
  ASSUME DmaInv, HostConnect, UNCHANGED env
  PROVE  DmaInv'
<1> USE DEF Host, Dpu, ToHost, ToDpu, Dead, Last, LastPlaces, HostPlaces, DpuPlaces,
           Copying, ChannelFails
<1>1. Fields /\ Results /\ Sources /\ Inbox /\ Before /\ Exchange
      /\ During /\ Settled /\ HostBuffer /\ DpuBuffer /\ HostGone /\ HostFaithful /\ DpuFaithful
  BY DEF DmaInv
<1>2. /\ DOMAIN pc' = Sides /\ DOMAIN chan' = Sides /\ DOMAIN result' = Sides
      /\ Host = "connect" /\ Dpu' = Dpu /\ ToHost' = ToHost /\ connected' \in BOOLEAN
      /\ \/ /\ Host' = "recvDir" /\ ToDpu' = Append(ToDpu, Offer) /\ result' = result
            /\ Dpu \notin {"setup", "end"}
         \/ /\ Host' = "cleanup" /\ ToDpu' = ToDpu
            /\ ChannelFails \/ Dpu \in {"setup", "end"}
            /\ result'["host"] = "err" /\ result'["dpu"] = result["dpu"]
      /\ UNCHANGED <<cfg, buf, offset, task, file>>
      /\ Answer' = Answer /\ Offer' = Offer
  BY <1>1, HostMoves, ZenonT(30) DEF Fields, HostConnect, SendTo, SendMayFail, Peer, Abort,
     Answer, Offer
<1>3. /\ ToDpu = None /\ Append(ToDpu, Offer) = One(Offer)
      /\ \/ Dpu \in {"setup", "recvDir"} /\ ToHost = None
         \/ Dead("dpu") /\ Last({})
  BY <1>1, <1>2, Channels DEF Before, Fields
<1>4. Fields'
  BY <1>1, <1>2, <1>3, Zenon DEF Fields
<1>5. Results'
  BY <1>1, <1>2, <1>3, Zenon DEF Results
<1>6. Sources'
  BY <1>1, <1>2, <1>3, Zenon DEF Sources
<1>7. Inbox'
  BY <1>1, <1>2, <1>3 DEF Inbox
<1>8. Before'
  BY <1>1, <1>2, <1>3 DEF Before
<1>9. Exchange'
  BY <1>1, <1>2, <1>3 DEF Exchange
<1>10. During'
  BY <1>1, <1>2, <1>3 DEF During
<1>11. Settled'
  <2>1. ToHost \notin {One(Answer), Two(Answer, Bad)}
    BY <1>3, Replies, Zenon
  <2> QED BY <1>1, <1>2, <1>3, <2>1 DEF Settled, Agree, OneSource
<1>12. HostBuffer'
  BY <1>1, <1>2, <1>3, Zenon DEF HostBuffer
<1>13. DpuBuffer'
  BY <1>1, <1>2, <1>3, Zenon DEF DpuBuffer
<1>14. HostGone'
  BY <1>1, <1>2, <1>3, Zenon DEF HostGone
<1>15. HostFaithful'
  BY <1>1, <1>2, <1>3, Zenon DEF HostFaithful
<1>16. DpuFaithful'
  BY <1>1, <1>2, <1>3 DEF DpuFaithful
<1> QED BY <1>4, <1>5, <1>6, <1>7, <1>8, <1>9, <1>10, <1>11, <1>12,
           <1>13, <1>14, <1>15, <1>16 DEF DmaInv

(* The host exports its buffer, or gives up with nothing sent.             *)
LEMMA HostAllocInv ==
  ASSUME DmaInv, HostAlloc, UNCHANGED env
  PROVE  DmaInv'
<1> USE DEF Host, Dpu, ToHost, ToDpu, Dead, Last, LastPlaces, HostPlaces, DpuPlaces,
           Copying, ChannelFails
<1>1. Fields /\ Results /\ Sources /\ Inbox /\ Before /\ Exchange
      /\ During /\ Settled /\ HostBuffer /\ DpuBuffer /\ HostGone /\ HostFaithful /\ DpuFaithful
  BY DEF DmaInv
<1>2. /\ DOMAIN pc' = Sides /\ DOMAIN chan' = Sides /\ DOMAIN result' = Sides
      /\ Host = "alloc" /\ Dpu' = Dpu /\ ToHost' = ToHost
      /\ \/ /\ Host' = "recvExport" /\ ToDpu' = Append(ToDpu, Export) /\ result' = result
            /\ buf' = [buf EXCEPT !["host"] = Raw(cfg["host"].size)]
         \/ /\ Host' = "cleanup" /\ ToDpu' = ToDpu
            /\ buf' = buf \/ buf' = [buf EXCEPT !["host"] = Raw(cfg["host"].size)]
            /\ result'["host"] = "err" /\ result'["dpu"] = result["dpu"]
      /\ UNCHANGED <<cfg, connected, offset, task, file>>
      /\ Answer' = Answer /\ Offer' = Offer
  BY <1>1, HostMoves, ZenonT(30) DEF Fields, HostAlloc, SendTo, SendMayFail, Peer, Abort,
     Answer, Offer
<1>3. \/ /\ Dpu \in {"alloc", "recvExport"} /\ ToDpu = None /\ ToHost = None
         /\ Append(ToDpu, Export) = One(Export)
      \/ Dead("dpu") /\ Last({})
  BY <1>1, <1>2, Channels DEF Before, Fields
<1>4. Fields'
  BY <1>1, <1>2, <1>3 DEF Fields, Inbox, Contents, Sides, Raw
<1>5. Results'
  BY <1>1, <1>2, <1>3, Zenon DEF Results
<1>6. Sources'
  BY <1>1, <1>2, <1>3, Zenon DEF Sources
<1>7. Inbox'
  BY <1>1, <1>2, <1>3, Zenon DEF Inbox
<1>8. Before'
  BY <1>1, <1>2, <1>3, Zenon DEF Before
<1>9. Exchange'
  BY <1>1, <1>2, <1>3, Zenon DEF Exchange
<1>10. During'
  BY <1>1, <1>2, <1>3, Zenon DEF During
<1>11. Settled'
  BY <1>1, <1>2, <1>3, Zenon DEF Settled, Before, Agree, OneSource, Inbox, Fields
<1>12. HostBuffer'
  BY <1>1, <1>2, <1>3, Zenon DEF HostBuffer, Raw, NoBuf, Sides, Fields
<1>13. DpuBuffer'
  BY <1>1, <1>2, <1>3, ZenonT(40) DEF DpuBuffer, Raw, NoBuf, Copied, Sides, Fields, Results
<1>14. HostGone'
  BY <1>1, <1>2, <1>3, Zenon DEF HostGone
<1>15. HostFaithful'
  BY <1>1, <1>2, <1>3, Zenon DEF HostFaithful
<1>16. DpuFaithful'
  BY <1>1, <1>2, <1>3 DEF DpuFaithful, Results, HostGone, Fields
<1> QED BY <1>4, <1>5, <1>6, <1>7, <1>8, <1>9, <1>10, <1>11, <1>12,
           <1>13, <1>14, <1>15, <1>16 DEF DmaInv

(* The host gives up; without a failing call the DPU had ended.            *)
LEMMA HostRecvErrorInv ==
  ASSUME DmaInv, HostRecvError, UNCHANGED env
  PROVE  DmaInv'
<1> USE DEF Host, Dpu, ToHost, ToDpu, Dead, Last, LastPlaces, HostPlaces, DpuPlaces,
           Copying, ChannelFails
<1>1. Fields /\ Results /\ Sources /\ Inbox /\ Before /\ Exchange
      /\ During /\ Settled /\ HostBuffer /\ DpuBuffer /\ HostGone /\ HostFaithful /\ DpuFaithful
  BY DEF DmaInv
<1>2. /\ DOMAIN pc' = Sides /\ DOMAIN chan' = Sides /\ DOMAIN result' = Sides
      /\ Host \in {"recvDir", "recvExport", "recvAddr", "recvLen", "recvDone"}
      /\ Dpu' = Dpu /\ Host' = "cleanup" /\ ToHost' = ToHost /\ ToDpu' = ToDpu
      /\ ChannelFails \/ (Dpu = "end" /\ ToHost = <<>>)
      /\ result'["host"] = "err" /\ result'["dpu"] = result["dpu"]
      /\ UNCHANGED <<cfg, connected, buf, offset, task, file>>
      /\ Answer' = Answer /\ Offer' = Offer
  BY <1>1, HostMoves, ZenonT(30) DEF Fields, HostRecvError, RecvMayFail, PeerGone, Peer, Abort,
     Answer, Offer
<1>3. Fields'
  BY <1>1, <1>2, Zenon DEF Fields
<1>4. Results'
  BY <1>1, <1>2, Zenon DEF Results
<1>5. Sources'
  BY <1>1, <1>2, Zenon DEF Sources
<1>6. Inbox'
  BY <1>1, <1>2, Zenon DEF Inbox
<1>7. Before'
  BY <1>1, <1>2, Zenon DEF Before
<1>8. Exchange'
  BY <1>1, <1>2, Zenon DEF Exchange
<1>9. During'
  BY <1>1, <1>2, Zenon DEF During
<1>10. Settled'
  BY <1>1, <1>2, Zenon DEF Settled
<1>11. HostBuffer'
  BY <1>1, <1>2, Zenon DEF HostBuffer
<1>12. DpuBuffer'
  BY <1>1, <1>2, Zenon DEF DpuBuffer
<1>13. HostGone'
  BY <1>1, <1>2, Zenon DEF HostGone
<1>14. HostFaithful'
  BY <1>1, <1>2, Zenon DEF HostFaithful
<1>15. DpuFaithful'
  BY <1>1, <1>2, Zenon DEF DpuFaithful
<1> QED BY <1>3, <1>4, <1>5, <1>6, <1>7, <1>8, <1>9, <1>10, <1>11,
           <1>12, <1>13, <1>14, <1>15 DEF DmaInv

(* The answer is the DPU's direction, and both have one size after it.     *)
LEMMA HostRecvDirInv ==
  ASSUME DmaInv, HostRecvDir, UNCHANGED env
  PROVE  DmaInv'
<1> USE DEF Host, Dpu, ToHost, ToDpu, Dead, Last, LastPlaces, HostPlaces, DpuPlaces,
           Copying, ChannelFails
<1>1. Fields /\ Results /\ Sources /\ Inbox /\ Before /\ Exchange
      /\ During /\ Settled /\ HostBuffer /\ DpuBuffer /\ HostGone /\ HostFaithful /\ DpuFaithful
  BY DEF DmaInv
<1>2. /\ DOMAIN pc' = Sides /\ DOMAIN chan' = Sides /\ DOMAIN result' = Sides
      /\ Host = "recvDir" /\ Dpu' = Dpu /\ ToDpu' = ToDpu
      /\ ToHost # <<>> /\ ToHost' = Tail(ToHost)
      /\ \/ /\ Head(ToHost).type # "dir" /\ Host' = "cleanup" /\ cfg' = cfg
            /\ result'["host"] = "err" /\ result'["dpu"] = result["dpu"]
         \/ /\ Head(ToHost).type = "dir" /\ Host' = "alloc" /\ result' = result
            /\ cfg' = IF cfg["host"].found THEN cfg
                      ELSE [cfg EXCEPT !["host"].size = Head(ToHost).size]
      /\ UNCHANGED <<connected, buf, offset, task, file>>
  BY <1>1, HostMoves, ZenonT(30) DEF Fields, HostRecvDir, Received, Abort
<1>3. /\ Dpu \notin {"setup", "recvDir"} /\ Answer' = Answer
      /\ \/ /\ Dpu \in {"alloc", "recvExport"} /\ ToDpu = None /\ ToHost = One(Answer)
            /\ ToHost' = None /\ Host' = "alloc"
         \/ /\ Dead("dpu") /\ ToHost \in {One(Answer), Two(Answer, Bad)}
            /\ ToHost' \in {None, One(Bad)} /\ Host' = "alloc"
         \/ Dead("dpu") /\ ToHost' = None /\ Host' = "cleanup" /\ cfg' = cfg
      /\ Host' = "alloc" => /\ OneSource /\ Agree'
                            /\ cfg' \in [Sides -> [found : BOOLEAN, size : Nat]]
                            /\ cfg'["host"].found = cfg["host"].found
                            /\ cfg'["dpu"] = cfg["dpu"]
                            /\ cfg["host"].found => cfg' = cfg
  <2>0. /\ ToHost \in {One(Answer), Two(Answer, Bad)} => Head(ToHost) = Answer
        /\ ToHost = One(Bad) => Head(ToHost) = Bad
        /\ Answer.type = "dir" /\ Bad.type # "dir"
    BY Replies, Messages
  <2>1. \/ Dpu \in {"alloc", "recvExport"} /\ ToDpu = None /\ ToHost = One(Answer)
        \/ Dead("dpu") /\ ToHost \in {One(Answer), Two(Answer, Bad), One(Bad)}
    BY <1>1, <1>2 DEF Before, None
  <2>2. \/ /\ ToHost \in {One(Answer), Two(Answer, Bad)}
           /\ Host' = "alloc" /\ result' = result
           /\ cfg' = IF cfg["host"].found THEN cfg
                     ELSE [cfg EXCEPT !["host"].size = Answer.size]
        \/ ToHost = One(Bad) /\ Host' = "cleanup" /\ cfg' = cfg
    <3>1. CASE ToHost \in {One(Answer), Two(Answer, Bad)}
      <4>1. Head(ToHost) = Answer
        BY <2>0, <3>1
      <4> QED BY <1>2, <2>0, <3>1, <4>1
    <3>2. CASE ToHost = One(Bad)
      <4>1. Head(ToHost) = Bad
        BY <2>0, <3>2
      <4> QED BY <1>2, <2>0, <3>2, <4>1
    <3> QED BY <2>1, <3>1, <3>2
  <2>3. /\ ToHost = One(Answer) => ToHost' = None
        /\ ToHost = Two(Answer, Bad) => ToHost' = One(Bad)
        /\ ToHost = One(Bad) => ToHost' = None
    BY <1>2, Replies, Zenon
  <2>4. /\ cfg' \in [Sides -> [found : BOOLEAN, size : Nat]]
        /\ cfg'["host"].found = cfg["host"].found /\ cfg'["dpu"] = cfg["dpu"]
        /\ cfg["host"].found => cfg' = cfg
        /\ Host' = "alloc" /\ ~cfg["host"].found => cfg'["host"].size = Answer.size
    BY <1>1, <2>2, Messages DEF Fields, Sides
  <2>5. Answer' = Answer
    BY <2>4 DEF Answer
  <2>6. Host' = "alloc" => OneSource /\ Agree'
    <3>1. Host' = "alloc" => OneSource /\ (cfg["host"].found => Agree)
      BY <1>1, <1>2, <2>2 DEF Settled
    <3> QED BY <1>1, <3>1, <2>4, Messages DEF Agree, OneSource, Fields, Sides
  <2> QED BY <2>1, <2>2, <2>3, <2>4, <2>5, <2>6, Replies
<1>4. Fields'
  BY <1>1, <1>2, <1>3, Zenon DEF Fields
<1>5. Results'
  BY <1>1, <1>2, <1>3, Zenon DEF Results
<1>6. Sources'
  BY <1>1, <1>2, <1>3, ZenonT(40) DEF Sources
<1>7. Inbox'
  BY <1>1, <1>2, <1>3, Zenon DEF Inbox
<1>8. Before'
  BY <1>1, <1>2, <1>3, Zenon DEF Before
<1>9. Exchange'
  BY <1>1, <1>2, <1>3, Zenon DEF Exchange
<1>10. During'
  BY <1>1, <1>2, <1>3, Zenon DEF During
<1>11. Settled'
  BY <1>1, <1>2, <1>3 DEF Settled
<1>12. HostBuffer'
  BY <1>1, <1>2, <1>3, Zenon DEF HostBuffer
<1>13. DpuBuffer'
  BY <1>1, <1>2, <1>3, Zenon DEF DpuBuffer
<1>14. HostGone'
  BY <1>1, <1>2, <1>3, Zenon DEF HostGone
<1>15. HostFaithful'
  BY <1>1, <1>2, <1>3, Zenon DEF HostFaithful
<1>16. DpuFaithful'
  BY <1>1, <1>2, <1>3, ZenonT(20) DEF DpuFaithful
<1> QED BY <1>4, <1>5, <1>6, <1>7, <1>8, <1>9, <1>10, <1>11, <1>12,
           <1>13, <1>14, <1>15, <1>16 DEF DmaInv

(* A status is the acknowledgement or the failure that was expected.       *)
LEMMA HostRecvStatusInv ==
  ASSUME DmaInv, HostRecvStatus, UNCHANGED env
  PROVE  DmaInv'
<1> USE DEF Host, Dpu, ToHost, ToDpu, Dead, Last, LastPlaces, HostPlaces, DpuPlaces,
           Copying, ChannelFails
<1>1. Fields /\ Results /\ Sources /\ Inbox /\ Before /\ Exchange
      /\ During /\ Settled /\ HostBuffer /\ DpuBuffer /\ HostGone /\ HostFaithful /\ DpuFaithful
  BY DEF DmaInv
<1>2. /\ DOMAIN pc' = Sides /\ DOMAIN chan' = Sides /\ DOMAIN result' = Sides
      /\ Host \in {"recvExport", "recvAddr", "recvLen", "recvDone"}
      /\ Dpu' = Dpu /\ ToDpu' = ToDpu
      /\ ToHost # <<>> /\ ToHost' = Tail(ToHost)
      /\ \/ /\ ~Head(ToHost).success /\ Host' = "cleanup"
            /\ result'["host"] = "err" /\ result'["dpu"] = result["dpu"]
         \/ /\ Head(ToHost).success /\ result' = result
            /\ \/ Host = "recvExport" /\ Host' = "fill"
               \/ Host = "recvAddr" /\ Host' = "sendLen"
               \/ Host = "recvLen" /\ Host' = "recvDone"
               \/ Host = "recvDone" /\ Host' = "save"
      /\ UNCHANGED <<cfg, connected, buf, offset, task, file>>
      /\ Answer' = Answer /\ Offer' = Offer
  <2>1. /\ AfterStatus("recvExport") = "fill" /\ AfterStatus("recvAddr") = "sendLen"
        /\ AfterStatus("recvLen") = "recvDone" /\ AfterStatus("recvDone") = "save"
    BY DEF AfterStatus
  <2> QED BY <1>1, <2>1, HostMoves, ZenonT(30) DEF Fields, HostRecvStatus, Received,
           Abort, Answer, Offer
<1>3. \/ /\ ~Dead("dpu") /\ Dpu \notin {"setup", "recvDir"} /\ ToDpu = None
         /\ ToHost = One(Good) /\ ToHost' = None /\ Host' # "cleanup"
      \/ /\ Dead("dpu") /\ ToHost \in {One(Good), Two(Good, Bad)}
         /\ ToHost' \in {None, One(Bad)} /\ Host' # "cleanup"
      \/ /\ Dead("dpu") /\ Host = "recvLen" /\ ToHost = Two(Good, Good)
         /\ ToHost' = One(Good) /\ Host' # "cleanup"
      \/ Dead("dpu") /\ ToHost = One(Bad) /\ ToHost' = None /\ Host' = "cleanup"
  <2>1. \/ ~Dead("dpu") /\ Dpu \notin {"setup", "recvDir"} /\ ToDpu = None /\ ToHost = One(Good)
        \/ Dead("dpu") /\ ToHost \in {One(Good), Two(Good, Bad), One(Bad)}
        \/ Dead("dpu") /\ Host = "recvLen" /\ ToHost = Two(Good, Good)
    BY <1>1, <1>2 DEF Exchange, During, None
  <2> QED BY <1>2, <2>1, Replies, Messages, ZenonT(40)
<1>4. Fields'
  BY <1>1, <1>2, <1>3, ZenonT(20) DEF Fields
<1>5. Results'
  BY <1>1, <1>2, <1>3 DEF Results
<1>6. Sources'
  BY <1>1, <1>2, <1>3, Zenon DEF Sources
<1>7. Inbox'
  BY <1>1, <1>2, <1>3, Zenon DEF Inbox
<1>8. Before'
  BY <1>1, <1>2, <1>3, ZenonT(40) DEF Before
<1>9. Exchange'
  BY <1>1, <1>2, <1>3 DEF Exchange
<1>10. During'
  <2>1. Copied' = Copied
    BY <1>2, ZenonT(20) DEF Copied
  <2>2. Host = "recvLen" /\ Host' = "recvDone" =>
          \/ Dpu \in Copying /\ ToDpu = None /\ ToHost' = None
          \/ Dead("dpu") /\ ToHost' \in {None, One(Bad)}
          \/ Dead("dpu") /\ Copied /\ ToHost' = One(Good)
    BY <1>1, <1>3, Replies DEF During
  <2>3. Host = "recvDone" /\ Host' = "save" => Dead("dpu") /\ Copied
    BY <1>1, <1>3, Replies DEF During
  <2> QED BY <1>2, <1>3, <2>1, <2>2, <2>3 DEF During
<1>11. Settled'
  BY <1>1, <1>2, <1>3, Zenon DEF Settled, Before, Agree, OneSource, Inbox, Fields
<1>12. HostBuffer'
  BY <1>1, <1>2, <1>3, Zenon DEF HostBuffer
<1>13. DpuBuffer'
  BY <1>1, <1>2, <1>3 DEF DpuBuffer, Raw, NoBuf, Copied
<1>14. HostGone'
  BY <1>1, <1>2, <1>3, Zenon DEF HostGone
<1>15. HostFaithful'
  BY <1>1, <1>2, <1>3, Zenon DEF HostFaithful
<1>16. DpuFaithful'
  BY <1>1, <1>2, <1>3 DEF DpuFaithful
<1> QED BY <1>4, <1>5, <1>6, <1>7, <1>8, <1>9, <1>10, <1>11, <1>12,
           <1>13, <1>14, <1>15, <1>16 DEF DmaInv

(* The host fills its buffer when the file is its own.                     *)
LEMMA HostFillInv ==
  ASSUME DmaInv, HostFill, UNCHANGED env
  PROVE  DmaInv'
<1> USE DEF Host, Dpu, ToHost, ToDpu, Dead, Last, LastPlaces, HostPlaces, DpuPlaces,
           Copying, ChannelFails
<1>1. Fields /\ Results /\ Sources /\ Inbox /\ Before /\ Exchange
      /\ During /\ Settled /\ HostBuffer /\ DpuBuffer /\ HostGone /\ HostFaithful /\ DpuFaithful
  BY DEF DmaInv
<1>2. /\ DOMAIN pc' = Sides /\ DOMAIN chan' = Sides /\ DOMAIN result' = Sides
      /\ Host = "fill" /\ Dpu' = Dpu /\ ToHost' = ToHost /\ ToDpu' = ToDpu
      /\ \/ /\ Host' = "sendAddr" /\ result' = result
            /\ buf' = IF cfg["host"].found
                      THEN [buf EXCEPT !["host"].data = file["host"].data] ELSE buf
         \/ /\ Host' = "cleanup" /\ buf' = buf
            /\ result'["host"] = "err" /\ result'["dpu"] = result["dpu"]
      /\ UNCHANGED <<cfg, connected, offset, task, file>>
      /\ Answer' = Answer /\ Offer' = Offer
      /\ DOMAIN chan' = Sides
  BY <1>1, HostMoves, ZenonT(30) DEF Fields, HostFill, Abort, Answer, Offer
<1>3. /\ buf' \in [Sides -> Contents] /\ buf'["dpu"] = buf["dpu"]
      /\ Host' = "sendAddr" => /\ buf'["host"].len = cfg["host"].size
                               /\ buf'["host"].data \in {"raw", "src"}
                               /\ cfg["host"].found => buf'["host"].data = "src"
  <2>1. /\ buf["host"] = [len |-> cfg["host"].size, data |-> "raw"]
        /\ cfg["host"].found => file["host"].data = "src"
    BY <1>1, <1>2 DEF HostBuffer, Raw, Sources, Sides
  <2>2. CASE Host' = "sendAddr" /\ cfg["host"].found
    <3>1. buf' = [buf EXCEPT !["host"].data = "src"]
      BY <1>2, <2>1, <2>2
    <3> QED BY <1>1, <2>1, <2>2, <3>1 DEF Fields, Sides, Contents
  <2>3. CASE ~(Host' = "sendAddr" /\ cfg["host"].found)
    BY <1>1, <1>2, <2>1, <2>3 DEF Fields, Contents, Sides
  <2> QED BY <2>2, <2>3
<1>4. Fields'
  BY <1>1, <1>2, <1>3, Zenon DEF Fields
<1>5. Results'
  BY <1>1, <1>2, <1>3, Zenon DEF Results
<1>6. Sources'
  BY <1>1, <1>2, <1>3, Zenon DEF Sources
<1>7. Inbox'
  BY <1>1, <1>2, <1>3, Zenon DEF Inbox
<1>8. Before'
  BY <1>1, <1>2, <1>3, Zenon DEF Before
<1>9. Exchange'
  BY <1>1, <1>2, <1>3, Zenon DEF Exchange
<1>10. During'
  BY <1>1, <1>2, <1>3, Zenon DEF During
<1>11. Settled'
  BY <1>1, <1>2, <1>3, Zenon DEF Settled, Before, Agree, OneSource, Inbox, Fields
<1>12. HostBuffer'
  BY <1>1, <1>2, <1>3 DEF HostBuffer, Raw, NoBuf
<1>13. DpuBuffer'
  BY <1>1, <1>2, <1>3 DEF DpuBuffer, Raw, NoBuf, Copied, Fields, Results
<1>14. HostGone'
  BY <1>1, <1>2, <1>3, Zenon DEF HostGone, Results, Before, Exchange, During, Inbox, Fields
<1>15. HostFaithful'
  BY <1>1, <1>2, <1>3, Zenon DEF HostFaithful
<1>16. DpuFaithful'
  BY <1>1, <1>2, <1>3, Zenon DEF DpuFaithful
<1> QED BY <1>4, <1>5, <1>6, <1>7, <1>8, <1>9, <1>10, <1>11, <1>12,
           <1>13, <1>14, <1>15, <1>16 DEF DmaInv

(* The host saves after the final status, so the DPU is done.              *)
LEMMA HostSaveInv ==
  ASSUME DmaInv, HostSave, UNCHANGED env
  PROVE  DmaInv'
<1> USE DEF Host, Dpu, ToHost, ToDpu, Dead, Last, LastPlaces, HostPlaces, DpuPlaces,
           Copying, ChannelFails
<1>1. Fields /\ Results /\ Sources /\ Inbox /\ Before /\ Exchange
      /\ During /\ Settled /\ HostBuffer /\ DpuBuffer /\ HostGone /\ HostFaithful /\ DpuFaithful
  BY DEF DmaInv
<1>2. /\ DOMAIN pc' = Sides /\ DOMAIN chan' = Sides /\ DOMAIN result' = Sides
      /\ Host = "save" /\ Dpu' = Dpu /\ ToHost' = ToHost /\ ToDpu' = ToDpu
      /\ Host' = "cleanup" /\ result'["dpu"] = result["dpu"]
      /\ \/ cfg["host"].found /\ result'["host"] = "ok" /\ file' = file
         \/ ~cfg["host"].found /\ result'["host"] = "ok" /\ Save("host")
         \/ ~cfg["host"].found /\ result'["host"] = "err" /\ SaveFails("host")
      /\ UNCHANGED <<cfg, connected, buf, offset, task>>
      /\ Answer' = Answer /\ Offer' = Offer
  BY <1>1, HostMoves, ZenonT(30) DEF Fields, HostSave, Abort, Answer, Offer
<1>3. Fields'
  BY <1>1, <1>2 DEF Fields, Contents, Sides, Save, SaveFails
<1>4. Results'
  BY <1>1, <1>2, Zenon DEF Results, During, Fields
<1>5. Sources'
  BY <1>1, <1>2 DEF Sources, Sides, Save, SaveFails, Fields
<1>6. Inbox'
  BY <1>1, <1>2, Zenon DEF Inbox
<1>7. Before'
  BY <1>1, <1>2, Zenon DEF Before
<1>8. Exchange'
  BY <1>1, <1>2, Zenon DEF Exchange
<1>9. During'
  BY <1>1, <1>2, Zenon DEF During
<1>10. Settled'
  BY <1>1, <1>2, Zenon DEF Settled
<1>11. HostBuffer'
  BY <1>1, <1>2, Zenon DEF HostBuffer
<1>12. DpuBuffer'
  BY <1>1, <1>2, Zenon DEF DpuBuffer
<1>13. HostGone'
  BY <1>1, <1>2, Zenon DEF HostGone, Results, Before, Exchange, During, Inbox, Fields
<1>14. HostFaithful'
  BY <1>1, <1>2 DEF HostFaithful, Results, Save, SaveFails, Sides, During, Copied,
     Settled, Agree, OneSource, HostBuffer, Sources, Fields
<1>15. DpuFaithful'
  BY <1>1, <1>2, ZenonT(40) DEF DpuFaithful, Results, Save, SaveFails, Sides, During, Copied,
     Settled, Agree, OneSource, HostBuffer, Sources, Fields
<1> QED BY <1>3, <1>4, <1>5, <1>6, <1>7, <1>8, <1>9, <1>10, <1>11,
           <1>12, <1>13, <1>14, <1>15 DEF DmaInv

(* The DPU begins to listen.                                               *)
LEMMA DpuSetupInv ==
  ASSUME DmaInv, DpuSetup, UNCHANGED env
  PROVE  DmaInv'
<1> USE DEF Host, Dpu, ToHost, ToDpu, Dead, Last, LastPlaces, HostPlaces, DpuPlaces,
           Copying, ChannelFails
<1>1. Fields /\ Results /\ Sources /\ Inbox /\ Before /\ Exchange
      /\ During /\ Settled /\ HostBuffer /\ DpuBuffer /\ HostGone /\ HostFaithful /\ DpuFaithful
  BY DEF DmaInv
<1>2. /\ DOMAIN pc' = Sides /\ DOMAIN chan' = Sides /\ DOMAIN result' = Sides
      /\ Dpu = "setup"
      /\ Host' = Host /\ ToHost' = ToHost /\ ToDpu' = ToDpu
      /\ \/ Dpu' = "recvDir" /\ result' = result
         \/ /\ Dpu' = "cleanup" /\ result'["dpu"] = "err" /\ result'["host"] = result["host"]
      /\ UNCHANGED <<cfg, chan, connected, buf, offset, task, file>>
      /\ Answer' = Answer /\ Offer' = Offer
  BY <1>1, DpuMoves, ZenonT(30) DEF Fields, DpuSetup, Abort, Answer, Offer
<1>3. Fields'
  BY <1>1, <1>2, Zenon DEF Fields
<1>4. Results'
  BY <1>1, <1>2, Zenon DEF Results
<1>5. Sources'
  BY <1>1, <1>2, Zenon DEF Sources
<1>6. Inbox'
  BY <1>1, <1>2, Zenon DEF Inbox
<1>7. Before'
  BY <1>1, <1>2, Zenon DEF Before
<1>8. Exchange'
  BY <1>1, <1>2, Zenon DEF Exchange
<1>9. During'
  BY <1>1, <1>2, Zenon DEF During
<1>10. Settled'
  BY <1>1, <1>2, Zenon DEF Settled, Before, Agree, OneSource, Inbox, Fields
<1>11. HostBuffer'
  BY <1>1, <1>2, Zenon DEF HostBuffer
<1>12. DpuBuffer'
  BY <1>1, <1>2, Zenon DEF DpuBuffer
<1>13. HostGone'
  BY <1>1, <1>2, Zenon DEF HostGone
<1>14. HostFaithful'
  BY <1>1, <1>2, Zenon DEF HostFaithful
<1>15. DpuFaithful'
  BY <1>1, <1>2 DEF DpuFaithful
<1> QED BY <1>3, <1>4, <1>5, <1>6, <1>7, <1>8, <1>9, <1>10, <1>11,
           <1>12, <1>13, <1>14, <1>15 DEF DmaInv

(* The DPU maps the host's buffer.                                         *)
LEMMA DpuImportInv ==
  ASSUME DmaInv, DpuImport, UNCHANGED env
  PROVE  DmaInv'
<1> USE DEF Host, Dpu, ToHost, ToDpu, Dead, Last, LastPlaces, HostPlaces, DpuPlaces,
           Copying, ChannelFails
<1>1. Fields /\ Results /\ Sources /\ Inbox /\ Before /\ Exchange
      /\ During /\ Settled /\ HostBuffer /\ DpuBuffer /\ HostGone /\ HostFaithful /\ DpuFaithful
  BY DEF DmaInv
<1>2. /\ DOMAIN pc' = Sides /\ DOMAIN chan' = Sides /\ DOMAIN result' = Sides
      /\ Dpu = "import"
      /\ Host' = Host /\ ToHost' = ToHost /\ ToDpu' = ToDpu
      /\ \/ Dpu' = "recvAddr" /\ result' = result
         \/ /\ Dpu' = "cleanup" /\ result'["dpu"] = "err" /\ result'["host"] = result["host"]
      /\ UNCHANGED <<cfg, chan, connected, buf, offset, task, file>>
      /\ Answer' = Answer /\ Offer' = Offer
  BY <1>1, DpuMoves, ZenonT(30) DEF Fields, DpuImport, Abort, Answer, Offer
<1>3. Fields'
  BY <1>1, <1>2, Zenon DEF Fields
<1>4. Results'
  BY <1>1, <1>2, Zenon DEF Results
<1>5. Sources'
  BY <1>1, <1>2, Zenon DEF Sources
<1>6. Inbox'
  BY <1>1, <1>2, Zenon DEF Inbox
<1>7. Before'
  BY <1>1, <1>2, Zenon DEF Before
<1>8. Exchange'
  BY <1>1, <1>2, Zenon DEF Exchange
<1>9. During'
  BY <1>1, <1>2, Zenon DEF During
<1>10. Settled'
  BY <1>1, <1>2, Zenon DEF Settled, Before, Agree, OneSource, Inbox, Fields
<1>11. HostBuffer'
  BY <1>1, <1>2, Zenon DEF HostBuffer
<1>12. DpuBuffer'
  BY <1>1, <1>2, Zenon DEF DpuBuffer
<1>13. HostGone'
  BY <1>1, <1>2, Zenon DEF HostGone
<1>14. HostFaithful'
  BY <1>1, <1>2, Zenon DEF HostFaithful
<1>15. DpuFaithful'
  BY <1>1, <1>2, Zenon DEF DpuFaithful
<1> QED BY <1>3, <1>4, <1>5, <1>6, <1>7, <1>8, <1>9, <1>10, <1>11,
           <1>12, <1>13, <1>14, <1>15 DEF DmaInv

(* The DPU allocates its buffer.                                           *)
LEMMA DpuAllocInv ==
  ASSUME DmaInv, DpuAlloc, UNCHANGED env
  PROVE  DmaInv'
<1> USE DEF Host, Dpu, ToHost, ToDpu, Dead, Last, LastPlaces, HostPlaces, DpuPlaces,
           Copying, ChannelFails
<1>1. Fields /\ Results /\ Sources /\ Inbox /\ Before /\ Exchange
      /\ During /\ Settled /\ HostBuffer /\ DpuBuffer /\ HostGone /\ HostFaithful /\ DpuFaithful
  BY DEF DmaInv
<1>2. /\ DOMAIN pc' = Sides /\ DOMAIN chan' = Sides /\ DOMAIN result' = Sides
      /\ Dpu = "alloc"
      /\ Host' = Host /\ ToHost' = ToHost /\ ToDpu' = ToDpu
      /\ \/ /\ Dpu' = "recvExport" /\ result' = result
            /\ buf' = [buf EXCEPT !["dpu"] = Raw(cfg["dpu"].size)]
         \/ /\ Dpu' = "cleanup" /\ result'["dpu"] = "err" /\ result'["host"] = result["host"]
            /\ buf' = buf
      /\ UNCHANGED <<cfg, chan, connected, offset, task, file>>
      /\ Answer' = Answer /\ Offer' = Offer
  BY <1>1, DpuMoves, ZenonT(30) DEF Fields, DpuAlloc, Abort, Answer, Offer
<1>3. Fields'
  BY <1>1, <1>2 DEF Fields, Contents, Sides, Raw
<1>4. Results'
  BY <1>1, <1>2, Zenon DEF Results
<1>5. Sources'
  BY <1>1, <1>2, Zenon DEF Sources
<1>6. Inbox'
  BY <1>1, <1>2, Zenon DEF Inbox
<1>7. Before'
  BY <1>1, <1>2, Zenon DEF Before
<1>8. Exchange'
  BY <1>1, <1>2, Zenon DEF Exchange
<1>9. During'
  BY <1>1, <1>2, Zenon DEF During
<1>10. Settled'
  BY <1>1, <1>2, Zenon DEF Settled, Before, Agree, OneSource, Inbox, Fields
<1>11. HostBuffer'
  BY <1>1, <1>2, Zenon DEF HostBuffer, Raw, NoBuf, Sides, Fields
<1>12. DpuBuffer'
  BY <1>1, <1>2, Zenon DEF DpuBuffer, Raw, NoBuf, Copied, Sides, Fields, Results
<1>13. HostGone'
  BY <1>1, <1>2, Zenon DEF HostGone
<1>14. HostFaithful'
  BY <1>1, <1>2, Zenon DEF HostFaithful
<1>15. DpuFaithful'
  BY <1>1, <1>2, Zenon DEF DpuFaithful, Sides, Fields, Results
<1> QED BY <1>3, <1>4, <1>5, <1>6, <1>7, <1>8, <1>9, <1>10, <1>11,
           <1>12, <1>13, <1>14, <1>15 DEF DmaInv

(* What waits for the DPU is the descriptor.                               *)
LEMMA DpuRecvExportInv ==
  ASSUME DmaInv, DpuRecvExport, UNCHANGED env
  PROVE  DmaInv'
<1> USE DEF Host, Dpu, ToHost, ToDpu, Dead, Last, LastPlaces, HostPlaces, DpuPlaces,
           Copying, ChannelFails
<1>1. Fields /\ Results /\ Sources /\ Inbox /\ Before /\ Exchange
      /\ During /\ Settled /\ HostBuffer /\ DpuBuffer /\ HostGone /\ HostFaithful /\ DpuFaithful
  BY DEF DmaInv
<1>2. /\ DOMAIN pc' = Sides /\ DOMAIN chan' = Sides /\ DOMAIN result' = Sides
      /\ Dpu = "recvExport" /\ Host' = Host /\ ToDpu # <<>> /\ ToDpu' = Tail(ToDpu)
      /\ \/ Dpu' = "import" /\ ToHost' = Append(ToHost, Good) /\ result' = result
         \/ /\ Dpu' = "cleanup" /\ result'["dpu"] = "err" /\ result'["host"] = result["host"]
            /\ ToHost' = ToHost /\ (ChannelFails \/ Host = "end")
      /\ UNCHANGED <<cfg, connected, buf, offset, task, file>>
      /\ Answer' = Answer /\ Offer' = Offer
  BY <1>1, DpuMoves, ZenonT(30) DEF Fields, DpuRecvExport, Received, SendTo,
     SendMayFail, Peer, Abort, Good, Answer, Offer
<1>3. /\ ToDpu = One(Export) /\ ToDpu' = None
      /\ Host \in {"recvExport"} \cup LastPlaces
      /\ Host = "recvExport" => ToHost = None /\ Append(ToHost, Good) = One(Good)
  <2>1. ToDpu = One(Export)
    BY <1>1, <1>2 DEF Inbox, None
  <2>2. One(Export) # None /\ Tail(One(Export)) = None
    BY Channels, ZenonT(20)
  <2>3. Host \in {"recvExport"} \cup LastPlaces /\ (Host = "recvExport" => ToHost = None)
    BY <1>1, <1>2, <2>1, <2>2 DEF Fields, Before, Exchange, During
  <2> QED BY <1>2, <2>1, <2>2, <2>3, Replies, Zenon
<1>4. Fields'
  BY <1>1, <1>2, <1>3, Zenon DEF Fields
<1>5. Results'
  BY <1>1, <1>2, <1>3, Zenon DEF Results
<1>6. Sources'
  BY <1>1, <1>2, <1>3, Zenon DEF Sources
<1>7. Inbox'
  BY <1>1, <1>2, <1>3, Zenon DEF Inbox
<1>8. Before'
  BY <1>1, <1>2, <1>3, Zenon DEF Before
<1>9. Exchange'
  BY <1>1, <1>2, <1>3, Zenon DEF Exchange
<1>10. During'
  BY <1>1, <1>2, <1>3, Zenon DEF During
<1>11. Settled'
  BY <1>1, <1>2, <1>3, Zenon DEF Settled, Before, Agree, OneSource, Inbox, Fields
<1>12. HostBuffer'
  BY <1>1, <1>2, <1>3, Zenon DEF HostBuffer
<1>13. DpuBuffer'
  BY <1>1, <1>2, <1>3, Zenon DEF DpuBuffer
<1>14. HostGone'
  BY <1>1, <1>2, <1>3, Zenon DEF HostGone
<1>15. HostFaithful'
  BY <1>1, <1>2, <1>3, Zenon DEF HostFaithful
<1>16. DpuFaithful'
  BY <1>1, <1>2, <1>3, Zenon DEF DpuFaithful
<1> QED BY <1>4, <1>5, <1>6, <1>7, <1>8, <1>9, <1>10, <1>11, <1>12,
           <1>13, <1>14, <1>15, <1>16 DEF DmaInv

(* What waits for the DPU is the address.                                  *)
LEMMA DpuRecvAddrInv ==
  ASSUME DmaInv, DpuRecvAddr, UNCHANGED env
  PROVE  DmaInv'
<1> USE DEF Host, Dpu, ToHost, ToDpu, Dead, Last, LastPlaces, HostPlaces, DpuPlaces,
           Copying, ChannelFails
<1>1. Fields /\ Results /\ Sources /\ Inbox /\ Before /\ Exchange
      /\ During /\ Settled /\ HostBuffer /\ DpuBuffer /\ HostGone /\ HostFaithful /\ DpuFaithful
  BY DEF DmaInv
<1>2. /\ DOMAIN pc' = Sides /\ DOMAIN chan' = Sides /\ DOMAIN result' = Sides
      /\ Dpu = "recvAddr" /\ Host' = Host /\ ToDpu # <<>> /\ ToDpu' = Tail(ToDpu)
      /\ \/ Dpu' = "recvLen" /\ ToHost' = Append(ToHost, Good) /\ result' = result
         \/ /\ Dpu' = "cleanup" /\ result'["dpu"] = "err" /\ result'["host"] = result["host"]
            /\ ToHost' = ToHost /\ (ChannelFails \/ Host = "end")
      /\ UNCHANGED <<cfg, connected, buf, offset, task, file>>
      /\ Answer' = Answer /\ Offer' = Offer
  BY <1>1, DpuMoves, ZenonT(30) DEF Fields, DpuRecvAddr, Received, SendTo,
     SendMayFail, Peer, Abort, Good, Answer, Offer
<1>3. /\ ToDpu = One(Addr) /\ ToDpu' = None
      /\ Host \in {"recvAddr"} \cup LastPlaces
      /\ Host = "recvAddr" => ToHost = None /\ Append(ToHost, Good) = One(Good)
  <2>1. ToDpu = One(Addr)
    BY <1>1, <1>2, ZenonT(20) DEF Inbox, None
  <2>2. One(Addr) # None /\ Tail(One(Addr)) = None
    BY Channels
  <2>3. Host \in {"recvAddr"} \cup LastPlaces /\ (Host = "recvAddr" => ToHost = None)
    BY <1>1, <1>2, <2>1, <2>2 DEF Fields, Before, Exchange, During
  <2> QED BY <1>2, <2>1, <2>2, <2>3, Replies, Zenon
<1>4. Fields'
  BY <1>1, <1>2, <1>3, Zenon DEF Fields
<1>5. Results'
  BY <1>1, <1>2, <1>3, Zenon DEF Results
<1>6. Sources'
  BY <1>1, <1>2, <1>3, Zenon DEF Sources
<1>7. Inbox'
  BY <1>1, <1>2, <1>3, Zenon DEF Inbox
<1>8. Before'
  BY <1>1, <1>2, <1>3, Zenon DEF Before
<1>9. Exchange'
  BY <1>1, <1>2, <1>3, Zenon DEF Exchange
<1>10. During'
  BY <1>1, <1>2, <1>3, ZenonT(20) DEF During
<1>11. Settled'
  BY <1>1, <1>2, <1>3 DEF Settled, Before, Agree, OneSource, Inbox, Fields
<1>12. HostBuffer'
  BY <1>1, <1>2, <1>3, Zenon DEF HostBuffer
<1>13. DpuBuffer'
  BY <1>1, <1>2, <1>3, Zenon DEF DpuBuffer
<1>14. HostGone'
  BY <1>1, <1>2, <1>3, Zenon DEF HostGone
<1>15. HostFaithful'
  BY <1>1, <1>2, <1>3, Zenon DEF HostFaithful
<1>16. DpuFaithful'
  BY <1>1, <1>2, <1>3 DEF DpuFaithful
<1> QED BY <1>4, <1>5, <1>6, <1>7, <1>8, <1>9, <1>10, <1>11, <1>12,
           <1>13, <1>14, <1>15, <1>16 DEF DmaInv

(* As long as both programs run, the host has not got the final status, and *)
(* a failure the DPU tells now comes next or after one message.            *)
LEMMA Pending ==
  ASSUME DmaInv, ~Dead("dpu"), ~Dead("host")
  PROVE  /\ Host # "save"
         /\ \/ ToHost = None /\ Append(ToHost, Bad) = One(Bad)
            \/ /\ Host = "recvDir" /\ ToHost = One(Answer)
               /\ Append(ToHost, Bad) = Two(Answer, Bad)
            \/ /\ Host \in {"recvExport", "recvAddr", "recvLen"} /\ ToHost = One(Good)
               /\ Append(ToHost, Bad) = Two(Good, Bad)
<1>1. /\ Host # "save"
      /\ \/ ToHost = None
         \/ Host = "recvDir" /\ ToHost = One(Answer)
         \/ Host \in {"recvExport", "recvAddr", "recvLen"} /\ ToHost = One(Good)
  BY DEF DmaInv, Fields, Before, Exchange, During, Dead, LastPlaces, HostPlaces,
         Host, Dpu, ToHost
<1> QED BY <1>1, Replies, Zenon

(* The DPU gives up, after it told the host or could not.                  *)
GivesUp ==
  /\ DOMAIN pc' = Sides /\ DOMAIN chan' = Sides /\ DOMAIN result' = Sides
  /\ ~Dead("dpu") /\ Host' = Host /\ Dpu' = "cleanup"
  /\ result'["dpu"] = "err" /\ result'["host"] = result["host"]
  /\ ToDpu' = ToDpu /\ UNCHANGED <<cfg, connected, buf, offset>>
  /\ ToHost' = Append(ToHost, Bad) \/ (ToHost' = ToHost /\ (ChannelFails \/ Host = "end"))
  /\ task' \in {"none", "inflight", "held"} /\ task' # "inflight"
  /\ \/ file' = file
     \/ /\ ~cfg["dpu"].found /\ file' \in [Sides -> Contents]
        /\ file'["host"] = file["host"]
  /\ Answer' = Answer /\ Offer' = Offer

(* After it the host finds the failure behind at most one message.         *)
LEMMA GivesUpInv ==
  ASSUME DmaInv, GivesUp, UNCHANGED env
  PROVE  DmaInv'
<1> USE DEF Host, Dpu, ToHost, ToDpu, Dead, Last, LastPlaces, HostPlaces, DpuPlaces,
           Copying, ChannelFails
<1>1. Fields /\ Results /\ Sources /\ Inbox /\ Before /\ Exchange
      /\ During /\ Settled /\ HostBuffer /\ DpuBuffer /\ HostGone /\ HostFaithful /\ DpuFaithful
  BY DEF DmaInv
<1>2. /\ DOMAIN pc' = Sides /\ DOMAIN chan' = Sides /\ DOMAIN result' = Sides
      /\ ~Dead("dpu") /\ Host' = Host /\ Dpu' = "cleanup"
      /\ result'["dpu"] = "err" /\ result'["host"] = result["host"]
      /\ ToDpu' = ToDpu /\ UNCHANGED <<cfg, connected, buf, offset>>
      /\ ToHost' = Append(ToHost, Bad) \/ (ToHost' = ToHost /\ (ChannelFails \/ Host = "end"))
      /\ task' \in {"none", "inflight", "held"} /\ task' # "inflight"
      /\ \/ file' = file
         \/ /\ ~cfg["dpu"].found /\ file' \in [Sides -> Contents]
            /\ file'["host"] = file["host"]
      /\ Answer' = Answer /\ Offer' = Offer
  BY DEF GivesUp
<1>3. ~Dead("host") =>
        /\ Host # "save"
        /\ \/ ToHost = None /\ ToHost' \in {None, One(Bad)}
           \/ /\ Host = "recvDir" /\ ToHost = One(Answer)
              /\ ToHost' \in {One(Answer), Two(Answer, Bad)}
           \/ /\ Host \in {"recvExport", "recvAddr", "recvLen"} /\ ToHost = One(Good)
              /\ ToHost' \in {One(Good), Two(Good, Bad)}
  BY <1>2, Pending, ZenonT(20)
<1>4. Fields'
  BY <1>1, <1>2, <1>3, Zenon DEF Fields
<1>5. Results'
  BY <1>1, <1>2, <1>3, Zenon DEF Results
<1>6. Sources'
  BY <1>1, <1>2, <1>3 DEF Sources, Sides, Contents
<1>7. Inbox'
  BY <1>1, <1>2, <1>3, Zenon DEF Inbox
<1>8. Before'
  BY <1>1, <1>2, <1>3, Zenon DEF Before
<1>9. Exchange'
  BY <1>1, <1>2, <1>3, Zenon DEF Exchange
<1>10. During'
  BY <1>1, <1>2, <1>3, Zenon DEF During
<1>11. Settled'
  <2>1. Host = "recvDir" /\ ToHost' \in {One(Answer), Two(Answer, Bad)} => ToHost = One(Answer)
    BY <1>3, Replies, Zenon
  <2> QED BY <1>1, <1>2, <1>3, <2>1 DEF Settled, Agree, OneSource
<1>12. HostBuffer'
  BY <1>1, <1>2, <1>3, Zenon DEF HostBuffer
<1>13. DpuBuffer'
  BY <1>1, <1>2, <1>3, Zenon DEF DpuBuffer
<1>14. HostGone'
  BY <1>1, <1>2, <1>3, Zenon DEF HostGone
<1>15. HostFaithful'
  BY <1>1, <1>2, <1>3, Zenon DEF HostFaithful, Fields, Results
<1>16. DpuFaithful'
  BY <1>1, <1>2, <1>3 DEF DpuFaithful
<1> QED BY <1>4, <1>5, <1>6, <1>7, <1>8, <1>9, <1>10, <1>11, <1>12,
           <1>13, <1>14, <1>15, <1>16, ZenonT(20) DEF DmaInv

(* A failing receive makes the DPU give up.                                *)
LEMMA DpuRecvErrorInv ==
  ASSUME DmaInv, DpuRecvError, UNCHANGED env
  PROVE  DmaInv'
<1>1. Fields /\ Results
  BY DEF DmaInv
<1>2. GivesUp
  BY <1>1, DpuMoves, ZenonT(30) DEF Fields, Results, DpuRecvError, Tell,
     SendMayFail, Abort, Bad, Answer, Offer, GivesUp, Host, Dpu, ToHost, ToDpu, Dead, LastPlaces
<1> QED BY <1>2, GivesUpInv

(* The length the host sent fits the buffers.                              *)
LEMMA DpuBufsInv ==
  ASSUME DmaInv, DpuBufs, UNCHANGED env
  PROVE  DmaInv'
<1> USE DEF Host, Dpu, ToHost, ToDpu, Dead, Last, LastPlaces, HostPlaces, DpuPlaces,
           Copying, ChannelFails
<1>1. Fields /\ Results /\ Sources /\ Inbox /\ Before /\ Exchange
      /\ During /\ Settled /\ HostBuffer /\ DpuBuffer /\ HostGone /\ HostFaithful /\ DpuFaithful
  BY DEF DmaInv
<1>2. SUFFICES ASSUME /\ DOMAIN pc' = Sides /\ DOMAIN chan' = Sides /\ DOMAIN result' = Sides
                         /\ Dpu = "bufs" /\ Dpu' = "fill"
                         /\ Host' = Host /\ ToHost' = ToHost /\ ToDpu' = ToDpu
                         /\ UNCHANGED <<cfg, connected, buf, offset, task, file, result>>
                         /\ Answer' = Answer /\ Offer' = Offer
                  PROVE  DmaInv'
  <2>1. \/ GivesUp
        \/ /\ DOMAIN pc' = Sides /\ DOMAIN chan' = Sides /\ DOMAIN result' = Sides
           /\ Dpu = "bufs" /\ Dpu' = "fill"
           /\ Host' = Host /\ ToHost' = ToHost /\ ToDpu' = ToDpu
           /\ UNCHANGED <<cfg, connected, buf, offset, task, file, result>>
           /\ Answer' = Answer /\ Offer' = Offer
    BY <1>1, DpuMoves, ZenonT(30) DEF Fields, Results, DpuBufs, Tell,
       SendMayFail, Abort, Bad, Answer, Offer, GivesUp
  <2> QED BY <2>1, GivesUpInv, Zenon
<1>3. Fields'
  BY <1>1, <1>2, Zenon DEF Fields
<1>4. Results'
  BY <1>1, <1>2, Zenon DEF Results
<1>5. Sources'
  BY <1>1, <1>2, Zenon DEF Sources
<1>6. Inbox'
  BY <1>1, <1>2, Zenon DEF Inbox
<1>7. Before'
  BY <1>1, <1>2, Zenon DEF Before
<1>8. Exchange'
  BY <1>1, <1>2, Zenon DEF Exchange
<1>9. During'
  BY <1>1, <1>2, Zenon DEF During
<1>10. Settled'
  BY <1>1, <1>2, Zenon DEF Settled, Before, Agree, OneSource, Inbox, Fields
<1>11. HostBuffer'
  BY <1>1, <1>2, Zenon DEF HostBuffer
<1>12. DpuBuffer'
  BY <1>1, <1>2, Zenon DEF DpuBuffer
<1>13. HostGone'
  BY <1>1, <1>2, Zenon DEF HostGone
<1>14. HostFaithful'
  BY <1>1, <1>2, Zenon DEF HostFaithful
<1>15. DpuFaithful'
  BY <1>1, <1>2 DEF DpuFaithful
<1> QED BY <1>3, <1>4, <1>5, <1>6, <1>7, <1>8, <1>9, <1>10, <1>11,
           <1>12, <1>13, <1>14, <1>15 DEF DmaInv

(* The DPU fills its buffer when the file is its own.                      *)
LEMMA DpuFillInv ==
  ASSUME DmaInv, DpuFill, UNCHANGED env
  PROVE  DmaInv'
<1> USE DEF Host, Dpu, ToHost, ToDpu, Dead, Last, LastPlaces, HostPlaces, DpuPlaces,
           Copying, ChannelFails
<1>1. Fields /\ Results /\ Sources /\ Inbox /\ Before /\ Exchange
      /\ During /\ Settled /\ HostBuffer /\ DpuBuffer /\ HostGone /\ HostFaithful /\ DpuFaithful
  BY DEF DmaInv
<1>2. SUFFICES ASSUME /\ DOMAIN pc' = Sides /\ DOMAIN chan' = Sides /\ DOMAIN result' = Sides
                         /\ Dpu = "fill" /\ Dpu' = "submit"
                         /\ Host' = Host /\ ToHost' = ToHost /\ ToDpu' = ToDpu
                         /\ \/ cfg["dpu"].found /\ buf' = [buf EXCEPT !["dpu"].data = file["dpu"].data]
                            \/ ~cfg["dpu"].found /\ buf' = buf
                         /\ UNCHANGED <<cfg, connected, offset, task, file, result>>
                         /\ Answer' = Answer /\ Offer' = Offer
                  PROVE  DmaInv'
  <2>1. \/ GivesUp
        \/ /\ DOMAIN pc' = Sides /\ DOMAIN chan' = Sides /\ DOMAIN result' = Sides
           /\ Dpu = "fill" /\ Dpu' = "submit"
           /\ Host' = Host /\ ToHost' = ToHost /\ ToDpu' = ToDpu
           /\ \/ cfg["dpu"].found /\ buf' = [buf EXCEPT !["dpu"].data = file["dpu"].data]
              \/ ~cfg["dpu"].found /\ buf' = buf
           /\ UNCHANGED <<cfg, connected, offset, task, file, result>>
           /\ Answer' = Answer /\ Offer' = Offer
    BY <1>1, DpuMoves, ZenonT(30) DEF Fields, Results, DpuFill, Tell,
       SendMayFail, Abort, Bad, Answer, Offer, GivesUp
  <2> QED BY <2>1, GivesUpInv, Zenon
<1>3. /\ buf' \in [Sides -> Contents] /\ buf'["host"] = buf["host"]
      /\ buf'["dpu"].len = cfg["dpu"].size /\ buf'["dpu"].data \in {"raw", "src"}
      /\ cfg["dpu"].found => buf'["dpu"].data = "src"
  <2>1. /\ buf["dpu"] = [len |-> cfg["dpu"].size, data |-> "raw"]
        /\ cfg["dpu"].found => file["dpu"].data = "src"
    BY <1>1, <1>2 DEF DpuBuffer, Raw, Sources, Sides
  <2>2. CASE cfg["dpu"].found
    <3>1. buf' = [buf EXCEPT !["dpu"].data = "src"]
      BY <1>2, <2>1, <2>2
    <3> QED BY <1>1, <2>1, <2>2, <3>1 DEF Fields, Sides, Contents
  <2>3. CASE ~cfg["dpu"].found
    BY <1>1, <1>2, <2>1, <2>3 DEF Fields, Contents, Sides
  <2> QED BY <2>2, <2>3
<1>4. Fields'
  BY <1>1, <1>2, <1>3 DEF Fields
<1>5. Results'
  BY <1>1, <1>2, <1>3 DEF Results
<1>6. Sources'
  BY <1>1, <1>2, <1>3 DEF Sources
<1>7. Inbox'
  BY <1>1, <1>2, <1>3 DEF Inbox
<1>8. Before'
  BY <1>1, <1>2, <1>3, Zenon DEF Before
<1>9. Exchange'
  BY <1>1, <1>2, <1>3, Zenon DEF Exchange
<1>10. During'
  BY <1>1, <1>2, <1>3, Zenon DEF During
<1>11. Settled'
  BY <1>1, <1>2, <1>3, Zenon DEF Settled, Before, Agree, OneSource, Inbox, Fields
<1>12. HostBuffer'
  BY <1>1, <1>2, <1>3, Zenon DEF HostBuffer
<1>13. DpuBuffer'
  BY <1>1, <1>2, <1>3 DEF DpuBuffer, Raw, NoBuf, Copied
<1>14. HostGone'
  BY <1>1, <1>2, <1>3, Zenon DEF HostGone
<1>15. HostFaithful'
  BY <1>1, <1>2, <1>3, Zenon DEF HostFaithful
<1>16. DpuFaithful'
  BY <1>1, <1>2, <1>3, Zenon DEF DpuFaithful
<1> QED BY <1>4, <1>5, <1>6, <1>7, <1>8, <1>9, <1>10, <1>11, <1>12,
           <1>13, <1>14, <1>15, <1>16 DEF DmaInv

(* The DMA task begins.                                                    *)
LEMMA DpuSubmitInv ==
  ASSUME DmaInv, DpuSubmit, UNCHANGED env
  PROVE  DmaInv'
<1> USE DEF Host, Dpu, ToHost, ToDpu, Dead, Last, LastPlaces, HostPlaces, DpuPlaces,
           Copying, ChannelFails
<1>1. Fields /\ Results /\ Sources /\ Inbox /\ Before /\ Exchange
      /\ During /\ Settled /\ HostBuffer /\ DpuBuffer /\ HostGone /\ HostFaithful /\ DpuFaithful
  BY DEF DmaInv
<1>2. SUFFICES ASSUME /\ DOMAIN pc' = Sides /\ DOMAIN chan' = Sides /\ DOMAIN result' = Sides
                         /\ Dpu = "submit" /\ Dpu' = "dma"
                         /\ Host' = Host /\ ToHost' = ToHost /\ ToDpu' = ToDpu
                         /\ task' = "inflight" /\ UNCHANGED <<cfg, connected, buf, offset, file, result>>
                         /\ Answer' = Answer /\ Offer' = Offer
                  PROVE  DmaInv'
  <2>1. \/ GivesUp
        \/ /\ DOMAIN pc' = Sides /\ DOMAIN chan' = Sides /\ DOMAIN result' = Sides
           /\ Dpu = "submit" /\ Dpu' = "dma"
           /\ Host' = Host /\ ToHost' = ToHost /\ ToDpu' = ToDpu
           /\ task' = "inflight" /\ UNCHANGED <<cfg, connected, buf, offset, file, result>>
           /\ Answer' = Answer /\ Offer' = Offer
    BY <1>1, DpuMoves, ZenonT(30) DEF Fields, Results, DpuSubmit, Tell,
       SendMayFail, Abort, Bad, Answer, Offer, GivesUp
  <2> QED BY <2>1, GivesUpInv, Zenon
<1>3. Fields'
  BY <1>1, <1>2, Zenon DEF Fields
<1>4. Results'
  BY <1>1, <1>2, Zenon DEF Results
<1>5. Sources'
  BY <1>1, <1>2, Zenon DEF Sources
<1>6. Inbox'
  BY <1>1, <1>2, Zenon DEF Inbox
<1>7. Before'
  BY <1>1, <1>2, Zenon DEF Before
<1>8. Exchange'
  BY <1>1, <1>2, Zenon DEF Exchange
<1>9. During'
  BY <1>1, <1>2, Zenon DEF During
<1>10. Settled'
  BY <1>1, <1>2, Zenon DEF Settled, Before, Agree, OneSource, Inbox, Fields
<1>11. HostBuffer'
  BY <1>1, <1>2, Zenon DEF HostBuffer
<1>12. DpuBuffer'
  BY <1>1, <1>2, Zenon DEF DpuBuffer
<1>13. HostGone'
  BY <1>1, <1>2, Zenon DEF HostGone
<1>14. HostFaithful'
  BY <1>1, <1>2, Zenon DEF HostFaithful
<1>15. DpuFaithful'
  BY <1>1, <1>2, ZenonT(20) DEF DpuFaithful
<1> QED BY <1>3, <1>4, <1>5, <1>6, <1>7, <1>8, <1>9, <1>10, <1>11,
           <1>12, <1>13, <1>14, <1>15 DEF DmaInv

(* The device copies between two buffers of one size.                      *)
LEMMA DpuDmaInv ==
  ASSUME DmaInv, DpuDma, UNCHANGED env
  PROVE  DmaInv'
<1> USE DEF Host, Dpu, ToHost, ToDpu, Dead, Last, LastPlaces, HostPlaces, DpuPlaces,
           Copying, ChannelFails
<1>1. Fields /\ Results /\ Sources /\ Inbox /\ Before /\ Exchange
      /\ During /\ Settled /\ HostBuffer /\ DpuBuffer /\ HostGone /\ HostFaithful /\ DpuFaithful
  BY DEF DmaInv
<1>2. SUFFICES ASSUME /\ DOMAIN pc' = Sides /\ DOMAIN chan' = Sides /\ DOMAIN result' = Sides
                         /\ Dpu = "dma" /\ Dpu' = "save"
                         /\ Host' = Host /\ ToHost' = ToHost /\ ToDpu' = ToDpu
                         /\ \/ buf[CopyDst] = NoBuf /\ buf' = buf
                            \/ buf[CopyDst] # NoBuf /\ buf' = [buf EXCEPT ![CopyDst].data = buf[CopySrc].data]
                         /\ task' = "held" /\ UNCHANGED <<cfg, connected, offset, file, result>>
                         /\ Answer' = Answer /\ Offer' = Offer
                  PROVE  DmaInv'
  <2>1. \/ GivesUp
        \/ /\ DOMAIN pc' = Sides /\ DOMAIN chan' = Sides /\ DOMAIN result' = Sides
           /\ Dpu = "dma" /\ Dpu' = "save"
           /\ Host' = Host /\ ToHost' = ToHost /\ ToDpu' = ToDpu
           /\ \/ buf[CopyDst] = NoBuf /\ buf' = buf
              \/ buf[CopyDst] # NoBuf /\ buf' = [buf EXCEPT ![CopyDst].data = buf[CopySrc].data]
           /\ task' = "held" /\ UNCHANGED <<cfg, connected, offset, file, result>>
           /\ Answer' = Answer /\ Offer' = Offer
    BY <1>1, DpuMoves, ZenonT(30) DEF Fields, Results, DpuDma, Tell,
       SendMayFail, Abort, Bad, Answer, Offer, GivesUp
  <2> QED BY <2>1, GivesUpInv, Zenon
<1>3. /\ buf' \in [Sides -> Contents]
      /\ ~Dead("host") =>
           /\ Host \in {"recvLen", "recvDone"} /\ Agree
           /\ \A s \in Sides : buf'[s] = [len |-> cfg["host"].size, data |-> "src"]
  <2>1. CopySrc \in Sides /\ CopyDst \in Sides
    BY DEF CopySrc, CopyDst, Peer, Sides
  <2>2. /\ buf \in [Sides -> Contents]
        /\ \A s \in Sides : /\ buf[s] = [len |-> buf[s].len, data |-> buf[s].data]
                            /\ buf[s].len \in Nat
                            /\ buf[s].data \in {"none", "raw", "src", "partial"}
    BY <1>1 DEF Fields, Contents
  <2>3. \A s \in Sides : s # CopyDst \/ buf[CopyDst] = NoBuf => buf'[s] = buf[s]
    BY <1>2, <2>1, <2>2
  <2>4. buf[CopyDst] # NoBuf =>
          buf'[CopyDst] = [len |-> buf[CopyDst].len, data |-> buf[CopySrc].data]
    BY <1>2, <2>1, <2>2
  <2>5. buf' \in [Sides -> Contents]
    BY <1>2, <2>1, <2>2 DEF Contents
  <2>6. ASSUME ~Dead("host") PROVE /\ Host \in {"recvLen", "recvDone"} /\ Agree
                                   /\ \A s \in Sides : buf[s].len = cfg["host"].size /\ buf[s] # NoBuf
                                   /\ buf[CopySrc].data = "src"
    <3>1. Host \in {"recvLen", "recvDone"}
      BY <1>1, <1>2, <2>6, Pending DEF HostGone
    <3>2. Agree
      BY <1>1, <3>1 DEF Settled
    <3>3. /\ \A s \in Sides : buf[s].len = cfg["host"].size /\ buf[s] # NoBuf
          /\ \A s \in Sides : cfg[s].found => buf[s].data = "src"
      BY <1>1, <1>2, <3>1, <3>2 DEF HostBuffer, DpuBuffer, Agree, Sides
    <3> QED BY <1>1, <3>1, <3>2, <3>3 DEF CopySrc, Agree, OneSource, Sides, Fields
  <2>7. ASSUME ~Dead("host"), NEW s \in Sides
        PROVE  buf'[s] = [len |-> cfg["host"].size, data |-> "src"]
    <3>1. s = CopySrc \/ s = CopyDst
      BY DEF CopySrc, CopyDst, Peer, Sides
    <3>2. CopySrc # CopyDst
      BY DEF CopySrc, CopyDst, Peer
    <3> QED BY <2>1, <2>2, <2>3, <2>4, <2>6, <2>7, <3>1, <3>2
  <2> QED BY <2>5, <2>6, <2>7
<1>4. Fields'
  BY <1>1, <1>2, <1>3, Zenon DEF Fields
<1>5. Results'
  BY <1>1, <1>2, <1>3 DEF Results
<1>6. Sources'
  BY <1>1, <1>2, <1>3, Zenon DEF Sources
<1>7. Inbox'
  BY <1>1, <1>2, <1>3, Zenon DEF Inbox
<1>8. Before'
  BY <1>1, <1>2, <1>3, Zenon DEF Before
<1>9. Exchange'
  BY <1>1, <1>2, <1>3 DEF Exchange
<1>10. During'
  BY <1>1, <1>2, <1>3, Zenon DEF During
<1>11. Settled'
  BY <1>1, <1>2, <1>3 DEF Settled, Before, Agree, OneSource, Inbox, Fields
<1>12. HostBuffer'
  BY <1>1, <1>2, <1>3 DEF HostBuffer, Raw, NoBuf, Sides
<1>13. DpuBuffer'
  BY <1>1, <1>2, <1>3, Zenon DEF DpuBuffer
<1>14. HostGone'
  BY <1>1, <1>2, <1>3, Zenon DEF HostGone
<1>15. HostFaithful'
  BY <1>1, <1>2, <1>3, Zenon DEF HostFaithful
<1>16. DpuFaithful'
  BY <1>1, <1>2, <1>3, Zenon DEF DpuFaithful, Fields, Results
<1> QED BY <1>4, <1>5, <1>6, <1>7, <1>8, <1>9, <1>10, <1>11, <1>12,
           <1>13, <1>14, <1>15, <1>16 DEF DmaInv

(* The DPU saves what the device wrote.                                    *)
LEMMA DpuSaveInv ==
  ASSUME DmaInv, DpuSave, UNCHANGED env
  PROVE  DmaInv'
<1> USE DEF Host, Dpu, ToHost, ToDpu, Dead, Last, LastPlaces, HostPlaces, DpuPlaces,
           Copying, ChannelFails
<1>1. Fields /\ Results /\ Sources /\ Inbox /\ Before /\ Exchange
      /\ During /\ Settled /\ HostBuffer /\ DpuBuffer /\ HostGone /\ HostFaithful /\ DpuFaithful
  BY DEF DmaInv
<1>2. SUFFICES ASSUME /\ DOMAIN pc' = Sides /\ DOMAIN chan' = Sides /\ DOMAIN result' = Sides
                         /\ Dpu = "save" /\ Dpu' = "reply"
                         /\ Host' = Host /\ ToHost' = ToHost /\ ToDpu' = ToDpu
                         /\ \/ cfg["dpu"].found /\ file' = file
                            \/ ~cfg["dpu"].found /\ Save("dpu")
                         /\ task' = "none" /\ UNCHANGED <<cfg, connected, buf, offset, result>>
                         /\ Answer' = Answer /\ Offer' = Offer
                  PROVE  DmaInv'
  <2>0. ASSUME ~cfg["dpu"].found, SaveFails("dpu")
        PROVE  file' \in [Sides -> Contents] /\ file'["host"] = file["host"]
    <3>1. PICK f \in {file["dpu"], [len |-> 0, data |-> "partial"]} :
            file' = [file EXCEPT !["dpu"] = f]
      BY <2>0, Zenon DEF SaveFails
    <3>2. f \in Contents
      BY <1>1 DEF Fields, Contents, Sides
    <3> QED BY <1>1, <3>1, <3>2 DEF Fields, Sides
  <2> HIDE DEF SaveFails, Save
  <2>1. \/ GivesUp
        \/ /\ DOMAIN pc' = Sides /\ DOMAIN chan' = Sides /\ DOMAIN result' = Sides
           /\ Dpu = "save" /\ Dpu' = "reply"
           /\ Host' = Host /\ ToHost' = ToHost /\ ToDpu' = ToDpu
           /\ \/ cfg["dpu"].found /\ file' = file
              \/ ~cfg["dpu"].found /\ Save("dpu")
           /\ task' = "none" /\ UNCHANGED <<cfg, connected, buf, offset, result>>
           /\ Answer' = Answer /\ Offer' = Offer
    BY <1>1, <2>0, DpuMoves, ZenonT(30) DEF Fields, Results, DpuSave, Tell,
       SendMayFail, Abort, Bad, Answer, Offer, GivesUp
  <2> QED BY <2>1, GivesUpInv, Zenon
<1>3. /\ file' \in [Sides -> Contents] /\ file'["host"] = file["host"]
      /\ cfg["dpu"].found => file' = file
      /\ ~Dead("host") => Copied'
  <2>1. ASSUME ~Dead("host")
        PROVE  /\ Agree
               /\ \A s \in Sides : buf[s] = [len |-> cfg["host"].size, data |-> "src"]
    BY <1>1, <1>2, <2>1 DEF HostGone, Settled, DpuBuffer
  <2>2. /\ file' \in [Sides -> Contents] /\ file'["host"] = file["host"]
        /\ ~cfg["dpu"].found =>
             file'["dpu"] = [len |-> cfg["dpu"].size, data |-> buf["dpu"].data]
    BY <1>1, <1>2 DEF Save, Fields, Contents, Sides
  <2>3. ASSUME ~Dead("host") PROVE Copied'
    BY <1>1, <1>2, <2>1, <2>2, <2>3 DEF Copied, Agree, OneSource, Sources, Sides, Fields
  <2> QED BY <1>2, <2>2, <2>3, ZenonT(20)
<1>4. Fields'
  BY <1>1, <1>2, <1>3, Zenon DEF Fields
<1>5. Results'
  BY <1>1, <1>2, <1>3, Zenon DEF Results
<1>6. Sources'
  BY <1>1, <1>2, <1>3, Zenon DEF Sources, Sides
<1>7. Inbox'
  BY <1>1, <1>2, <1>3, Zenon DEF Inbox
<1>8. Before'
  BY <1>1, <1>2, <1>3, Zenon DEF Before
<1>9. Exchange'
  BY <1>1, <1>2, <1>3, Zenon DEF Exchange
<1>10. During'
  BY <1>1, <1>2, <1>3, Zenon DEF During
<1>11. Settled'
  BY <1>1, <1>2, <1>3, Zenon DEF Settled, Before, Agree, OneSource, Inbox, Fields
<1>12. HostBuffer'
  BY <1>1, <1>2, <1>3, Zenon DEF HostBuffer
<1>13. DpuBuffer'
  BY <1>1, <1>2, <1>3, Zenon DEF DpuBuffer
<1>14. HostGone'
  BY <1>1, <1>2, <1>3, Zenon DEF HostGone
<1>15. HostFaithful'
  BY <1>1, <1>2, <1>3, Zenon DEF HostFaithful, Fields, Results
<1>16. DpuFaithful'
  BY <1>1, <1>2, <1>3, ZenonT(20) DEF DpuFaithful, Fields, Results
<1> QED BY <1>4, <1>5, <1>6, <1>7, <1>8, <1>9, <1>10, <1>11, <1>12,
           <1>13, <1>14, <1>15, <1>16 DEF DmaInv

(* What waits for the DPU is the length of the host's file.                *)
LEMMA DpuRecvLenInv ==
  ASSUME DmaInv, DpuRecvLen, UNCHANGED env
  PROVE  DmaInv'
<1> USE DEF Host, Dpu, ToHost, ToDpu, Dead, Last, LastPlaces, HostPlaces, DpuPlaces,
           Copying, ChannelFails
<1>1. Fields /\ Results /\ Sources /\ Inbox /\ Before /\ Exchange
      /\ During /\ Settled /\ HostBuffer /\ DpuBuffer /\ HostGone /\ HostFaithful /\ DpuFaithful
  BY DEF DmaInv
<1>2. /\ DOMAIN pc' = Sides /\ DOMAIN chan' = Sides /\ DOMAIN result' = Sides
      /\ Dpu = "recvLen" /\ Host' = Host /\ ToDpu # <<>> /\ ToDpu' = Tail(ToDpu)
      /\ \/ Dpu' = "bufs" /\ ToHost' = Append(ToHost, Good) /\ result' = result
         \/ /\ Dpu' = "cleanup" /\ result'["dpu"] = "err" /\ result'["host"] = result["host"]
            /\ ToHost' = ToHost /\ (ChannelFails \/ Host = "end")
      /\ offset' = Head(ToDpu).size
      /\ UNCHANGED <<cfg, connected, buf, task, file>>
      /\ Answer' = Answer /\ Offer' = Offer
  BY <1>1, DpuMoves, ZenonT(30) DEF Fields, DpuRecvLen, Received, SendTo,
     SendMayFail, Peer, Abort, Good, Answer, Offer
<1>3. /\ ToDpu' = None /\ offset' = cfg["host"].size
      /\ Host \in {"recvLen"} \cup LastPlaces
      /\ Dead("host") => ToDpu # None
      /\ Host = "recvLen" => ToHost = None /\ Append(ToHost, Good) = One(Good)
  <2> DEFINE len == Length(cfg["host"].size)
  <2>1. ToDpu = One(len)
    BY <1>1, <1>2 DEF Inbox, None
  <2>2. One(len) # None /\ Tail(One(len)) = None /\ Head(One(len)) = len
    BY DEF None, One
  <2>3. len.size = cfg["host"].size
    BY ZenonT(20) DEF Length
  <2>4. Host \in {"recvLen"} \cup LastPlaces /\ (Host = "recvLen" => ToHost = None)
    <3> HIDE DEF len
    <3> QED BY <1>1, <1>2, <2>1, <2>2, ZenonT(20) DEF Fields, Before, Exchange, During
  <2> HIDE DEF len
  <2> QED BY <1>2, <2>1, <2>2, <2>3, <2>4, Replies, ZenonT(40)
<1>4. Fields'
  BY <1>1, <1>2, <1>3 DEF Fields, Contents, Sides
<1>5. Results'
  BY <1>1, <1>2, <1>3, Zenon DEF Results
<1>6. Sources'
  BY <1>1, <1>2, <1>3, Zenon DEF Sources
<1>7. Inbox'
  BY <1>1, <1>2, <1>3, Zenon DEF Inbox
<1>8. Before'
  BY <1>1, <1>2, <1>3, Zenon DEF Before
<1>9. Exchange'
  BY <1>1, <1>2, <1>3, Zenon DEF Exchange
<1>10. During'
  BY <1>1, <1>2, <1>3, Zenon DEF During
<1>11. Settled'
  BY <1>1, <1>2, <1>3, Zenon DEF Settled, Before, Agree, OneSource, Inbox, Fields
<1>12. HostBuffer'
  BY <1>1, <1>2, <1>3, Zenon DEF HostBuffer
<1>13. DpuBuffer'
  BY <1>1, <1>2, <1>3, Zenon DEF DpuBuffer
<1>14. HostGone'
  BY <1>1, <1>2, <1>3, Zenon DEF HostGone
<1>15. HostFaithful'
  BY <1>1, <1>2, <1>3, Zenon DEF HostFaithful
<1>16. DpuFaithful'
  BY <1>1, <1>2, <1>3, Zenon DEF DpuFaithful
<1> QED BY <1>4, <1>5, <1>6, <1>7, <1>8, <1>9, <1>10, <1>11, <1>12,
           <1>13, <1>14, <1>15, <1>16 DEF DmaInv

(* The final status follows the copy.                                      *)
LEMMA DpuReplyInv ==
  ASSUME DmaInv, DpuReply, UNCHANGED env
  PROVE  DmaInv'
<1> USE DEF Host, Dpu, ToHost, ToDpu, Dead, Last, LastPlaces, HostPlaces, DpuPlaces,
           Copying, ChannelFails
<1>1. Fields /\ Results /\ Sources /\ Inbox /\ Before /\ Exchange
      /\ During /\ Settled /\ HostBuffer /\ DpuBuffer /\ HostGone /\ HostFaithful /\ DpuFaithful
  BY DEF DmaInv
<1>2. /\ DOMAIN pc' = Sides /\ DOMAIN chan' = Sides /\ DOMAIN result' = Sides
      /\ Dpu = "reply" /\ Dpu' = "cleanup" /\ Host' = Host /\ ToDpu' = ToDpu
      /\ \/ ToHost' = Append(ToHost, Good)
         \/ ToHost' = ToHost /\ (ChannelFails \/ Host = "end")
      /\ result'["dpu"] = "ok" /\ result'["host"] = result["host"]
      /\ UNCHANGED <<cfg, connected, buf, offset, task, file>>
      /\ Answer' = Answer /\ Offer' = Offer
  BY <1>1, DpuMoves, ZenonT(30) DEF Fields, DpuReply, Tell, SendMayFail, Good, Answer, Offer
<1>3. ~Dead("host") =>
        /\ Copied
        /\ \/ Host = "recvLen" /\ ToHost = One(Good) /\ ToHost' \in {One(Good), Two(Good, Good)}
           \/ Host = "recvDone" /\ ToHost = None /\ ToHost' \in {None, One(Good)}
  <2>1. ~Dead("host") =>
          /\ Copied
          /\ \/ Host = "recvLen" /\ ToHost = One(Good)
             \/ Host = "recvDone" /\ ToHost = None
    BY <1>1, <1>2 DEF HostGone, DpuBuffer, During
  <2> QED BY <1>2, <2>1, Replies, ZenonT(20)
<1>4. Fields'
  BY <1>1, <1>2, <1>3, Zenon DEF Fields
<1>5. Results'
  BY <1>1, <1>2, <1>3, Zenon DEF Results
<1>6. Sources'
  BY <1>1, <1>2, <1>3, Zenon DEF Sources
<1>7. Inbox'
  BY <1>1, <1>2, <1>3, Zenon DEF Inbox
<1>8. Before'
  BY <1>1, <1>2, <1>3, ZenonT(40) DEF Before
<1>9. Exchange'
  BY <1>1, <1>2, <1>3 DEF Exchange
<1>10. During'
  BY <1>1, <1>2, <1>3, Zenon DEF During, Copied
<1>11. Settled'
  BY <1>1, <1>2, <1>3, Zenon DEF Settled, Before, Agree, OneSource, Inbox, Fields
<1>12. HostBuffer'
  BY <1>1, <1>2, <1>3, Zenon DEF HostBuffer
<1>13. DpuBuffer'
  BY <1>1, <1>2, <1>3, Zenon DEF DpuBuffer
<1>14. HostGone'
  BY <1>1, <1>2, <1>3, Zenon DEF HostGone
<1>15. HostFaithful'
  BY <1>1, <1>2, <1>3, ZenonT(40) DEF HostFaithful
<1>16. DpuFaithful'
  BY <1>1, <1>2, <1>3 DEF DpuFaithful, Results, Copied, HostGone, Fields
<1> QED BY <1>4, <1>5, <1>6, <1>7, <1>8, <1>9, <1>10, <1>11, <1>12,
           <1>13, <1>14, <1>15, <1>16 DEF DmaInv

(* The host frees its buffer.                                              *)
LEMMA HostCleanupInv ==
  ASSUME DmaInv, Cleanup("host"), UNCHANGED env
  PROVE  DmaInv'
<1> USE DEF Host, Dpu, ToHost, ToDpu, Dead, Last, LastPlaces, HostPlaces, DpuPlaces,
           Copying, ChannelFails
<1>1. Fields /\ Results /\ Sources /\ Inbox /\ Before /\ Exchange
      /\ During /\ Settled /\ HostBuffer /\ DpuBuffer /\ HostGone /\ HostFaithful /\ DpuFaithful
  BY DEF DmaInv
<1>2. /\ DOMAIN pc' = Sides /\ DOMAIN chan' = Sides /\ DOMAIN result' = Sides
      /\ Host = "cleanup" /\ Host' = "destroyCc" /\ Dpu' = Dpu
      /\ buf' = [buf EXCEPT !["host"] = NoBuf]
      /\ result'["dpu"] = result["dpu"] /\ result'["host"] \in {result["host"], "err"}
      /\ UNCHANGED <<cfg, chan, connected, offset, task, file>>
      /\ Answer' = Answer /\ Offer' = Offer
  BY <1>1 DEF Fields, Cleanup, Sides, Answer, Offer
<1>3. Fields'
  BY <1>1, <1>2, Zenon DEF Fields, Contents, Sides, NoBuf
<1>4. Results'
  BY <1>1, <1>2, Zenon DEF Results
<1>5. Sources'
  BY <1>1, <1>2, Zenon DEF Sources
<1>6. Inbox'
  BY <1>1, <1>2, Zenon DEF Inbox
<1>7. Before'
  BY <1>1, <1>2, Zenon DEF Before
<1>8. Exchange'
  BY <1>1, <1>2, Zenon DEF Exchange
<1>9. During'
  BY <1>1, <1>2, Zenon DEF During
<1>10. Settled'
  BY <1>1, <1>2, Zenon DEF Settled
<1>11. HostBuffer'
  BY <1>1, <1>2, Zenon DEF HostBuffer
<1>12. DpuBuffer'
  BY <1>1, <1>2 DEF DpuBuffer
<1>13. HostGone'
  BY <1>1, <1>2, Zenon DEF HostGone
<1>14. HostFaithful'
  BY <1>1, <1>2, Zenon DEF HostFaithful
<1>15. DpuFaithful'
  BY <1>1, <1>2 DEF DpuFaithful
<1> QED BY <1>3, <1>4, <1>5, <1>6, <1>7, <1>8, <1>9, <1>10, <1>11,
           <1>12, <1>13, <1>14, <1>15 DEF DmaInv

(* The host leaves the channel.                                            *)
LEMMA HostDestroyCcInv ==
  ASSUME DmaInv, DestroyCc("host"), UNCHANGED env
  PROVE  DmaInv'
<1> USE DEF Host, Dpu, ToHost, ToDpu, Dead, Last, LastPlaces, HostPlaces, DpuPlaces,
           Copying, ChannelFails
<1>1. Fields /\ Results /\ Sources /\ Inbox /\ Before /\ Exchange
      /\ During /\ Settled /\ HostBuffer /\ DpuBuffer /\ HostGone /\ HostFaithful /\ DpuFaithful
  BY DEF DmaInv
<1>2. /\ DOMAIN pc' = Sides /\ DOMAIN chan' = Sides /\ DOMAIN result' = Sides
      /\ Host = "destroyCc" /\ Host' = "end" /\ Dpu' = Dpu
      /\ UNCHANGED <<cfg, chan, connected, buf, offset, task, file, result>>
      /\ Answer' = Answer /\ Offer' = Offer
  BY <1>1 DEF Fields, DestroyCc, Sides, Answer, Offer
<1>3. Fields'
  BY <1>1, <1>2, Zenon DEF Fields
<1>4. Results'
  BY <1>1, <1>2, Zenon DEF Results
<1>5. Sources'
  BY <1>1, <1>2, Zenon DEF Sources
<1>6. Inbox'
  BY <1>1, <1>2, Zenon DEF Inbox
<1>7. Before'
  BY <1>1, <1>2, Zenon DEF Before
<1>8. Exchange'
  BY <1>1, <1>2, Zenon DEF Exchange
<1>9. During'
  BY <1>1, <1>2, Zenon DEF During
<1>10. Settled'
  BY <1>1, <1>2, Zenon DEF Settled
<1>11. HostBuffer'
  BY <1>1, <1>2, Zenon DEF HostBuffer
<1>12. DpuBuffer'
  BY <1>1, <1>2, Zenon DEF DpuBuffer
<1>13. HostGone'
  BY <1>1, <1>2, Zenon DEF HostGone
<1>14. HostFaithful'
  BY <1>1, <1>2, Zenon DEF HostFaithful
<1>15. DpuFaithful'
  BY <1>1, <1>2, Zenon DEF DpuFaithful
<1> QED BY <1>3, <1>4, <1>5, <1>6, <1>7, <1>8, <1>9, <1>10, <1>11,
           <1>12, <1>13, <1>14, <1>15 DEF DmaInv

(* The DPU frees its buffer.                                               *)
LEMMA DpuCleanupInv ==
  ASSUME DmaInv, Cleanup("dpu"), UNCHANGED env
  PROVE  DmaInv'
<1> USE DEF Host, Dpu, ToHost, ToDpu, Dead, Last, LastPlaces, HostPlaces, DpuPlaces,
           Copying, ChannelFails
<1>1. Fields /\ Results /\ Sources /\ Inbox /\ Before /\ Exchange
      /\ During /\ Settled /\ HostBuffer /\ DpuBuffer /\ HostGone /\ HostFaithful /\ DpuFaithful
  BY DEF DmaInv
<1>2. /\ DOMAIN pc' = Sides /\ DOMAIN chan' = Sides /\ DOMAIN result' = Sides
      /\ Dpu = "cleanup" /\ Dpu' = "destroyCc" /\ Host' = Host
      /\ buf' = [buf EXCEPT !["dpu"] = NoBuf]
      /\ result'["host"] = result["host"] /\ result'["dpu"] \in {result["dpu"], "err"}
      /\ UNCHANGED <<cfg, chan, connected, offset, task, file>>
      /\ Answer' = Answer /\ Offer' = Offer
  BY <1>1 DEF Fields, Cleanup, Sides, Answer, Offer
<1>3. Fields'
  BY <1>1, <1>2, Zenon DEF Fields, Contents, Sides, NoBuf
<1>4. Results'
  BY <1>1, <1>2, Zenon DEF Results
<1>5. Sources'
  BY <1>1, <1>2, Zenon DEF Sources
<1>6. Inbox'
  BY <1>1, <1>2, Zenon DEF Inbox
<1>7. Before'
  BY <1>1, <1>2, Zenon DEF Before
<1>8. Exchange'
  BY <1>1, <1>2, Zenon DEF Exchange
<1>9. During'
  BY <1>1, <1>2 DEF During, Copied, Sides
<1>10. Settled'
  BY <1>1, <1>2, ZenonT(40) DEF Settled, Before, Agree, OneSource, Inbox, Fields
<1>11. HostBuffer'
  BY <1>1, <1>2 DEF HostBuffer
<1>12. DpuBuffer'
  BY <1>1, <1>2, Zenon DEF DpuBuffer
<1>13. HostGone'
  BY <1>1, <1>2, Zenon DEF HostGone
<1>14. HostFaithful'
  BY <1>1, <1>2, Zenon DEF HostFaithful
<1>15. DpuFaithful'
  BY <1>1, <1>2, SMTT(30), Z3T(30) DEF DpuFaithful
<1> QED BY <1>3, <1>4, <1>5, <1>6, <1>7, <1>8, <1>9, <1>10, <1>11,
           <1>12, <1>13, <1>14, <1>15 DEF DmaInv

(* The DPU leaves the channel.                                             *)
LEMMA DpuDestroyCcInv ==
  ASSUME DmaInv, DestroyCc("dpu"), UNCHANGED env
  PROVE  DmaInv'
<1> USE DEF Host, Dpu, ToHost, ToDpu, Dead, Last, LastPlaces, HostPlaces, DpuPlaces,
           Copying, ChannelFails
<1>1. Fields /\ Results /\ Sources /\ Inbox /\ Before /\ Exchange
      /\ During /\ Settled /\ HostBuffer /\ DpuBuffer /\ HostGone /\ HostFaithful /\ DpuFaithful
  BY DEF DmaInv
<1>2. /\ DOMAIN pc' = Sides /\ DOMAIN chan' = Sides /\ DOMAIN result' = Sides
      /\ Dpu = "destroyCc" /\ Dpu' = "end" /\ Host' = Host
      /\ UNCHANGED <<cfg, chan, connected, buf, offset, task, file, result>>
      /\ Answer' = Answer /\ Offer' = Offer
  BY <1>1 DEF Fields, DestroyCc, Sides, Answer, Offer
<1>3. Fields'
  BY <1>1, <1>2, Zenon DEF Fields
<1>4. Results'
  BY <1>1, <1>2, Zenon DEF Results
<1>5. Sources'
  BY <1>1, <1>2, Zenon DEF Sources
<1>6. Inbox'
  BY <1>1, <1>2, Zenon DEF Inbox
<1>7. Before'
  BY <1>1, <1>2, Zenon DEF Before
<1>8. Exchange'
  BY <1>1, <1>2, Zenon DEF Exchange
<1>9. During'
  BY <1>1, <1>2, Zenon DEF During, Copied
<1>10. Settled'
  BY <1>1, <1>2, Zenon DEF Settled, Before, Agree, OneSource, Inbox, Fields
<1>11. HostBuffer'
  BY <1>1, <1>2, Zenon DEF HostBuffer
<1>12. DpuBuffer'
  BY <1>1, <1>2, Zenon DEF DpuBuffer
<1>13. HostGone'
  BY <1>1, <1>2, Zenon DEF HostGone
<1>14. HostFaithful'
  BY <1>1, <1>2, Zenon DEF HostFaithful
<1>15. DpuFaithful'
  BY <1>1, <1>2, ZenonT(20) DEF DpuFaithful
<1> QED BY <1>3, <1>4, <1>5, <1>6, <1>7, <1>8, <1>9, <1>10, <1>11,
           <1>12, <1>13, <1>14, <1>15 DEF DmaInv

(* The DPU takes the host's offer or refuses it.                           *)
LEMMA DpuNegotiateInv ==
  ASSUME DmaInv, DpuNegotiate, UNCHANGED env
  PROVE  DmaInv'
<1> USE DEF Host, Dpu, ToHost, ToDpu, Dead, Last, LastPlaces, HostPlaces, DpuPlaces,
           Copying, ChannelFails
<1>1. Fields /\ Results /\ Sources /\ Inbox /\ Before /\ Exchange
      /\ During /\ Settled /\ HostBuffer /\ DpuBuffer /\ HostGone /\ HostFaithful /\ DpuFaithful
  BY DEF DmaInv
<1>2. /\ DOMAIN pc' = Sides /\ DOMAIN chan' = Sides /\ DOMAIN result' = Sides
      /\ Dpu = "recvDir" /\ Host' = Host /\ ToDpu # <<>> /\ ToDpu' = Tail(ToDpu)
      /\ cfg' = IF Head(ToDpu).inHost /\ ~cfg["dpu"].found
                THEN [cfg EXCEPT !["dpu"].size = Head(ToDpu).size] ELSE cfg
      /\ \/ /\ Dpu' = "alloc" /\ ToHost' = Append(ToHost, Answer) /\ result' = result
            /\ Agreed(Head(ToDpu))
         \/ /\ Dpu' = "cleanup" /\ result'["dpu"] = "err" /\ result'["host"] = result["host"]
            /\ ToHost' = ToHost \/ ToHost' = Append(ToHost, Bad)
      /\ UNCHANGED <<connected, buf, offset, task, file>>
  BY <1>1, DpuMoves, ZenonT(30) DEF Fields, DpuNegotiate, Received, SendTo,
     Tell, SendMayFail, Peer, Abort, Bad, Answer
<1>3. /\ ToDpu' = None /\ Answer' = Answer /\ Offer' = Offer
      /\ Host \in {"recvDir"} \cup LastPlaces
      /\ Host = "recvDir" => /\ ToHost = None
                             /\ \/ Dpu' = "alloc" /\ ToHost' = One(Answer)
                                \/ Dpu' = "cleanup" /\ ToHost' \in {None, One(Bad)}
      /\ cfg' \in [Sides -> [found : BOOLEAN, size : Nat]]
      /\ \A s \in Sides : cfg'[s].found = cfg[s].found
      /\ Dpu' = "alloc" => OneSource' /\ (cfg'["host"].found => Agree')
  <2>1. ToDpu = One(Offer)
    BY <1>1, <1>2 DEF Inbox, None
  <2>2. One(Offer) # None /\ Tail(One(Offer)) = None /\ Head(One(Offer)) = Offer
    BY DEF None, One
  <2>3. Host \in {"recvDir"} \cup LastPlaces /\ (Host = "recvDir" => ToHost = None)
    BY <1>1, <1>2, <2>1, <2>2 DEF Fields, Before, Exchange, During
  <2>4. \/ /\ cfg["host"].found /\ ~cfg["dpu"].found
           /\ cfg' = [cfg EXCEPT !["dpu"].size = cfg["host"].size]
        \/ ~(cfg["host"].found /\ ~cfg["dpu"].found) /\ cfg' = cfg
    <3>1. Head(ToDpu) = Offer
      BY <2>1, <2>2
    <3>2. Offer.inHost = cfg["host"].found /\ Offer.size = cfg["host"].size
      BY Messages
    <3>3. cfg' = IF Offer.inHost /\ ~cfg["dpu"].found
                 THEN [cfg EXCEPT !["dpu"].size = Offer.size] ELSE cfg
      BY <1>2, <3>1, ZenonT(20)
    <3> QED BY ONLY <3>2, <3>3
  <2>5. /\ cfg' \in [Sides -> [found : BOOLEAN, size : Nat]]
        /\ \A s \in Sides : cfg'[s].found = cfg[s].found
        /\ cfg'["host"] = cfg["host"] /\ (cfg["dpu"].found => cfg'["dpu"] = cfg["dpu"])
        /\ cfg["host"].found /\ ~cfg["dpu"].found => cfg'["dpu"].size = cfg["host"].size
    BY <1>1, <2>4 DEF Fields, Sides
  <2>6. Answer' = Answer /\ Offer' = Offer
    BY <2>5 DEF Answer, Offer, Sides
  <2>7. Dpu' = "alloc" => OneSource' /\ (cfg'["host"].found => Agree')
    <3>1. Dpu' = "alloc" => cfg["dpu"].found # cfg["host"].found
      BY <1>2, <2>1, <2>2, Messages DEF Agreed
    <3> QED BY <1>1, <2>5, <3>1 DEF OneSource, Agree, Fields, Sides
  <2>8. ToDpu' = None
    BY <1>2, <2>1, <2>2
  <2>9. Host = "recvDir" => \/ Dpu' = "alloc" /\ ToHost' = One(Answer)
                            \/ Dpu' = "cleanup" /\ ToHost' \in {None, One(Bad)}
    BY <1>2, <2>3, Replies, Zenon
  <2> QED BY <2>3, <2>5, <2>6, <2>7, <2>8, <2>9
<1>4. Fields'
  BY <1>1, <1>2, <1>3, Zenon DEF Fields
<1>5. Results'
  BY <1>1, <1>2, <1>3, Zenon DEF Results
<1>6. Sources'
  BY <1>1, <1>2, <1>3, Zenon DEF Sources
<1>7. Inbox'
  BY <1>1, <1>2, <1>3, Zenon DEF Inbox
<1>8. Before'
  BY <1>1, <1>2, <1>3, Zenon DEF Before
<1>9. Exchange'
  BY <1>1, <1>2, <1>3 DEF Exchange
<1>10. During'
  BY <1>1, <1>2, <1>3 DEF During
<1>11. Settled'
  <2>1. Host = "recvDir" /\ ToHost' \in {One(Answer), Two(Answer, Bad)} => Dpu' = "alloc"
    BY <1>3, Replies, Zenon
  <2> QED BY <1>1, <1>2, <1>3, <2>1 DEF Settled
<1>12. HostBuffer'
  BY <1>1, <1>2, <1>3, Zenon DEF HostBuffer
<1>13. DpuBuffer'
  BY <1>1, <1>2, <1>3, Zenon DEF DpuBuffer
<1>14. HostGone'
  BY <1>1, <1>2, <1>3, Zenon DEF HostGone
<1>15. HostFaithful'
  BY <1>1, <1>2, <1>3 DEF HostFaithful
<1>16. DpuFaithful'
  <2>1. /\ UNCHANGED <<buf, file>> /\ DpuFaithful
        /\ cfg'["dpu"].found = cfg["dpu"].found
        /\ result'["dpu"] = "ok" => result["dpu"] = "ok"
    BY <1>1, <1>2, <1>3, Zenon DEF Sides
  <2> QED BY <2>1, Zenon DEF DpuFaithful
<1> QED BY <1>4, <1>5, <1>6, <1>7, <1>8, <1>9, <1>10, <1>11, <1>12,
           <1>13, <1>14, <1>15, <1>16 DEF DmaInv

(* The initial states.                                                     *)
LEMMA DmaInitInv == DmaInit => DmaInv
<1> SUFFICES ASSUME DmaInit PROVE DmaInv
  BY SMTT(30)
<1> USE DEF Host, Dpu, ToHost, ToDpu, Dead, Last, LastPlaces, HostPlaces, DpuPlaces,
            Copying, Sides
<1>1. /\ Host = "connect" /\ Dpu = "setup" /\ ToHost = None /\ ToDpu = None
      /\ result["host"] = "none" /\ result["dpu"] = "none" /\ task = "none"
  BY DEF DmaInit, None
<1>2. cfg \in [Sides -> [found : BOOLEAN, size : Nat]]
  <2> DEFINE C == {[found |-> FALSE, size |-> 0]}
                  \cup {[found |-> TRUE, size |-> n] : n \in Sizes}
             R == [found : BOOLEAN, size : Nat]
  <2>0. /\ [found |-> FALSE, size |-> 0] \in R
        /\ \A n \in Sizes : [found |-> TRUE, size |-> n] \in R
    BY DmaCopyAssumption
  <2>1. \A c \in C : c \in R
    <3> HIDE DEF R
    <3> QED BY <2>0, Zenon
  <2>2. cfg \in [Sides -> C]
    BY DEF DmaInit
  <2> HIDE DEF C, R
  <2>3. cfg \in [Sides -> R]
    BY <2>1, <2>2
  <2> QED BY <2>3 DEF R
<1>3. NoBuf \in Contents
  BY DEF NoBuf, Contents
<1>4. Fields
  <2>1. DOMAIN pc = Sides /\ DOMAIN chan = Sides /\ DOMAIN result = Sides
    BY ZenonT(20) DEF DmaInit
  <2>2. buf \in [Sides -> Contents] /\ file \in [Sides -> Contents]
    BY <1>2, <1>3 DEF DmaInit, Contents
  <2>3. connected \in BOOLEAN /\ offset \in Nat
    BY Zenon DEF DmaInit
  <2> QED BY <1>1, <1>2, <2>1, <2>2, <2>3 DEF Fields
<1>5. Sources
  BY <1>2 DEF DmaInit, Sources
<1> QED BY <1>1, <1>4, <1>5, ZenonT(20) DEF DmaInv, Results, Inbox, Before, Exchange, During, Settled,
     HostBuffer, DpuBuffer, HostGone, HostFaithful, DpuFaithful

(* Every step preserves the invariant.                                     *)
LEMMA DmaStepInv == DmaInv /\ [DmaNext]_dmaVars => DmaInv'
<1> SUFFICES ASSUME DmaInv, [DmaNext]_dmaVars PROVE DmaInv'
  OBVIOUS
<1>1. CASE HostNext
  <2>1. CASE HostConnect /\ UNCHANGED env
    BY <2>1, HostConnectInv
  <2>2. CASE HostRecvDir /\ UNCHANGED env
    BY <2>2, HostRecvDirInv, ZenonT(20)
  <2>3. CASE HostAlloc /\ UNCHANGED env
    BY <2>3, HostAllocInv
  <2>4. CASE HostRecvStatus /\ UNCHANGED env
    BY <2>4, HostRecvStatusInv
  <2>5. CASE HostRecvError /\ UNCHANGED env
    BY <2>5, HostRecvErrorInv
  <2>6. CASE HostFill /\ UNCHANGED env
    BY <2>6, HostFillInv
  <2>7. CASE HostSendAddr /\ UNCHANGED env
    BY <2>7, HostSendAddrInv
  <2>8. CASE HostSendLen /\ UNCHANGED env
    BY <2>8, HostSendLenInv
  <2>9. CASE HostSave /\ UNCHANGED env
    BY <2>9, HostSaveInv
  <2>10. CASE Cleanup("host") /\ UNCHANGED env
    BY <2>10, HostCleanupInv
  <2>11. CASE DestroyCc("host") /\ UNCHANGED env
    BY <2>11, HostDestroyCcInv
  <2> QED BY <1>1, <2>1, <2>2, <2>3, <2>4, <2>5, <2>6, <2>7, <2>8, <2>9,
           <2>10, <2>11, ZenonT(20) DEF HostNext, HostStep
<1>2. CASE DpuNext
  <2>1. CASE DpuSetup /\ UNCHANGED env
    BY <2>1, DpuSetupInv
  <2>2. CASE DpuNegotiate /\ UNCHANGED env
    BY <2>2, DpuNegotiateInv
  <2>3. CASE DpuRecvError /\ UNCHANGED env
    BY <2>3, DpuRecvErrorInv
  <2>4. CASE DpuAlloc /\ UNCHANGED env
    BY <2>4, DpuAllocInv
  <2>5. CASE DpuRecvExport /\ UNCHANGED env
    BY <2>5, DpuRecvExportInv
  <2>6. CASE DpuImport /\ UNCHANGED env
    BY <2>6, DpuImportInv
  <2>7. CASE DpuRecvAddr /\ UNCHANGED env
    BY <2>7, DpuRecvAddrInv
  <2>8. CASE DpuRecvLen /\ UNCHANGED env
    BY <2>8, DpuRecvLenInv
  <2>9. CASE DpuBufs /\ UNCHANGED env
    BY <2>9, DpuBufsInv
  <2>10. CASE DpuFill /\ UNCHANGED env
    BY <2>10, DpuFillInv
  <2>11. CASE DpuSubmit /\ UNCHANGED env
    BY <2>11, DpuSubmitInv
  <2>12. CASE DpuDma /\ UNCHANGED env
    BY <2>12, DpuDmaInv
  <2>13. CASE DpuSave /\ UNCHANGED env
    BY <2>13, DpuSaveInv
  <2>14. CASE DpuReply /\ UNCHANGED env
    BY <2>14, DpuReplyInv
  <2>15. CASE Cleanup("dpu") /\ UNCHANGED env
    BY <2>15, DpuCleanupInv
  <2>16. CASE DestroyCc("dpu") /\ UNCHANGED env
    BY <2>16, DpuDestroyCcInv
  <2> QED BY <1>2, <2>1, <2>2, <2>3, <2>4, <2>5, <2>6, <2>7, <2>8, <2>9,
           <2>10, <2>11, <2>12, <2>13, <2>14, <2>15, <2>16, ZenonT(20) DEF DpuNext, DpuStep
<1>3. CASE UNCHANGED dmaVars
  <2> USE DEF Host, Dpu, ToHost, ToDpu, Dead, Last, ChannelFails, Answer, Offer
  <2>1. /\ Fields' = Fields /\ Results' = Results /\ Sources' = Sources
        /\ HostFaithful' = HostFaithful /\ DpuFaithful' = DpuFaithful
    BY <1>3, SMTT(30) DEF dmaVars, Fields, Results, Sources, HostFaithful, DpuFaithful
  <2>2. Inbox' = Inbox /\ Before' = Before /\ Exchange' = Exchange
    BY <1>3, ZenonT(40) DEF dmaVars, Inbox, Before, Exchange
  <2>3. During' = During /\ Settled' = Settled
    BY <1>3, ZenonT(20) DEF dmaVars, During, Copied, Settled, Agree, OneSource
  <2>4. HostBuffer' = HostBuffer /\ DpuBuffer' = DpuBuffer /\ HostGone' = HostGone
    BY <1>3 DEF dmaVars, HostBuffer, DpuBuffer, HostGone, Copied
  <2> QED BY <2>1, <2>2, <2>3, <2>4, ZenonT(20) DEF DmaInv
<1> QED BY <1>1, <1>2, <1>3 DEF DmaNext

(* DmaInv is an invariant for every set of sizes, device limit and set of  *)
(* environments.                                                           *)
THEOREM DmaInvariant == DmaSpec => []DmaInv
<1>1. DmaInit => DmaInv
  BY DmaInitInv
<1>2. DmaInv /\ [DmaNext]_dmaVars => DmaInv'
  BY DmaStepInv
<1> QED BY <1>1, <1>2, PTL DEF DmaSpec

(* Type correctness of the two programs of dma_copy_core.c.                *)
THEOREM DmaTypeCorrect == DmaSpec => []DmaTypeOK
<1>1. DmaInv => DmaTypeOK
  BY DEF DmaInv, Fields, Results, DmaTypeOK, Dead, Host, Dpu, Sides
<1> QED BY <1>1, DmaInvariant, PTL

(* A host that reports success has the same whole file as the DPU,         *)
(* whatever fails: for files of any size.                                  *)
THEOREM DmaHostFaithful == DmaSpec => []HostFaithful
<1>1. DmaInv => HostFaithful
  BY DEF DmaInv
<1> QED BY <1>1, DmaInvariant, PTL

(* A DPU that reports success has copied the file, unless a Comm Channel   *)
(* call failed.                                                            *)
THEOREM DmaDpuFaithful == DmaSpec => []DpuFaithful
<1>1. DmaInv => DpuFaithful
  BY DEF DmaInv
<1> QED BY <1>1, DmaInvariant, PTL

(* Unless a Comm Channel call failed the device works on live buffers of   *)
(* the agreed size, and the source buffer is filled.                       *)
THEOREM DmaLiveBuffers == DmaSpec => []DmaOverLiveBuffers
<1>1. ASSUME DmaInv, task = "inflight", ~ChannelFails
      PROVE  /\ Dpu = "dma" /\ Host \in {"recvLen", "recvDone"} /\ Agree
             /\ offset = cfg["host"].size
  <2>1. Dpu = "dma" /\ ~Dead("dpu")
    BY <1>1 DEF DmaInv, Results, Dead, LastPlaces, Dpu
  <2>2. ~Dead("host")
    BY <1>1, <2>1 DEF DmaInv, HostGone, Copying
  <2>3. Host \in {"recvLen", "recvDone"}
    BY <1>1, <2>1, <2>2, Pending DEF DmaInv, HostGone, Copying, Dead, Host
  <2>4. Agree
    BY <1>1, <2>3 DEF DmaInv, Settled, HostPlaces
  <2>5. offset = cfg["host"].size
    BY <1>1, <2>1, <2>2 DEF DmaInv, DpuBuffer, Copying
  <2> QED BY <2>1, <2>3, <2>4, <2>5
<1>2. ASSUME DmaInv, task = "inflight", ~ChannelFails
      PROVE  /\ buf["host"] # NoBuf /\ buf["dpu"] # NoBuf
             /\ \A s \in Sides : buf[s].len = offset
             /\ \A s \in Sides : cfg[s].found => buf[s].data = "src"
  <2>1. /\ buf["host"].len = cfg["host"].size /\ buf["host"] # NoBuf
        /\ cfg["host"].found => buf["host"].data = "src"
    BY <1>1, <1>2, ZenonT(20) DEF DmaInv, HostBuffer
  <2>2. /\ buf["dpu"].len = cfg["dpu"].size /\ buf["dpu"] # NoBuf
        /\ cfg["dpu"].found => buf["dpu"].data = "src"
    BY <1>1, <1>2 DEF DmaInv, DpuBuffer
  <2> QED BY <1>1, <1>2, <2>1, <2>2 DEF Agree, Sides
<1>3. DmaInv => DmaOverLiveBuffers
  BY <1>1, <1>2 DEF DmaInv, DmaOverLiveBuffers, HostBufferKept, CopySrc, Agree, OneSource,
     Sides, Fields
<1> QED BY <1>3, DmaInvariant, PTL

=============================================================================
