------------------------ MODULE FileIntegrityProofs ------------------------
(***************************************************************************)
(* Proofs about FileIntegrity, for files and blocks of any size, an old    *)
(* file of any size and anything that may go wrong.                        *)
(***************************************************************************)
EXTENDS FileIntegrity, TLAPS

Longer(a, b) == IF b > a THEN b ELSE a

(* The bytes in the first k messages of a file of n bytes.                 *)
Upto(n, k) == IF k < TotalMsgs(n) THEN k * PartialBlock ELSE n

Size == Len(data)
Messages == TotalMsgs(Size)

Zero(s) == \A i \in 1 .. Len(s) : s[i] = 0
Content == Seq({0, 1})
Message == [type : {"sha", "data"}, body : Content] \cup [type : {"total"}, n : Nat]

Receiving == spc \in {"start", "recvSha", "recvTotal", "recvOne", "recvPart"}

(* The messages the client has sent, and those the server has taken.       *)
Posted == IF cpc = "hash" THEN 0 ELSE IF cpc = "total" THEN 1 ELSE 2 + sent
Taken == IF spc \in {"start", "recvSha"} THEN 0
         ELSE IF spc = "recvTotal" THEN 1 ELSE 2 + count

(* The k-th message of the client: the hash, the number of messages, or a  *)
(* block of the right length, of the content that was hashed if the file   *)
(* has not changed.                                                        *)
Right(k, m) ==
  /\ k = 1 => m.body = hashed /\ hashed = Bytes(Size)
  /\ k = 2 => m.n = Messages
  /\ k > 2 => /\ k - 3 < Messages
              /\ m.body \in Content
              /\ Len(m.body) = Upto(Size, k - 2) - Upto(Size, k - 3)
              /\ data = hashed => Zero(m.body)

Fields ==
  /\ env \in Envs
  /\ data \in Content /\ Size \in Sizes
  /\ toServer \in Seq(Message)
  /\ acc \in Content /\ disk \in Seq({0, 1, 2})
  /\ total \in Nat /\ hashLen \in BOOLEAN

(* The client, place by place.                                             *)
Sending ==
  /\ cpc = "hash" => /\ data = Bytes(Size) /\ spc \in {"start", "recvSha", "end"}
                     /\ verdict = "none"
  /\ cpc \in {"hash", "total"} => sent = 0
  /\ cpc \in {"total", "send", "finish"} => hashed = Bytes(Size)
  /\ cpc = "send" => sent < Messages

(* What is between the programs while the server receives.                 *)
Queue ==
  Receiving =>
    /\ \A j \in 1 .. Len(toServer) : Right(Taken + j, toServer[j])
    /\ cpc # "end" => Taken + Len(toServer) = Posted

(* The server, place by place.                                             *)
Progress ==
  /\ spc \in {"recvTotal", "recvOne", "recvPart", "compare"} =>
       sha = hashed /\ hashed = Bytes(Size)
  /\ spc \in {"recvOne", "recvPart", "compare"} => total = Messages
  /\ spc = "recvOne" => total = 1
  /\ spc \in {"start", "recvSha", "recvTotal", "recvOne"} =>
       written = 0 /\ acc = <<>> /\ count = 0
  /\ spc = "recvPart" => written = Upto(Size, count) /\ Len(acc) = written /\ count < total
  /\ spc = "compare" /\ hashLen => written = Size /\ Len(acc) = Size
  /\ spc = "compare" /\ ~Fault("task") => hashLen
  /\ Receiving => ~hashLen
  /\ verdict # "none" => spc \in {"finish", "end"} /\ hashed = Bytes(Size)

(* Beyond what is written, the file at the server's path is the one that   *)
(* was there before, to its end.                                           *)
Tailed ==
  /\ \A i \in written + 1 .. Len(disk) : disk[i] = 2
  /\ \E n \in OldSizes : Len(disk) = Longer(n, written)

(* The file at the server's path begins with what its hash covers.         *)
OnDisk ==
  Receiving \/ (spc = "compare" /\ hashLen) =>
    /\ written <= Len(disk)
    /\ \A i \in 1 .. written : disk[i] = acc[i]
    /\ Tailed
    /\ data = hashed => Zero(acc)

FiInv == FiTypeOK /\ Fields /\ Sending /\ Queue /\ Progress /\ OnDisk /\ RejectsOnlyChanges

(* No file that was at the server's path is longer than a file sent.       *)
OldFits == \A o \in OldSizes, n \in Sizes : o <= n

-----------------------------------------------------------------------------
(* Arithmetic of the blocks.                                               *)

LEMMA BlockSize == PartialBlock \in Nat \ {0}
<1>1. MaxMsg % MinBlock \in 0 .. MinBlock - 1
  BY FileIntegrityAssumption
<1> QED BY <1>1, FileIntegrityAssumption DEF PartialBlock

(* A quotient between the multiples it lies between.                       *)
LEMMA Quotient ==
  ASSUME NEW a \in Nat, NEW b \in Nat \ {0}
  PROVE  a \div b \in Nat /\ (a \div b) * b <= a /\ a < (a \div b) * b + b
<1>1. a = b * (a \div b) + (a % b) /\ a % b \in 0 .. b - 1 /\ a \div b \in Nat
  OBVIOUS
<1> QED BY <1>1

LEMMA Multiples ==
  ASSUME NEW p \in Nat, NEW k \in Nat
  PROVE  /\ k * p \in Nat /\ (k + 1) * p = k * p + p
         /\ \A m \in Nat : k <= m => k * p <= m * p
<1>1. k * p \in Nat /\ (k + 1) * p = k * p + p
  OBVIOUS
<1>2. ASSUME NEW m \in Nat, k <= m PROVE k * p <= m * p
  <2>1. PICK d \in Nat : m = k + d
    <3>1. m - k \in Nat /\ m = k + (m - k)
      BY <1>2
    <3> QED BY <3>1
  <2>2. m * p = k * p + d * p /\ d * p \in Nat
    BY <2>1
  <2> QED BY <1>1, <2>2
<1> QED BY <1>1, <1>2

(* The messages of a file hold it: each but the last a whole block.        *)
LEMMA Split ==
  ASSUME NEW n \in Nat \ {0}
  PROVE  /\ TotalMsgs(n) \in Nat \ {0} /\ Upto(n, 0) = 0 /\ Upto(n, TotalMsgs(n)) = n
         /\ \A k \in 0 .. TotalMsgs(n) - 1 :
              /\ Upto(n, k) \in Nat /\ Upto(n, k + 1) \in Nat
              /\ k * PartialBlock = Upto(n, k)
              /\ MIN(n, k * PartialBlock + PartialBlock) = Upto(n, k + 1)
              /\ Upto(n, k) < Upto(n, k + 1) /\ Upto(n, k + 1) <= n
<1> DEFINE p == PartialBlock
           q == (n - 1) \div p
<1>1. p \in Nat \ {0}
  BY BlockSize
<1>2. q \in Nat /\ q * p <= n - 1 /\ n - 1 < q * p + p
  BY <1>1, Quotient
<1>3. TotalMsgs(n) = 1 + q
  BY DEF TotalMsgs
<1> HIDE DEF p, q
<1>4. Upto(n, 0) = 0 /\ Upto(n, TotalMsgs(n)) = n
  BY <1>1, <1>2, <1>3 DEF Upto, p
<1>5. ASSUME NEW k \in 0 .. TotalMsgs(n) - 1
      PROVE  /\ Upto(n, k) \in Nat /\ Upto(n, k + 1) \in Nat
             /\ k * PartialBlock = Upto(n, k)
             /\ MIN(n, k * PartialBlock + PartialBlock) = Upto(n, k + 1)
             /\ Upto(n, k) < Upto(n, k + 1) /\ Upto(n, k + 1) <= n
  <2>1. k \in Nat /\ k <= q
    BY <1>2, <1>3
  <2>2. /\ k * p \in Nat /\ (k + 1) * p = k * p + p /\ k * p <= q * p
        /\ k < q => (k + 1) * p <= q * p
    BY <2>1, <1>1, <1>2, Multiples
  <2>3. Upto(n, k) = k * p
    BY <2>1, <1>2, <1>3 DEF Upto, p
  <2>4. CASE k < q
    <3>1. Upto(n, k + 1) = k * p + p /\ k * p + p <= n - 1 /\ q * p \in Nat
      BY <2>4, <2>1, <2>2, <1>1, <1>2, <1>3 DEF Upto, p
    <3>2. MIN(n, k * p + p) = k * p + p
      BY <3>1, <2>2, <1>1 DEF MIN
    <3> QED BY <3>1, <3>2, <2>2, <2>3, <1>1 DEF p
  <2>5. CASE k = q
    <3>1. Upto(n, k + 1) = n /\ k * p < n /\ n <= k * p + p
      BY <2>5, <2>1, <2>2, <1>1, <1>2, <1>3 DEF Upto
    <3>2. MIN(n, k * p + p) = n
      BY <3>1, <2>2, <1>1 DEF MIN
    <3> QED BY <3>1, <3>2, <2>2, <2>3, <1>1 DEF p
  <2> QED BY <2>1, <2>4, <2>5, <1>2
<1>6. TotalMsgs(n) \in Nat \ {0}
  BY <1>2, <1>3
<1> QED BY <1>4, <1>5, <1>6

-----------------------------------------------------------------------------
(* Sequences.                                                              *)

LEMMA AllZero ==
  ASSUME NEW n \in Nat
  PROVE  /\ Bytes(n) \in Content /\ Len(Bytes(n)) = n /\ Zero(Bytes(n))
         /\ \A s \in Content : Len(s) = n /\ Zero(s) => s = Bytes(n)
<1>1. Bytes(n) \in Content /\ Len(Bytes(n)) = n /\ Zero(Bytes(n))
  BY DEF Bytes, Content, Zero
<1>2. ASSUME NEW s \in Content, Len(s) = n, Zero(s) PROVE s = Bytes(n)
  BY <1>1, <1>2 DEF Bytes, Content, Zero
<1> QED BY <1>1, <1>2

LEMMA Posting ==
  ASSUME NEW S, NEW q \in Seq(S), NEW m \in S
  PROVE  /\ Append(q, m) \in Seq(S) /\ Len(Append(q, m)) = Len(q) + 1
         /\ \A j \in 1 .. Len(q) : Append(q, m)[j] = q[j]
         /\ Append(q, m)[Len(q) + 1] = m
  OBVIOUS

LEMMA Taking ==
  ASSUME NEW S, NEW q \in Seq(S), q # <<>>
  PROVE  /\ Len(q) \in Nat \ {0} /\ Head(q) = q[1] /\ Head(q) \in S
         /\ Tail(q) \in Seq(S) /\ Len(Tail(q)) = Len(q) - 1
         /\ \A j \in 1 .. Len(q) - 1 : Tail(q)[j] = q[j + 1]
  OBVIOUS

LEMMA Part ==
  ASSUME NEW s \in Content, NEW a \in Nat, NEW b \in Nat, a <= b, b <= Len(s)
  PROVE  /\ SubSeq(s, a + 1, b) \in Content /\ Len(SubSeq(s, a + 1, b)) = b - a
         /\ Zero(s) => Zero(SubSeq(s, a + 1, b))
         /\ a = 0 => \A i \in 1 .. b : SubSeq(s, a + 1, b)[i] = s[i]
<1>1. SubSeq(s, a + 1, b) \in Content /\ Len(SubSeq(s, a + 1, b)) = b - a
  BY DEF Content
<1>2. \A i \in 1 .. b - a : SubSeq(s, a + 1, b)[i] = s[a + i]
  BY DEF Content
<1>3. \A i \in 1 .. b - a : a + i \in 1 .. Len(s)
  BY DEF Content
<1> QED BY <1>1, <1>2, <1>3 DEF Zero

(* A write at an offset within the file.                                   *)
LEMMA Writing ==
  ASSUME NEW f \in Seq({0, 1, 2}), NEW at \in 0 .. Len(f), NEW s \in Content
  PROVE  LET g == Overwrite(f, at, s)
         IN  /\ g \in Seq({0, 1, 2}) /\ at + Len(s) <= Len(g)
             /\ \A i \in 1 .. at : g[i] = f[i]
             /\ \A i \in 1 .. Len(s) : g[at + i] = s[i]
             /\ \A i \in at + Len(s) + 1 .. Len(g) : i \in 1 .. Len(f) /\ g[i] = f[i]
             /\ Len(g) = Longer(Len(f), at + Len(s))
<1> DEFINE n == IF at + Len(s) > Len(f) THEN at + Len(s) ELSE Len(f)
           g == Overwrite(f, at, s)
<1>1. n \in Nat /\ Len(s) \in Nat /\ Len(f) \in Nat /\ at \in Nat
  BY DEF Content
<1>2. g = [i \in 1 .. n |-> IF i \in at + 1 .. at + Len(s) THEN s[i - at] ELSE f[i]]
  BY DEF Overwrite
<1> HIDE DEF g
<1>3. ASSUME NEW i \in 1 .. n
      PROVE  (IF i \in at + 1 .. at + Len(s) THEN s[i - at] ELSE f[i]) \in {0, 1, 2}
  BY <1>1 DEF Content
<1>4. g \in Seq({0, 1, 2}) /\ Len(g) = n
  BY <1>1, <1>2, <1>3
<1>5. at + Len(s) <= n /\ n = Longer(Len(f), at + Len(s))
  BY <1>1 DEF Longer
<1>6. \A i \in 1 .. at : g[i] = f[i]
  BY <1>1, <1>2
<1>7. \A i \in 1 .. Len(s) : g[at + i] = s[i]
  BY <1>1, <1>2
<1>8. \A i \in at + Len(s) + 1 .. n : i \in 1 .. Len(f) /\ g[i] = f[i]
  BY <1>1, <1>2
<1> QED BY <1>4, <1>5, <1>6, <1>7, <1>8 DEF g

(* A content written over an old file.                                     *)
LEMMA Covering ==
  ASSUME NEW f \in Seq({0, 1, 2}), NEW s \in Content, NEW o \in Nat,
         Len(f) = Longer(o, Len(s)),
         \A i \in 1 .. Len(s) : f[i] = s[i],
         \A i \in Len(s) + 1 .. Len(f) : f[i] = 2
  PROVE  f = Overwrite(OldFile(o), 0, s)
<1> DEFINE n == Len(f)
           v(i) == IF i \in 0 + 1 .. 0 + Len(s) THEN s[i - 0] ELSE OldFile(o)[i]
<1>1. Len(OldFile(o)) = o /\ \A i \in 1 .. o : OldFile(o)[i] = 2
  BY DEF OldFile
<1>2. /\ n \in Nat /\ Len(s) \in Nat
      /\ n = IF 0 + Len(s) > Len(OldFile(o)) THEN 0 + Len(s) ELSE Len(OldFile(o))
  BY <1>1 DEF Longer, Content
<1>3. Overwrite(OldFile(o), 0, s) = [i \in 1 .. n |-> v(i)]
  BY <1>2, Zenon DEF Overwrite
<1>4. ASSUME NEW i \in 1 .. n PROVE f[i] = v(i)
  <2>1. CASE i \in 1 .. Len(s)
    BY <1>2, <2>1
  <2>2. CASE i \in Len(s) + 1 .. Len(f)
    BY <1>1, <1>2, <2>2
  <2> QED BY <1>2, <2>1, <2>2
<1>5. f = [i \in 1 .. n |-> f[i]]
  OBVIOUS
<1> HIDE DEF n, v
<1> QED BY <1>3, <1>4, <1>5

LEMMA CoversAll ==
  ASSUME NEW s \in Content, NEW o \in Nat, o <= Len(s)
  PROVE  Overwrite(OldFile(o), 0, s) = s
<1>1. \A i \in Len(s) + 1 .. Len(s) : s[i] = 2
  BY DEF Content
<1>2. s \in Seq({0, 1, 2}) /\ Len(s) = Longer(o, Len(s))
  BY DEF Content, Longer
<1> QED BY <1>1, <1>2, Covering, Zenon

LEMMA Joining ==
  ASSUME NEW s \in Content, NEW t \in Content
  PROVE  /\ s \o t \in Content /\ Len(s \o t) = Len(s) + Len(t)
         /\ \A i \in 1 .. Len(s) : (s \o t)[i] = s[i]
         /\ \A i \in 1 .. Len(t) : (s \o t)[Len(s) + i] = t[i]
         /\ Zero(s) /\ Zero(t) => Zero(s \o t)
<1>1. /\ s \o t \in Content /\ Len(s \o t) = Len(s) + Len(t)
      /\ \A i \in 1 .. Len(s) : (s \o t)[i] = s[i]
      /\ Len(s) \in Nat /\ Len(t) \in Nat
  BY DEF Content
<1>2. \A i \in 1 .. Len(t) : (s \o t)[Len(s) + i] = t[i]
  BY DEF Content
<1>3. ASSUME Zero(s), Zero(t), NEW i \in 1 .. Len(s \o t) PROVE (s \o t)[i] = 0
  <2>1. CASE i <= Len(s)
    BY <2>1, <1>1, <1>3 DEF Zero
  <2>2. CASE i > Len(s)
    <3>1. i - Len(s) \in 1 .. Len(t) /\ i = Len(s) + (i - Len(s))
      BY <2>2, <1>1
    <3> QED BY <3>1, <1>2, <1>3 DEF Zero
  <2> QED BY <2>1, <2>2, <1>1
<1> QED BY <1>1, <1>2, <1>3 DEF Zero

-----------------------------------------------------------------------------
(* What the invariant says about sizes.                                    *)
LEMMA Sized ==
  ASSUME FiInv
  PROVE  /\ Size \in Nat \ {0} /\ Messages \in Nat \ {0} /\ Len(toServer) \in Nat
         /\ count \in Nat /\ sent \in Nat /\ Posted \in Nat /\ Taken \in Nat
         /\ written \in Nat
<1>1. Size \in Nat \ {0} /\ Len(toServer) \in Nat
  BY FileIntegrityAssumption DEF FiInv, Fields
<1>2. Messages \in Nat \ {0}
  BY <1>1, Split DEF Messages
<1>3. count \in Nat /\ sent \in Nat /\ written \in Nat
  BY <1>1, <1>2 DEF FiInv, Fields, FiTypeOK, Messages, Size
<1> QED BY <1>1, <1>2, <1>3 DEF Posted, Taken

(* The client sends the next message.                                      *)
LEMMA PostQueue ==
  ASSUME FiInv, NEW m \in Message, toServer' = Append(toServer, m),
         UNCHANGED <<data, hashed, spc, count>>,
         cpc # "end", cpc' # "end", Posted' = Posted + 1, Right(Posted + 1, m)
  PROVE  toServer' \in Seq(Message) /\ Queue'
<1>1. toServer \in Seq(Message)
  BY DEF FiInv, Fields
<1>2. /\ toServer' \in Seq(Message) /\ Len(toServer') = Len(toServer) + 1
      /\ \A j \in 1 .. Len(toServer) : toServer'[j] = toServer[j]
      /\ toServer'[Len(toServer) + 1] = m
  BY <1>1, Posting
<1>3. Taken' = Taken /\ Receiving' = Receiving
  BY DEF Taken, Receiving
<1>4. \A k, x : Right(k, x)' = Right(k, x)
  BY DEF Right, Size, Messages
<1>0. Receiving => Taken + Len(toServer) = Posted
  BY DEF FiInv, Queue
<1>5. ASSUME Receiving PROVE Taken + Len(toServer') = Posted'
  BY <1>0, <1>2, <1>5, Sized
<1>6. ASSUME Receiving, NEW j \in 1 .. Len(toServer') PROVE Right(Taken + j, toServer'[j])
  <2>1. CASE j \in 1 .. Len(toServer)
    BY <2>1, <1>2, <1>6 DEF FiInv, Queue
  <2>2. CASE j = Len(toServer) + 1
    <3>1. Taken + j = Posted + 1
      BY <1>0, <2>2, <1>6, Sized
    <3> QED BY <3>1, <2>2, <1>2
  <2> QED BY <2>1, <2>2, <1>2, Sized
<1> QED BY <1>2, <1>3, <1>4, <1>5, <1>6 DEF Queue

(* The server takes the next message.                                      *)
LEMMA TakeQueue ==
  ASSUME FiInv, Receiving, Arrived, Take, UNCHANGED clientVars,
         Receiving' => Taken' = Taken + 1
  PROVE  /\ toServer' \in Seq(Message) /\ Queue'
         /\ Right(Taken + 1, Msg) /\ Msg \in Message
<1>1. toServer \in Seq(Message) /\ toServer # <<>>
  BY DEF FiInv, Fields, Arrived
<1>2. /\ Len(toServer) \in Nat \ {0} /\ Msg = toServer[1] /\ Msg \in Message
      /\ toServer' \in Seq(Message) /\ Len(toServer') = Len(toServer) - 1
      /\ \A j \in 1 .. Len(toServer) - 1 : toServer'[j] = toServer[j + 1]
  BY <1>1, Taking DEF Take, Msg
<1>3. \A k, x : Right(k, x)' = Right(k, x)
  BY DEF Right, Size, Messages, clientVars
<1>4. \A j \in 1 .. Len(toServer) : Right(Taken + j, toServer[j])
  BY DEF FiInv, Queue
<1>5. ASSUME Receiving', NEW j \in 1 .. Len(toServer') PROVE Right(Taken' + j, toServer'[j])
  <2>1. j + 1 \in 1 .. Len(toServer) /\ toServer'[j] = toServer[j + 1]
    BY <1>2
  <2>2. Taken' + j = Taken + (j + 1)
    BY <1>5, <1>2, Sized
  <2> QED BY <2>1, <2>2, <1>4
<1>6. ASSUME Receiving', cpc # "end" PROVE Taken' + Len(toServer') = Posted'
  <2>1. Taken + Len(toServer) = Posted /\ Posted' = Posted
    BY <1>6 DEF FiInv, Queue, Posted, clientVars
  <2> QED BY <2>1, <1>6, <1>2, Sized
<1>7. Right(Taken + 1, Msg)
  BY <1>2, <1>4
<1> QED BY <1>2, <1>3, <1>5, <1>6, <1>7 DEF Queue, clientVars

(* The queue is as it was.                                                 *)
LEMMA KeepQueue ==
  ASSUME FiInv, UNCHANGED <<data, hashed, toServer>>,
         Receiving' => Receiving /\ Taken' = Taken,
         cpc' # "end" => cpc # "end" /\ Posted' = Posted
  PROVE  Queue'
<1>1. \A k, x : Right(k, x)' = Right(k, x)
  BY DEF Right, Size, Messages
<1> QED BY <1>1 DEF FiInv, Queue

-----------------------------------------------------------------------------
(* The client.                                                             *)

LEMMA InitInv == FiInit => FiInv
<1> SUFFICES ASSUME FiInit PROVE FiInv
  OBVIOUS
<1>1. PICK n \in Sizes : data = Bytes(n)
  BY DEF FiInit
<1>2. PICK o \in OldSizes : disk = OldFile(o)
  BY DEF FiInit
<1>3. n \in Nat \ {0} /\ o \in Nat
  BY FileIntegrityAssumption
<1>4. data \in Content /\ Size = n
  BY <1>1, <1>3, AllZero DEF Size
<1>5. disk \in Seq({0, 1, 2}) /\ Len(disk) = o /\ \A i \in 1 .. o : disk[i] = 2
  BY ONLY <1>2, <1>3 DEF OldFile
<1>6. Messages \in Nat \ {0} /\ <<>> \in Seq(Message) /\ <<>> \in Content /\ Len(<<>>) = 0
  BY <1>3, <1>4, Split DEF Messages, Content
<1>7. FiTypeOK
  BY <1>3, <1>4, <1>6 DEF FiInit, FiTypeOK, Messages, Size
<1>8. Fields
  BY <1>4, <1>5, <1>6, Zenon DEF FiInit, Fields
<1>9. Sending /\ RejectsOnlyChanges
  BY <1>1, <1>4 DEF FiInit, Sending, RejectsOnlyChanges
<1>10. Queue
  BY <1>6 DEF FiInit, Queue, Taken, Posted, Receiving
<1>11. Progress
  BY DEF FiInit, Progress, Receiving
<1>12. OnDisk
  <2>1. written = 0 /\ acc = <<>> /\ Zero(acc)
    BY <1>6 DEF FiInit, Zero
  <2>2. Len(disk) = Longer(o, written)
    BY ONLY <2>1, <1>3, <1>5 DEF Longer
  <2> QED BY ONLY <2>1, <2>2, <1>3, <1>5, o \in OldSizes DEF OnDisk, Tailed
<1> QED BY <1>7, <1>8, <1>9, <1>10, <1>11, <1>12 DEF FiInv

(* A step of the client that changes neither the file nor its hash leaves  *)
(* what the invariant says about the server.                               *)
LEMMA KeepServer ==
  ASSUME FiInv, UNCHANGED <<env, data, hashed>>, UNCHANGED serverVars
  PROVE  Progress' /\ OnDisk' /\ RejectsOnlyChanges'
<1>1. Progress'
  BY DEF FiInv, Progress, serverVars, Size, Messages, Fault, Receiving
<1>2. OnDisk'
  BY DEF FiInv, OnDisk, Tailed, serverVars, Receiving, Zero
<1>3. RejectsOnlyChanges'
  BY DEF FiInv, RejectsOnlyChanges, serverVars
<1> QED BY <1>1, <1>2, <1>3

LEMMA HashInv == ASSUME FiInv, ClientHash, UNCHANGED env PROVE FiInv'
<1> DEFINE m == [type |-> "sha", body |-> data]
<1> USE DEF ClientHash
<1>1. /\ cpc = "hash" /\ cpc' = "total" /\ data = Bytes(Size) /\ hashed' = data
      /\ spc \in {"start", "recvSha", "end"} /\ verdict = "none" /\ sent = 0
      /\ sent' = sent /\ data' = data
      /\ UNCHANGED serverVars /\ cres' = cres /\ toServer' = Append(toServer, m)
  BY DEF FiInv, Sending
<1>2. m \in Message
  BY DEF Message, FiInv, Fields
<1>3. toServer' \in Seq(Message)
  BY <1>1, <1>2, Posting DEF FiInv, Fields
<1>4. FiTypeOK'
  BY <1>1 DEF FiInv, FiTypeOK, serverVars
<1>5. Fields'
  BY <1>1, <1>3 DEF FiInv, Fields, serverVars, Size
<1>6. Sending' /\ RejectsOnlyChanges'
  BY <1>1 DEF Sending, RejectsOnlyChanges, Size, serverVars
<1>7. ASSUME Receiving' PROVE Taken' = 0 /\ Len(toServer') = 1 /\ toServer'[1] = m
  <2>1. spc \in {"start", "recvSha"}
    BY <1>1, <1>7 DEF Receiving, serverVars
  <2>2. Len(toServer) = 0
    BY <1>1, <2>1, Sized DEF FiInv, Queue, Receiving, Taken, Posted
  <2>3. Taken' = 0
    BY <1>1, <2>1 DEF Taken, serverVars
  <2>4. toServer \in Seq(Message)
    BY DEF FiInv, Fields
  <2> QED BY <1>1, <1>2, <2>2, <2>3, <2>4, Posting
<1>8. Queue'
  <2>1. Right(1, m)'
    BY <1>1 DEF Right, Size
  <2>2. Posted' = 1
    BY <1>1 DEF Posted
  <2> QED BY <1>7, <2>1, <2>2 DEF Queue
<1>9. Progress'
  BY <1>1 DEF FiInv, Progress, serverVars, Receiving
<1>10. OnDisk'
  BY <1>1 DEF FiInv, OnDisk, Tailed, Progress, serverVars, Receiving, Zero
<1> QED BY <1>4, <1>5, <1>6, <1>8, <1>9, <1>10 DEF FiInv

LEMMA TotalInv == ASSUME FiInv, ClientTotal, UNCHANGED env PROVE FiInv'
<1> DEFINE m == [type |-> "total", n |-> TotalMsgs(Len(data))]
<1> USE DEF ClientTotal
<1>1. /\ cpc = "total" /\ cpc' = "send" /\ hashed = Bytes(Size) /\ sent = 0 /\ sent' = sent
      /\ data' = data /\ hashed' = hashed /\ UNCHANGED serverVars /\ cres' = cres
      /\ toServer' = Append(toServer, m)
  BY DEF FiInv, Sending
<1>2. m \in Message /\ m.n = Messages
  BY Sized DEF Message, Messages, Size
<1>3. Posted = 1 /\ Posted' = 2
  BY <1>1 DEF Posted
<1>4. Right(2, m)
  BY <1>2 DEF Right
<1> HIDE DEF m
<1>5. toServer' \in Seq(Message) /\ Queue'
  BY <1>1, <1>2, <1>3, <1>4, PostQueue DEF serverVars
<1>6. FiTypeOK'
  BY <1>1 DEF FiInv, FiTypeOK, serverVars
<1>7. Fields'
  BY <1>1, <1>5 DEF FiInv, Fields, serverVars, Size
<1>8. Sending'
  BY <1>1, Sized DEF Sending, Size, Messages, serverVars
<1> QED BY <1>1, <1>5, <1>6, <1>7, <1>8, KeepServer DEF FiInv

LEMMA SendInv == ASSUME FiInv, ClientSend, UNCHANGED env PROVE FiInv'
<1> DEFINE from == sent * PartialBlock
           to == MIN(Len(data), from + PartialBlock)
           b == SubSeq(data, from + 1, to)
           m == [type |-> "data", body |-> b]
<1> USE DEF ClientSend
<1>1. /\ cpc = "send" /\ hashed = Bytes(Size) /\ sent < Messages /\ sent' = sent + 1
      /\ cpc' = IF sent' = Messages THEN "finish" ELSE "send"
      /\ data' = data /\ hashed' = hashed /\ UNCHANGED serverVars /\ cres' = cres
      /\ toServer' = Append(toServer, m)
  BY DEF FiInv, Sending, Messages, Size
<1>2. /\ from = Upto(Size, sent) /\ to = Upto(Size, sent + 1)
      /\ from \in Nat /\ to \in Nat /\ from < to /\ to <= Size
  <2>1. Size \in Nat \ {0} /\ sent \in 0 .. TotalMsgs(Size) - 1
    BY <1>1, Sized DEF Messages
  <2> QED BY ONLY <2>1, Split DEF Size
<1> HIDE DEF from, to
<1>3. b \in Content /\ Len(b) = to - from /\ (data = hashed => Zero(b))
  <2>1. data \in Content /\ (data = hashed => Zero(data))
    BY <1>1, Sized, AllZero DEF FiInv, Fields
  <2> QED BY <2>1, <1>2, Part DEF Size
<1> HIDE DEF b
<1>4. m \in Message /\ m.body = b
  BY <1>3 DEF Message
<1>5. Posted = 2 + sent /\ Posted' = Posted + 1 /\ cpc' # "end" /\ sent \in Nat
  BY <1>1, Sized, SMTT(30) DEF Posted
<1>6. Right(Posted + 1, m)
  <2> DEFINE k == Posted + 1
  <2>1. k # 1 /\ k # 2 /\ k - 3 = sent /\ k - 2 = sent + 1
    BY ONLY <1>5
  <2>2. k - 3 < Messages
    BY ONLY <1>1, <2>1
  <2>3. Len(b) = Upto(Size, k - 2) - Upto(Size, k - 3)
    BY ONLY <1>2, <1>3, <2>1
  <2> HIDE DEF k, m
  <2>4. Right(k, m)
    BY ONLY <1>3, <1>4, <2>1, <2>2, <2>3, Zenon DEF Right
  <2> QED BY ONLY <2>4 DEF k
<1> HIDE DEF m
<1>7. toServer' \in Seq(Message) /\ Queue'
  BY <1>1, <1>4, <1>5, <1>6, PostQueue DEF serverVars
<1>8. FiTypeOK'
  BY <1>1, Sized DEF FiInv, FiTypeOK, serverVars, Messages, Size
<1>9. Fields'
  BY <1>1, <1>7 DEF FiInv, Fields, serverVars, Size
<1>10. Sending'
  BY <1>1, Sized DEF Sending, Size, Messages, serverVars
<1> QED BY <1>1, <1>7, <1>8, <1>9, <1>10, KeepServer DEF FiInv

(* The client has its answer, or stops.                                    *)
LEMMA EndInv == ASSUME FiInv, ClientFinish \/ ClientStop, UNCHANGED env PROVE FiInv'
<1>1. /\ cpc' = "end" /\ cres' \in {"ok", "err"} /\ UNCHANGED serverVars
      /\ UNCHANGED <<data, hashed, sent, toServer>>
  BY DEF ClientFinish, ClientStop
<1>2. Queue'
  BY <1>1, KeepQueue DEF serverVars, Receiving, Taken
<1>3. FiTypeOK'
  BY <1>1 DEF FiInv, FiTypeOK, serverVars
<1>4. Fields'
  BY <1>1 DEF FiInv, Fields, serverVars, Size
<1>5. Sending'
  BY <1>1 DEF Sending
<1> QED BY <1>1, <1>2, <1>3, <1>4, <1>5, KeepServer DEF FiInv

(* Another process changes a byte: the file is not the hashed one any more. *)
LEMMA ChangeInv == ASSUME FiInv, FileChange, UNCHANGED env PROVE FiInv'
<1>1. PICK i \in DOMAIN data : data' = [data EXCEPT ![i] = 1]
  BY Zenon DEF FileChange
<1>2. /\ cpc \in {"total", "send"} /\ cpc' = cpc /\ hashed' = hashed /\ sent' = sent
      /\ toServer' = toServer /\ cres' = cres /\ UNCHANGED serverVars /\ data = hashed
      /\ hashed = Bytes(Size)
  BY DEF FileChange, FiInv, Sending
<1>3. data \in Content /\ Size \in Nat
  BY Sized DEF FiInv, Fields
<1>4. data' \in Content /\ Size' = Size /\ data' # hashed'
  <2>1. DOMAIN data = 1 .. Len(data)
    BY <1>3 DEF Content
  <2>2. data' \in Content /\ Len(data') = Len(data) /\ data'[i] = 1
    BY <1>1, <1>3 DEF Content
  <2>3. hashed[i] = 0
    BY <1>2, <1>3, <2>1 DEF Bytes, Size
  <2>4. data' # hashed
    BY ONLY <2>2, <2>3
  <2> QED BY ONLY <1>2, <2>2, <2>4, Zenon DEF Size
<1>5. Messages' = Messages /\ Posted' = Posted /\ Taken' = Taken /\ Receiving' = Receiving
  BY <1>2, <1>4 DEF Messages, Posted, Taken, Receiving, serverVars
<1>6. ASSUME NEW k, NEW m, Right(k, m) PROVE Right(k, m)'
  BY <1>2, <1>4, <1>5, <1>6 DEF Right
<1>7. Queue'
  BY <1>2, <1>5, <1>6 DEF FiInv, Queue
<1>8. FiTypeOK'
  BY <1>2, <1>4, Zenon DEF FiInv, FiTypeOK, serverVars, Size
<1>9. Fields'
  BY <1>2, <1>4 DEF FiInv, Fields, serverVars
<1>10. Sending'
  BY <1>2, <1>4, <1>5 DEF FiInv, Sending
<1>11. Progress'
  BY <1>2, <1>4, <1>5 DEF FiInv, Progress, serverVars, Fault, Receiving
<1>12. OnDisk' /\ RejectsOnlyChanges'
  BY <1>2, <1>4, <1>5 DEF FiInv, OnDisk, Tailed, RejectsOnlyChanges, serverVars
<1> QED BY <1>7, <1>8, <1>9, <1>10, <1>11, <1>12 DEF FiInv

-----------------------------------------------------------------------------
(* The server.                                                             *)

(* The client has hashed its file before the server takes a message.       *)
LEMMA ClientIsAhead == ASSUME FiInv, Receiving, Arrived PROVE cpc # "hash"
<1> SUFFICES ASSUME cpc = "hash" PROVE FALSE
  OBVIOUS
<1>1. toServer \in Seq(Message) /\ toServer # <<>>
  BY DEF FiInv, Fields, Arrived
<1>2. Len(toServer) > 0
  BY <1>1, Taking
<1>3. Taken + Len(toServer) = 0
  BY DEF FiInv, Queue, Posted
<1> QED BY <1>2, <1>3, Sized

LEMMA KeepClient ==
  ASSUME FiInv, UNCHANGED clientVars,
         cpc = "hash" => spc' \in {"start", "recvSha", "end"} /\ verdict' = "none"
  PROVE  Sending'
  BY DEF FiInv, Sending, clientVars, Size, Messages

(* The server gives up and is about to tell the client.                    *)
LEMMA GivesUp ==
  ASSUME FiInv, UNCHANGED <<clientVars, env, count, acc, hashLen, verdict>>,
         spc \in {"recvTotal", "recvOne", "recvPart"}, spc' = "finish", sres' = "err",
         toServer' \in Seq(Message), disk' \in Seq({0, 1, 2}),
         written' \in 0 .. Size, total' \in Nat, count <= total'
  PROVE  FiInv'
<1>1. cpc # "hash" /\ verdict = "none"
  BY DEF FiInv, Sending, Progress
<1>2. FiTypeOK'
  BY Sized DEF FiInv, FiTypeOK, clientVars, Size
<1>3. Fields'
  BY DEF FiInv, Fields, clientVars, Size
<1>4. Sending'
  BY <1>1, KeepClient
<1>5. ~Receiving'
  BY DEF Receiving
<1>6. Queue' /\ OnDisk'
  BY <1>5 DEF Queue, OnDisk
<1>7. Progress' /\ RejectsOnlyChanges'
  BY <1>1, <1>5 DEF Progress, RejectsOnlyChanges
<1> QED BY <1>2, <1>3, <1>4, <1>6, <1>7 DEF FiInv

LEMMA StartInv == ASSUME FiInv, ServerStart, UNCHANGED env PROVE FiInv'
<1>1. /\ spc = "start" /\ UNCHANGED <<clientVars, toServer, total, count, disk, written, acc>>
      /\ UNCHANGED <<hashLen, verdict>>
      /\ \/ spc' = "recvSha" /\ sres' = sres
         \/ spc' = "end" /\ sres' = "err"
  BY DEF ServerStart
<1>2. verdict = "none" /\ sres = "none"
  BY <1>1 DEF FiInv, FiTypeOK, Progress
<1>3. FiTypeOK'
  BY <1>1, <1>2 DEF FiInv, FiTypeOK, clientVars
<1>4. Fields'
  BY <1>1 DEF FiInv, Fields, clientVars, Size
<1>5. Sending'
  BY <1>1, <1>2, KeepClient
<1>6. Queue'
  BY <1>1, KeepQueue DEF Receiving, Taken, Posted, clientVars
<1>7. Progress'
  BY <1>1, <1>2 DEF FiInv, Progress, Receiving
<1>8. OnDisk'
  BY <1>1 DEF FiInv, OnDisk, Tailed, Receiving, clientVars
<1>9. RejectsOnlyChanges'
  BY <1>1, <1>2 DEF RejectsOnlyChanges
<1> QED BY <1>3, <1>4, <1>5, <1>6, <1>7, <1>8, <1>9 DEF FiInv

LEMMA RecvShaInv == ASSUME FiInv, ServerRecvSha, UNCHANGED env PROVE FiInv'
<1>1. /\ spc = "recvSha" /\ spc' = "recvTotal" /\ sha' = Msg.body /\ Arrived /\ Take
      /\ UNCHANGED <<clientVars, total, count, disk, written, acc, hashLen, verdict, sres>>
  BY DEF ServerRecvSha
<1>2. Receiving /\ Receiving' /\ Taken = 0 /\ Taken' = 1
  BY <1>1 DEF Receiving, Taken
<1>3. toServer' \in Seq(Message) /\ Queue' /\ Right(1, Msg)
  <2>1. Taken' = Taken + 1 /\ Taken + 1 = 1
    BY <1>2
  <2> QED BY <1>1, <1>2, <2>1, TakeQueue
<1>4. sha' = hashed /\ hashed = Bytes(Size)
  BY <1>1, <1>3 DEF Right
<1>5. cpc # "hash"
  BY <1>1, <1>2, ClientIsAhead
<1>6. FiTypeOK'
  BY <1>1 DEF FiInv, FiTypeOK, clientVars
<1>7. Fields'
  BY <1>1, <1>3 DEF FiInv, Fields, clientVars, Size
<1>8. Sending'
  BY <1>1, <1>5, KeepClient
<1>9. Progress'
  BY <1>1, <1>2, <1>4 DEF FiInv, Progress, clientVars, Size
<1>10. OnDisk' /\ RejectsOnlyChanges'
  BY <1>1, <1>2 DEF FiInv, OnDisk, Tailed, RejectsOnlyChanges, clientVars
<1> QED BY <1>3, <1>6, <1>7, <1>8, <1>9, <1>10 DEF FiInv

LEMMA RecvTotalInv == ASSUME FiInv, ServerRecvTotal, UNCHANGED env PROVE FiInv'
<1>1. /\ spc = "recvTotal" /\ total' = Msg.n /\ Arrived /\ Take
      /\ UNCHANGED <<clientVars, sha, count, disk, written, acc, hashLen, verdict>>
      /\ \/ spc' = (IF Msg.n = 1 THEN "recvOne" ELSE "recvPart") /\ sres' = sres
         \/ spc' = "finish" /\ sres' = "err"
  BY DEF ServerRecvTotal
<1>2. count = 0 /\ written = 0 /\ acc = <<>> /\ sha = hashed /\ hashed = Bytes(Size)
  BY <1>1 DEF FiInv, Progress
<1>3. Receiving /\ Taken = 1 /\ (Receiving' => Taken' = 2)
  BY <1>1, <1>2 DEF Receiving, Taken
<1>4. toServer' \in Seq(Message) /\ Queue' /\ Right(2, Msg)
  <2>1. (Receiving' => Taken' = Taken + 1) /\ Taken + 1 = 2
    BY <1>3
  <2> QED BY <1>1, <1>3, <2>1, TakeQueue
<1>5. total' = Messages
  BY <1>1, <1>4, ZenonT(20) DEF Right
<1>6. CASE spc' = "finish" /\ sres' = "err"
  BY <1>1, <1>2, <1>4, <1>5, <1>6, GivesUp, Sized DEF FiInv, Fields
<1>7. CASE spc' \in {"recvOne", "recvPart"} /\ sres' = sres /\ (spc' = "recvOne" => total' = 1)
  <2>1. cpc # "hash"
    BY <1>1, <1>3, ClientIsAhead
  <2>2. Size' = Size /\ Messages' = Messages /\ Receiving'
    BY <1>1, <1>7 DEF Size, Messages, Receiving, clientVars
  <2>3. FiTypeOK'
    BY <1>1, <1>2, <1>5, <1>7, Sized DEF FiInv, FiTypeOK, clientVars
  <2>4. Fields'
    BY <1>1, <1>4, <1>5, Sized DEF FiInv, Fields, clientVars, Size
  <2>5. Sending'
    BY <1>1, <2>1, KeepClient
  <2>6. written = Upto(Size, 0) /\ Len(acc) = 0
    BY <1>2, Sized, Split, ZenonT(20)
  <2>7. Progress'
    BY <1>1, <1>2, <1>3, <1>5, <1>7, <2>2, <2>6, Sized DEF FiInv, Progress, clientVars
  <2>8. OnDisk' /\ RejectsOnlyChanges'
    BY <1>1, <1>3, <2>2 DEF FiInv, OnDisk, Tailed, RejectsOnlyChanges, clientVars
  <2> QED BY <1>4, <2>3, <2>4, <2>5, <2>7, <2>8 DEF FiInv
<1> QED BY <1>1, <1>6, <1>7

LEMMA TimeoutInv == ASSUME FiInv, ServerTimeout, UNCHANGED env PROVE FiInv'
<1>1. /\ spc \in {"recvTotal", "recvOne", "recvPart"} /\ spc' = "finish" /\ sres' = "err"
      /\ UNCHANGED <<clientVars, toServer, total, count, disk, written, acc, hashLen, verdict>>
  BY DEF ServerTimeout
<1>2. written \in 0 .. Size /\ total \in Nat /\ count <= total
  BY Sized DEF FiInv, FiTypeOK, Fields, Size
<1> QED BY <1>1, <1>2, GivesUp DEF FiInv, Fields

(* A block is written where the last one ended.                            *)
LEMMA WriteBlock ==
  ASSUME FiInv, Receiving, NEW b \in Content, Write(b)
  PROVE  /\ disk' \in Seq({0, 1, 2}) /\ written' = written + Len(b)
         /\ Len(b) \in Nat /\ written' <= Len(disk')
         /\ \A i \in 1 .. written : disk'[i] = acc[i]
         /\ \A i \in 1 .. Len(b) : disk'[written + i] = b[i]
         /\ Tailed'
<1>1. /\ disk \in Seq({0, 1, 2}) /\ written \in 0 .. Len(disk)
      /\ \A i \in 1 .. written : disk[i] = acc[i]
      /\ Tailed
  BY Sized DEF FiInv, Fields, OnDisk
<1>2. disk' = Overwrite(disk, written, b) /\ written' = written + Len(b)
  BY DEF Write
<1>3. /\ disk' \in Seq({0, 1, 2}) /\ written + Len(b) <= Len(disk')
      /\ \A i \in 1 .. written : disk'[i] = disk[i]
      /\ \A i \in 1 .. Len(b) : disk'[written + i] = b[i]
      /\ \A i \in written + Len(b) + 1 .. Len(disk') :
           i \in 1 .. Len(disk) /\ disk'[i] = disk[i]
      /\ Len(disk') = Longer(Len(disk), written + Len(b))
  BY <1>1, <1>2, Writing, Zenon
<1>4. Len(b) \in Nat /\ Len(disk) \in Nat
  BY <1>1 DEF Content
<1>5. PICK n \in OldSizes : Len(disk) = Longer(n, written) /\ n \in Nat
  BY <1>1, FileIntegrityAssumption DEF Tailed
<1>6. Len(disk') = Longer(n, written')
  BY ONLY <1>1, <1>2, <1>3, <1>4, <1>5 DEF Longer
<1>7. \A i \in written' + 1 .. Len(disk') : disk'[i] = 2
  <2>1. ASSUME NEW i \in written' + 1 .. Len(disk') PROVE disk'[i] = 2
    <3>1. i \in 1 .. Len(disk) /\ disk'[i] = disk[i]
      BY ONLY <1>2, <1>3, <2>1
    <3>2. i \in written + 1 .. Len(disk)
      BY ONLY <1>1, <1>2, <1>4, <2>1, <3>1
    <3> QED BY ONLY <1>1, <3>1, <3>2 DEF Tailed
  <2> QED BY ONLY <2>1
<1>8. Tailed'
  BY ONLY <1>5, <1>6, <1>7 DEF Tailed
<1> QED BY ONLY <1>1, <1>2, <1>3, <1>4, <1>8

(* A write that fails in the middle of a block, or whose hash fails.       *)
LEMMA WriteFailsInv ==
  ASSUME FiInv, spc \in {"recvOne", "recvPart"}, NEW b \in Content,
         written + Len(b) <= Size, toServer' \in Seq(Message),
         UNCHANGED <<clientVars, env, total, verdict, acc, hashLen, count>>,
         spc' = "finish", sres' = "err",
         Write(b) \/ \E n \in 0 .. Len(b) - 1 : Write(SubSeq(b, 1, n))
  PROVE  FiInv'
<1>1. PICK c \in Content : Write(c) /\ Len(c) <= Len(b)
  <2>1. CASE Write(b)
    BY <2>1 DEF Content
  <2>2. CASE \E n \in 0 .. Len(b) - 1 : Write(SubSeq(b, 1, n))
    <3>1. PICK n \in 0 .. Len(b) - 1 : Write(SubSeq(b, 1, n))
      BY <2>2
    <3>2. /\ n \in Nat /\ n <= Len(b) /\ 0 \in Nat /\ 0 <= n /\ b \in Content
          /\ 0 + 1 = 1 /\ n - 0 = n
      BY DEF Content
    <3>3. SubSeq(b, 0 + 1, n) \in Content /\ Len(SubSeq(b, 0 + 1, n)) = n - 0
      BY ONLY <3>2, Part, Zenon
    <3> QED BY <3>1, <3>2, <3>3, Zenon
  <2> QED BY <2>1, <2>2
<1>2. Receiving /\ Len(b) \in Nat
  BY DEF Receiving, Content
<1>3. disk' \in Seq({0, 1, 2}) /\ written' = written + Len(c) /\ Len(c) \in Nat
  BY <1>1, <1>2, WriteBlock
<1>4. written' \in 0 .. Size
  BY <1>1, <1>2, <1>3, Sized, SMTT(30)
<1>5. total' \in Nat /\ count <= total'
  BY Sized DEF FiInv, FiTypeOK, Fields
<1> QED BY <1>3, <1>4, <1>5, GivesUp

(* The server goes on with the next block, or to the comparison.           *)
LEMMA GoesOn ==
  ASSUME FiInv, UNCHANGED <<clientVars, env, sha, total, verdict, sres>>,
         spc \in {"recvOne", "recvPart"}, spc' \in {"recvPart", "compare"}, Arrived,
         toServer' \in Seq(Message), Queue', acc' \in Content, disk' \in Seq({0, 1, 2}),
         count' \in 0 .. Messages, written' \in 0 .. Size, hashLen' \in BOOLEAN,
         Progress', OnDisk'
  PROVE  FiInv'
<1>1. cpc # "hash" /\ total = Messages /\ verdict = "none"
  BY ClientIsAhead DEF Receiving, FiInv, Progress
<1>2. Size' = Size /\ Messages' = Messages
  BY DEF Size, Messages, clientVars
<1>3. FiTypeOK'
  BY <1>1, <1>2 DEF FiInv, FiTypeOK, clientVars, Size
<1>4. Fields'
  BY <1>2 DEF FiInv, Fields, clientVars
<1>5. Sending'
  BY <1>1, KeepClient
<1>6. RejectsOnlyChanges'
  BY <1>1 DEF RejectsOnlyChanges
<1> QED BY <1>3, <1>4, <1>5, <1>6, ZenonT(20) DEF FiInv

LEMMA RecvOneInv == ASSUME FiInv, ServerRecvOne, UNCHANGED env PROVE FiInv'
<1> DEFINE b == Msg.body
<1>1. /\ spc = "recvOne" /\ Arrived /\ Take
      /\ UNCHANGED <<clientVars, sha, total, verdict>>
      /\ \/ /\ Write(b) /\ acc' = b /\ hashLen' = TRUE /\ spc' = "compare"
            /\ sres' = sres /\ count' = count
         \/ /\ Write(b) /\ spc' = "finish" /\ sres' = "err"
            /\ UNCHANGED <<acc, hashLen, count>>
         \/ /\ \E n \in 0 .. Len(b) - 1 : Write(SubSeq(b, 1, n))
            /\ spc' = "finish" /\ sres' = "err" /\ UNCHANGED <<acc, hashLen, count>>
  BY DEF ServerRecvOne, WriteFails
<1>2. /\ count = 0 /\ written = 0 /\ sha = hashed /\ hashed = Bytes(Size) /\ total = Messages
      /\ Messages = 1
  BY <1>1, ZenonT(20) DEF FiInv, Progress
<1>3. Receiving /\ Taken = 2 /\ ~Receiving'
  BY <1>1, <1>2 DEF Receiving, Taken
<1>4. toServer' \in Seq(Message) /\ Queue' /\ Right(3, Msg)
  <2>1. Taken + 1 = 3
    BY <1>3
  <2> QED BY <1>1, <1>3, <2>1, TakeQueue
<1>5. b \in Content /\ Len(b) = Size /\ (data = hashed => Zero(b))
  <2>1. b \in Content /\ Len(b) = Upto(Size, 1) - Upto(Size, 0) /\ (data = hashed => Zero(b))
    BY <1>4 DEF Right
  <2>2. Upto(Size, 1) = Size /\ Upto(Size, 0) = 0
    BY <1>2, Sized, Split DEF Messages
  <2> QED BY <2>1, <2>2, Sized
<1> HIDE DEF b
<1>6. CASE spc' = "finish"
  <2>1. written + Len(b) <= Size
    BY <1>2, <1>5, Sized, SMTT(30)
  <2> QED BY <1>1, <1>4, <1>5, <1>6, <2>1, WriteFailsInv
<1>7. CASE spc' = "compare"
  <2>1. /\ Write(b) /\ acc' = b /\ hashLen' = TRUE /\ sres' = sres /\ count' = count
    BY <1>1, <1>7, ZenonT(20)
  <2>2. /\ disk' \in Seq({0, 1, 2}) /\ written' = Size /\ written' <= Len(disk')
        /\ \A i \in 1 .. written' : disk'[i] = acc'[i]
        /\ Tailed'
    BY <1>2, <1>3, <1>5, <2>1, WriteBlock, Sized
  <2>3. Size' = Size /\ Messages' = Messages
    BY <1>1, ZenonT(20) DEF Size, Messages, clientVars
  <2>4. Progress'
    BY <1>1, <1>2, <1>3, <1>5, <1>7, <2>1, <2>2, <2>3, SMTT(30) DEF FiInv, Progress, clientVars
  <2>5. OnDisk'
    BY <1>1, <1>5, <2>1, <2>2, ZenonT(40) DEF OnDisk, clientVars
  <2>6. count' \in 0 .. Messages /\ written' \in 0 .. Size
    BY <1>2, <2>1, <2>2, Sized
  <2> QED BY <1>1, <1>4, <1>5, <1>7, <2>1, <2>2, <2>4, <2>5, <2>6, GoesOn
<1> QED BY <1>1, <1>6, <1>7

LEMMA RecvPartInv == ASSUME FiInv, ServerRecvPart, UNCHANGED env PROVE FiInv'
<1> DEFINE b == Msg.body
<1>1. /\ spc = "recvPart" /\ Arrived /\ Take
      /\ UNCHANGED <<clientVars, sha, total, verdict>>
      /\ \/ /\ Write(b) /\ acc' = acc \o b /\ count' = count + 1
            /\ hashLen' = (count' = total) /\ sres' = sres
            /\ spc' = IF count' = total THEN "compare" ELSE "recvPart"
         \/ /\ Write(b) /\ Fault("task") /\ spc' = "compare" /\ sres' = sres
            /\ UNCHANGED <<acc, hashLen, count>>
         \/ /\ Write(b) /\ spc' = "finish" /\ sres' = "err"
            /\ UNCHANGED <<acc, hashLen, count>>
         \/ /\ \E n \in 0 .. Len(b) - 1 : Write(SubSeq(b, 1, n))
            /\ spc' = "finish" /\ sres' = "err" /\ UNCHANGED <<acc, hashLen, count>>
  BY ZenonT(20) DEF ServerRecvPart, WriteFails
<1>2. /\ written = Upto(Size, count) /\ Len(acc) = written /\ count < Messages
      /\ sha = hashed /\ hashed = Bytes(Size) /\ total = Messages /\ ~hashLen
      /\ acc \in Content
  BY <1>1 DEF FiInv, Progress, Receiving, Fields
<1>3. Receiving /\ Taken = 2 + count /\ Messages = TotalMsgs(Size)
  BY <1>1, ZenonT(20) DEF Receiving, Taken, Messages
<1>4. toServer' \in Seq(Message) /\ Queue' /\ Right(3 + count, Msg)
  <2>1. Taken + 1 = 3 + count
    BY <1>3, Sized
  <2>2. Receiving' => Taken' = Taken + 1
    BY <1>1, <2>1, Sized DEF Receiving, Taken
  <2> QED BY <1>1, <1>3, <2>1, <2>2, TakeQueue
<1>5. /\ count \in 0 .. Messages - 1 /\ Upto(Size, count) \in Nat
      /\ Upto(Size, count + 1) \in Nat /\ Upto(Size, count + 1) <= Size
      /\ count + 1 = Messages => Upto(Size, count + 1) = Size
  <2>1. Size \in Nat \ {0} /\ count \in Nat /\ Messages \in Nat \ {0}
    BY Sized
  <2>2. count \in 0 .. Messages - 1
    BY ONLY <1>2, <2>1
  <2>3. count \in 0 .. TotalMsgs(Size) - 1
    BY ONLY <1>3, <2>2
  <2>4. /\ Upto(Size, TotalMsgs(Size)) = Size
        /\ Upto(Size, count) \in Nat /\ Upto(Size, count + 1) \in Nat
        /\ Upto(Size, count + 1) <= Size
    BY ONLY <2>1, <2>3, Split
  <2> QED BY ONLY <1>3, <2>2, <2>4
<1>6. b \in Content /\ written + Len(b) = Upto(Size, count + 1) /\ (data = hashed => Zero(b))
  <2>1. 3 + count > 2 /\ (3 + count) - 2 = count + 1 /\ (3 + count) - 3 = count
    BY <1>5
  <2>2. /\ b \in Content /\ Len(b) = Upto(Size, count + 1) - Upto(Size, count)
        /\ data = hashed => Zero(b)
    BY <1>4, <2>1, ZenonT(20) DEF Right
  <2> QED BY <1>2, <1>5, <2>2
<1> HIDE DEF b
<1>7. CASE spc' = "finish"
  BY <1>1, <1>4, <1>5, <1>6, <1>7, WriteFailsInv
<1> SUFFICES ASSUME spc' # "finish" PROVE FiInv'
  BY <1>7
<1>8. /\ Write(b) /\ sres' = sres /\ spc' \in {"recvPart", "compare"}
  BY <1>1, SMTT(30)
<1>9. /\ disk' \in Seq({0, 1, 2}) /\ written' = Upto(Size, count + 1)
      /\ written' <= Len(disk') /\ written' \in 0 .. Size /\ Len(b) \in Nat
      /\ \A i \in 1 .. written : disk'[i] = acc[i]
      /\ \A i \in 1 .. Len(b) : disk'[written + i] = b[i]
      /\ Tailed'
  <2>1. /\ disk' \in Seq({0, 1, 2}) /\ written' = written + Len(b) /\ Len(b) \in Nat
        /\ written' <= Len(disk')
        /\ \A i \in 1 .. written : disk'[i] = acc[i]
        /\ \A i \in 1 .. Len(b) : disk'[written + i] = b[i]
        /\ Tailed'
    BY <1>3, <1>6, <1>8, WriteBlock
  <2>2. Upto(Size, count + 1) \in 0 .. Size
    BY <1>5, Sized
  <2> QED BY ONLY <1>6, <2>1, <2>2
<1>10. Size' = Size /\ Messages' = Messages
  BY <1>1, ZenonT(20) DEF Size, Messages, clientVars
<1>11. CASE acc' = acc \o b /\ count' = count + 1 /\ hashLen' = (count' = total)
            /\ spc' = IF count' = total THEN "compare" ELSE "recvPart"
  <2>1. /\ acc' \in Content /\ Len(acc') = written + Len(b)
        /\ \A i \in 1 .. written : acc'[i] = acc[i]
        /\ \A i \in 1 .. Len(b) : acc'[written + i] = b[i]
        /\ Zero(acc) /\ Zero(b) => Zero(acc')
    <3>1. acc \in Content /\ b \in Content /\ Len(acc) = written /\ acc' = acc \o b
      BY ONLY <1>2, <1>6, <1>11, SMTT(30)
    <3>2. /\ acc \o b \in Content /\ Len(acc \o b) = Len(acc) + Len(b)
          /\ \A i \in 1 .. Len(acc) : (acc \o b)[i] = acc[i]
          /\ \A i \in 1 .. Len(b) : (acc \o b)[Len(acc) + i] = b[i]
          /\ Zero(acc) /\ Zero(b) => Zero(acc \o b)
      BY ONLY <3>1, Joining, Zenon
    <3> QED BY ONLY <3>1, <3>2, Zenon DEF Zero
  <2>2. \A i \in 1 .. written' : disk'[i] = acc'[i]
    <3>1. written \in Nat /\ Len(b) \in Nat /\ written' = written + Len(b)
      BY <1>2, <1>5, <1>6, <1>9
    <3>2. ASSUME NEW i \in 1 .. written' PROVE disk'[i] = acc'[i]
      <4>1. CASE i \in 1 .. written
        <5>1. /\ \A j \in 1 .. written : disk'[j] = acc[j]
              /\ \A j \in 1 .. written : acc'[j] = acc[j]
          BY ONLY <1>9, <2>1
        <5> QED BY ONLY <4>1, <5>1, Zenon
      <4>2. CASE i - written \in 1 .. Len(b)
        <5>1. PICK j \in 1 .. Len(b) : i = written + j
          <6>1. i = written + (i - written)
            BY ONLY <3>1, i \in 1 .. written', SMTT(30)
          <6> QED BY ONLY <4>2, <6>1
        <5>2. /\ \A k \in 1 .. Len(b) : disk'[written + k] = b[k]
              /\ \A k \in 1 .. Len(b) : acc'[written + k] = b[k]
          BY ONLY <1>9, <2>1, SMTT(30)
        <5>3. disk'[written + j] = acc'[written + j]
          BY ONLY <5>2, j \in 1 .. Len(b), Zenon
        <5> QED BY ONLY <5>1, <5>3, Zenon
      <4> QED BY ONLY <3>1, <4>1, <4>2, i \in 1 .. written'
    <3> QED BY ONLY <3>2, Zenon
  <2>3. data' = hashed' => Zero(acc')
    BY <1>1, <1>3, <1>6, <2>1, ZenonT(20) DEF FiInv, OnDisk, clientVars
  <2>4. OnDisk'
    BY <1>9, <2>2, <2>3 DEF OnDisk
  <2>5. /\ spc' = "compare" => count' = Messages /\ hashLen'
        /\ spc' = "recvPart" => count' < Messages /\ ~hashLen'
        /\ Len(acc') = written'
    <3>1. Messages \in Nat
      BY Sized
    <3>2. Len(acc') = written'
      BY ONLY <1>6, <1>9, <2>1
    <3>3. CASE count' = total
      BY ONLY <1>2, <1>11, <3>2, <3>3, Zenon
    <3>4. CASE count' # total
      <4>1. count' < Messages
        BY ONLY <1>2, <1>5, <1>11, <3>1, <3>4, SMTT(30), Z3T(30)
      <4> QED BY ONLY <1>11, <3>2, <3>4, <4>1, ZenonT(40)
    <3> QED BY ONLY <3>3, <3>4
  <2>6. Progress'
    BY <1>1, <1>2, <1>5, <1>8, <1>9, <1>10, <1>11, <2>5 DEF FiInv, Progress, clientVars, Receiving
  <2>7. count' \in 0 .. Messages /\ hashLen' \in BOOLEAN
    BY <1>5, <1>11, Sized, SMTT(30)
  <2> QED BY <1>1, <1>4, <1>8, <1>9, <2>1, <2>4, <2>6, <2>7, GoesOn
<1>12. CASE Fault("task") /\ spc' = "compare" /\ UNCHANGED <<acc, hashLen, count>>
  <2>1. Progress'
    BY <1>1, <1>2, <1>10, <1>12, ZenonT(20) DEF FiInv, Progress, clientVars, Receiving, Fault
  <2>2. OnDisk'
    BY <1>2, <1>12 DEF OnDisk, Receiving
  <2>3. count' \in 0 .. Messages /\ hashLen' \in BOOLEAN
    <3>1. Messages \in Nat
      BY Sized
    <3>2. count' \in 0 .. Messages
      BY ONLY <1>5, <1>12, <3>1
    <3> QED BY <1>12, <3>2 DEF FiInv, Fields
  <2> QED BY <1>1, <1>2, <1>4, <1>8, <1>9, <1>12, <2>1, <2>2, <2>3, GoesOn, ZenonT(40)
<1> QED BY <1>1, <1>11, <1>12

LEMMA CompareInv == ASSUME FiInv, ServerCompare, UNCHANGED env PROVE FiInv'
<1>1. /\ spc = "compare"
      /\ UNCHANGED <<clientVars, toServer, sha, total, count, written, acc, hashLen>>
      /\ \/ /\ verdict' = "same" \/ (verdict' = "differs" /\ hashLen /\ acc # sha)
            /\ disk' \in {disk, <<>>}
            /\ sres' = "ok" /\ spc' = "finish"
         \/ sres' = "err" /\ spc' = "end" /\ verdict' = verdict /\ disk' = disk
  BY ZenonT(20) DEF ServerCompare
<1>2. /\ sha = hashed /\ hashed = Bytes(Size) /\ cpc # "hash" /\ verdict = "none"
      /\ hashLen => Len(acc) = Size
      /\ hashLen /\ data = hashed => Zero(acc)
      /\ acc \in Content
  BY <1>1 DEF FiInv, Sending, Progress, OnDisk, Fields
<1>3. hashLen /\ data = hashed => acc = sha
  BY <1>2, Sized, AllZero
<1>4. RejectsOnlyChanges'
  BY <1>1, <1>2, <1>3 DEF RejectsOnlyChanges, clientVars
<1>5. Size' = Size /\ Messages' = Messages /\ ~Receiving' /\ disk' \in Seq({0, 1, 2})
  <2>1. Size' = Size /\ Messages' = Messages /\ ~Receiving'
    BY <1>1 DEF Size, Messages, Receiving, clientVars
  <2>2. disk \in Seq({0, 1, 2}) /\ <<>> \in Seq({0, 1, 2})
    BY DEF FiInv, Fields
  <2> QED BY ONLY <1>1, <2>1, <2>2, Zenon
<1>6. FiTypeOK'
  BY <1>1, <1>2 DEF FiInv, FiTypeOK, clientVars
<1>7. Fields'
  BY <1>1, <1>5 DEF FiInv, Fields, clientVars
<1>8. Sending' /\ Queue'
  BY <1>1, <1>2, <1>5, KeepClient, ZenonT(20) DEF Queue
<1>9. Progress' /\ OnDisk'
  BY <1>1, <1>2, <1>5 DEF Progress, OnDisk, clientVars
<1> QED BY <1>4, <1>6, <1>7, <1>8, <1>9 DEF FiInv

LEMMA FinishInv == ASSUME FiInv, ServerFinish, UNCHANGED env PROVE FiInv'
<1>1. /\ spc = "finish" /\ spc' = "end"
      /\ UNCHANGED <<clientVars, toServer, sha, total, count, disk, written, acc, hashLen,
                     verdict, sres>>
  BY DEF ServerFinish
<1>2. Size' = Size /\ Messages' = Messages /\ ~Receiving'
  BY <1>1, ZenonT(20) DEF Size, Messages, Receiving, clientVars
<1>3. FiTypeOK' /\ Fields'
  BY <1>1, <1>2 DEF FiInv, FiTypeOK, Fields, clientVars
<1>4. Sending' /\ Queue'
  BY <1>1, <1>2, KeepClient, ZenonT(20) DEF Queue, FiInv, Sending
<1>5. Progress' /\ OnDisk' /\ RejectsOnlyChanges'
  BY <1>1, <1>2 DEF FiInv, Progress, OnDisk, RejectsOnlyChanges, clientVars
<1> QED BY <1>3, <1>4, <1>5 DEF FiInv

-----------------------------------------------------------------------------
(* Theorems.                                                               *)

LEMMA NextInv == ASSUME FiInv, [FiNext]_fiVars PROVE FiInv'
<1>1. CASE Client
  BY <1>1, HashInv, TotalInv, SendInv, EndInv DEF Client
<1>2. CASE Server
  BY <1>2, StartInv, RecvShaInv, RecvTotalInv, TimeoutInv, RecvOneInv, RecvPartInv,
     CompareInv, FinishInv DEF Server
<1>3. CASE Outside
  BY <1>3, EndInv, ChangeInv, SMTT(30) DEF Outside
<1>4. CASE UNCHANGED fiVars
  <2>1. UNCHANGED <<clientVars, serverVars, env, toServer>>
    BY <1>4 DEF fiVars, clientVars, serverVars
  <2>2. Size' = Size /\ Messages' = Messages /\ Posted' = Posted /\ Taken' = Taken
        /\ Receiving' = Receiving
    BY <2>1 DEF Size, Messages, Posted, Taken, Receiving, clientVars, serverVars
  <2>3. FiTypeOK' /\ Fields'
    BY <2>1, <2>2, Zenon DEF FiInv, FiTypeOK, Fields, clientVars, serverVars
  <2>4. Sending' /\ Progress'
    BY <2>1, <2>2, ZenonT(20) DEF FiInv, Sending, Progress, Fault, clientVars, serverVars
  <2>5. Queue'
    BY <2>1, <2>2, KeepQueue DEF clientVars, serverVars
  <2>6. OnDisk' /\ RejectsOnlyChanges'
    BY <2>1, <2>2 DEF FiInv, OnDisk, Tailed, RejectsOnlyChanges, Zero, clientVars, serverVars
  <2> QED BY <2>3, <2>4, <2>5, <2>6 DEF FiInv
<1> QED BY <1>1, <1>2, <1>3, <1>4 DEF FiNext

(* Every state of FiSpec satisfies the invariant.                          *)
THEOREM FiInvariant == FiSpec => []FiInv
  BY InitInv, NextInv, PTL DEF FiSpec

(* Sizes, offsets and results stay in range, for every file size and       *)
(* message size.                                                           *)
THEOREM FiTypeCorrect == FiSpec => []FiTypeOK
<1>1. FiInv => FiTypeOK
  BY DEF FiInv
<1> QED BY <1>1, FiInvariant, PTL

(* However the file is split into messages, the server rejects it only     *)
(* when it changed after the client hashed it.                             *)
THEOREM FiRejectsOnlyChanges == FiSpec => []RejectsOnlyChanges
<1>1. FiInv => RejectsOnlyChanges
  BY DEF FiInv
<1> QED BY <1>1, FiInvariant, PTL

LEMMA CompareSound ==
  ASSUME FiInv, ServerCompare, UNCHANGED env, verdict' = "same", ~Fault("task")
  PROVE  \E n \in OldSizes : disk' = Overwrite(OldFile(n), 0, hashed')
<1>1. /\ spc = "compare" /\ UNCHANGED clientVars
      /\ \/ (hashLen => acc = sha) /\ disk' = disk
         \/ verdict' = verdict
  BY ZenonT(20) DEF ServerCompare
<1>2. /\ sha = hashed /\ hashLen /\ written = Size /\ Len(acc) = Size /\ verdict = "none"
      /\ \A i \in 1 .. written : disk[i] = acc[i]
      /\ Tailed
  BY <1>1 DEF FiInv, FiTypeOK, Progress, OnDisk
<1>3. disk' = disk /\ acc = hashed /\ hashed' = hashed
  BY <1>1, <1>2 DEF clientVars
<1>4. disk \in Seq({0, 1, 2}) /\ acc \in Content
  BY DEF FiInv, Fields
<1>5. PICK n \in OldSizes : Len(disk) = Longer(n, written)
  BY <1>2 DEF Tailed
<1>6. n \in Nat
  BY FileIntegrityAssumption
<1>7. disk = Overwrite(OldFile(n), 0, acc)
  BY ONLY <1>2, <1>4, <1>5, <1>6, Covering DEF Tailed
<1> QED BY <1>3, <1>7

LEMMA VerdictStep ==
  ASSUME FiInv, VerdictSound, [FiNext]_fiVars PROVE VerdictSound'
<1>1. CASE ServerCompare /\ UNCHANGED env
  BY <1>1, CompareSound, Zenon DEF VerdictSound, Fault
<1>2. CASE /\ verdict' = verdict /\ env' = env
           /\ verdict = "none" \/ UNCHANGED <<disk, hashed>>
  BY <1>2, ZenonT(20) DEF VerdictSound, Fault
<1>3. CASE Client
  <2>1. cpc = "hash" => verdict = "none"
    BY DEF FiInv, Sending
  <2> QED BY <1>2, <1>3, <2>1 DEF Client, ClientHash, ClientTotal, ClientSend, ClientFinish, serverVars
<1>4. CASE Server
  <2>1. spc \in {"recvOne", "recvPart"} => verdict = "none"
    BY ZenonT(20) DEF FiInv, Progress
  <2>2. CASE ServerRecvOne \/ ServerRecvPart
    BY <1>2, <1>4, <2>1, <2>2, SMTT(30) DEF ServerRecvOne, ServerRecvPart, Server
  <2>3. CASE ServerStart \/ ServerRecvSha \/ ServerRecvTotal \/ ServerTimeout \/ ServerFinish
    BY <1>2, <1>4, <2>3, Zenon DEF ServerStart, ServerRecvSha, ServerRecvTotal, ServerTimeout,
       ServerFinish, Server, clientVars
  <2> QED BY <1>1, <1>4, <2>2, <2>3 DEF Server
<1>5. CASE Outside
  BY <1>2, <1>5 DEF Outside, ClientStop, FileChange, serverVars, clientVars
<1>6. CASE UNCHANGED fiVars
  BY <1>2, <1>6 DEF fiVars
<1> QED BY <1>3, <1>4, <1>5, <1>6 DEF FiNext

(* As long as no SHA task fails, the content of a file the server calls    *)
(* identical is on its disk byte by byte, written over the file that was   *)
(* there before: the server does not truncate it.                          *)
THEOREM FiVerdictSound == FiSpec => []VerdictSound
<1>1. FiInit => VerdictSound
  BY DEF FiInit, VerdictSound
<1>2. FiInv /\ VerdictSound /\ [FiNext]_fiVars => VerdictSound'
  BY VerdictStep
<1> QED BY <1>1, <1>2, FiInvariant, PTL DEF FiSpec

(* So, where no longer file was before, the file the server leaves when it *)
(* calls it identical is the one the client hashed.                        *)
THEOREM FiAcceptsHashed ==
  ASSUME OldFits
  PROVE  FiSpec => [](verdict = "same" /\ ~Fault("task") => disk = hashed)
<1>1. FiInv /\ VerdictSound => (verdict = "same" /\ ~Fault("task") => disk = hashed)
  <2> SUFFICES ASSUME FiInv, VerdictSound, verdict = "same", ~Fault("task")
               PROVE  disk = hashed
    OBVIOUS
  <2>1. PICK n \in OldSizes : disk = Overwrite(OldFile(n), 0, hashed)
    BY DEF VerdictSound
  <2>2. hashed = Bytes(Size) /\ Size \in Sizes /\ Size \in Nat
    BY Sized DEF FiInv, Progress, Fields
  <2>3. hashed \in Content /\ Len(hashed) = Size
    BY <2>2, AllZero
  <2>4. n \in Nat /\ n <= Len(hashed)
    BY <2>2, <2>3, FileIntegrityAssumption DEF OldFits
  <2> QED BY <2>1, <2>3, <2>4, CoversAll, Zenon
<1> QED BY <1>1, FiInvariant, FiVerdictSound, PTL

=============================================================================
