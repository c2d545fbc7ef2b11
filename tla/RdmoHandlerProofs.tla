------------------------- MODULE RdmoHandlerProofs -------------------------
(* What a step of the RDMO worker's handlers and of the NIC does to the    *)
(* completions that are to come: the lemmas behind FreedIsQuiet.           *)
EXTENDS RdmoWorker, TLAPS, FiniteSetTheorems

LEMMA ReqAttributes ==
    ASSUME SchedTypeOK, NEW r \in Arrived
    PROVE  /\ reqs[r] \in Shapes
           /\ Ep(r) \in Eps /\ Client(r) \in Clients
           /\ r \in Ids
  BY ShapesAssumption, MaxReqsAssumption DEF SchedTypeOK, Arrived, Ep, Client, Ids

LEMMA CurArrived ==
    ASSUME SchedTypeOK, at # "idle"
    PROVE  cur \in Arrived /\ Ep(cur) \in Eps /\ Client(cur) \in Clients
  <1>1. cur \in Arrived BY DEF SchedTypeOK, Arrived
  <1> QED BY <1>1, ReqAttributes, Zenon

LEMMA NotArrived ==
    ASSUME SchedTypeOK, Parked, NEW x \in Ids
    PROVE  x \notin Arrived <=> where[x] = "none"
  <1>1. where[x] = "none" <=> x > Len(reqs) BY Zenon DEF Parked
  <1>2. Len(reqs) \in Nat BY DEF SchedTypeOK
  <1> QED BY <1>1, <1>2, MaxReqsAssumption DEF Ids, Arrived

(* An operation that the handler of r posts without waiting for it. *)
Silent(r, o) == ~ Awaited(o) /\ o.req \in {0, r}

(* The operations t are those of s and then silent ones. *)
Silently(r, s, t) ==
    /\ t \in Seq(PostedOps) /\ Len(s) <= Len(t)
    /\ \A i \in 1 .. Len(s) : t[i] = s[i]
    /\ \A i \in Len(s) + 1 .. Len(t) : Silent(r, t[i])

LEMMA OpTyped ==
    ASSUME NEW kind \in Kinds, NEW r, NEW n \in Nat, NEW q,
           r \in Ids \/ (r = 0 /\ kind \in {"fence", "ptr", "read"}),
           q \in Queues \/ (q = Unknown /\ kind \in {"fence", "flush"})
    PROVE  /\ Op(kind, r, q, n) \in PostedOps
           /\ Op(kind, r, q, n).kind = kind /\ Op(kind, r, q, n).req = r
  BY WorkerAssumption, MaxReqsAssumption DEF Op, PostedOps, Ids

LEMMA GetTyped ==
    ASSUME NEW r \in Ids, NEW q \in Queues
    PROVE  Op("get", r, q, 0) \in PostedOps /\ Op("get", r, q, 0).req = r
  BY OpTyped DEF Kinds

LEMMA PutTyped ==
    ASSUME NEW r \in Ids, NEW q \in Queues, NEW n \in Nat
    PROVE  Op("put", r, q, n) \in PostedOps /\ Silent(r, Op("put", r, q, n))
  BY OpTyped DEF Kinds, Silent, Awaited

LEMMA OwnOpSilent ==
    ASSUME NEW kind \in {"fence", "ptr", "read"}, NEW n \in Nat, NEW q,
           q \in Queues \/ (q = Unknown /\ kind = "fence"), NEW r
    PROVE  Op(kind, 0, q, n) \in PostedOps /\ Silent(r, Op(kind, 0, q, n))
  BY WorkerAssumption, MaxReqsAssumption DEF Op, PostedOps, Kinds, Silent, Awaited

LEMMA SilentFence ==
    ASSUME NEW r, NEW s \in Seq(PostedOps) PROVE Silently(r, s, WithFence(s))
  <1>2. Fence \in PostedOps /\ Silent(r, Fence)
    BY OwnOpSilent, Zenon DEF Fence
  <1>3. CASE WithFence(s) = s BY <1>3 DEF Silently
  <1>4. CASE WithFence(s) = Append(s, Fence)
    BY <1>2, <1>4 DEF Silently
  <1> QED BY <1>3, <1>4, Zenon DEF WithFence

LEMMA SilentConcat ==
    ASSUME NEW r, NEW s \in Seq(PostedOps), NEW t, Silently(r, s, t), NEW u \in Seq(PostedOps),
           \A i \in 1 .. Len(u) : Silent(r, u[i])
    PROVE  Silently(r, s, t \o u)
  <1>1. t \in Seq(PostedOps) /\ Len(s) \in Nat /\ Len(t) \in Nat /\ Len(u) \in Nat
    BY DEF Silently
  <1>2. t \o u \in Seq(PostedOps) /\ Len(t \o u) = Len(t) + Len(u) BY <1>1
  <1>3. \A i \in 1 .. Len(t) : (t \o u)[i] = t[i] BY <1>1
  <1>4. \A i \in Len(t) + 1 .. Len(t \o u) : (t \o u)[i] = u[i - Len(t)] /\ i - Len(t) \in 1 .. Len(u)
    BY <1>1
  <1> QED BY <1>1, <1>2, <1>3, <1>4 DEF Silently

LEMMA OrdersFinite ==
    ASSUME NEW S, IsFiniteSet(S), NEW s \in Orders(S)
    PROVE  s \in Seq(S) /\ Len(s) = Cardinality(S)
  <1>1. Cardinality(S) \in Nat BY FS_CardinalityType, Zenon
  <1>2. s \in [1 .. Cardinality(S) -> S] BY Zenon DEF Orders
  <1> QED BY <1>1, <1>2

LEMMA PointersSilent ==
    ASSUME NEW r, cache \in [Queues -> Nat \cup {NotCached}], NEW c, NEW S \in SUBSET Cached(c),
           NEW s \in Orders(S), NEW g \in Queues \cup {Unknown}
    PROVE  /\ PointerPuts(s, g) \in Seq(PostedOps)
           /\ \A i \in 1 .. Len(PointerPuts(s, g)) : Silent(r, PointerPuts(s, g)[i])
  <1>0. S \subseteq Queues /\ \A x \in S : cache[x] # NotCached BY Zenon DEF Cached, Mkeys
  <1>1. s \in Seq(S) /\ Len(s) \in Nat
    BY <1>0, OrdersFinite, WorkerAssumption, FS_Subset
  <1> DEFINE p == [i \in 1 .. Len(s) |-> Op("ptr", 0, s[i], cache[s[i]])]
             e == IF g = Unknown THEN <<>> ELSE <<Op("read", 0, g, 0)>>
  <1>3. \A i \in 1 .. Len(s) : s[i] \in Queues /\ cache[s[i]] \in Nat
    BY <1>0, <1>1 DEF NotCached
  <1>4. \A i \in 1 .. Len(s) : p[i] \in PostedOps /\ Silent(r, p[i])
    BY <1>3, OwnOpSilent, Zenon
  <1>5. p \in Seq(PostedOps) /\ Len(p) = Len(s) BY <1>1, <1>4
  <1>6. e \in Seq(PostedOps) /\ \A i \in 1 .. Len(e) : Silent(r, e[i])
    <2>1. CASE g = Unknown BY <2>1
    <2>2. CASE g # Unknown
      <3>1. g \in Queues /\ 0 \in Nat BY <2>2
      <3>2. Op("read", 0, g, 0) \in PostedOps /\ Silent(r, Op("read", 0, g, 0))
        BY <3>1, OwnOpSilent, Zenon
      <3> QED BY <2>2, <3>2
    <2> QED BY <2>1, <2>2, Zenon
  <1>7. PointerPuts(s, g) = p \o e BY Zenon DEF PointerPuts, FlushingGet
  <1> HIDE DEF p, e
  <1>8. \A i \in 1 .. Len(p \o e) : Silent(r, (p \o e)[i])
    <2> SUFFICES ASSUME NEW i \in 1 .. Len(p \o e) PROVE Silent(r, (p \o e)[i]) BY Zenon
    <2>1. Len(p) \in Nat /\ Len(e) \in Nat /\ i \in Nat BY <1>5, <1>6
    <2>2. CASE i <= Len(p) BY <1>4, <1>5, <1>6, <2>1, <2>2
    <2>3. CASE i > Len(p)
      <3>1. (p \o e)[i] = e[i - Len(p)] /\ i - Len(p) \in 1 .. Len(e) BY <1>5, <1>6, <2>1, <2>3
      <3> QED BY <1>6, <3>1, Zenon
    <2> QED BY <2>1, <2>2, <2>3
  <1> QED BY <1>5, <1>6, <1>7, <1>8

(* What the handler of request r may leave to come: for a flush or an append *)
(* one completion, posted, fetched or reported; for a scatter as many as it  *)
(* counts.  If it is done, none.                                             *)
QuietStep(r, q, done) ==
    /\ rma' \in [Clients -> Seq(PostedOps)]
    /\ \A c \in Clients :
          /\ Len(rma[c]) <= Len(rma'[c])
          /\ \A i \in 1 .. Len(rma[c]) : rma'[c][i] = rma[c][i]
          /\ \A i \in Len(rma[c]) + 1 .. Len(rma'[c]) :
                /\ rma'[c][i].req \in {0, r}
                /\ Awaited(rma'[c][i]) =>
                     /\ c = q.client /\ i = Len(rma'[c]) /\ rma'[c][i].req = r
                     /\ ~ done /\ q.op # "scatter" /\ comp'[r] = 0 /\ r \notin rndv'
    /\ rndv \subseteq rndv' /\ rndv' \subseteq rndv \cup {r}
    /\ r \in rndv' => ~ done /\ q.op # "scatter" /\ comp'[r] = 0
    /\ comp' \in [Ids -> Nat] /\ ctx1' \in [Ids -> Nat]
    /\ \A x \in Ids : x # r => comp'[x] = comp[x] /\ ctx1'[x] = ctx1[x]
    /\ Counts(q, ctx1'[r], comp'[r])
    /\ done => comp'[r] = 0 \/ Cut(q)

(* The types of the rest. *)
TypedStep(r) ==
    /\ cache' \in [Queues -> Nat \cup {NotCached}]
    /\ ptr' \in [Queues -> Nat]
    /\ landed' \subseteq landed \cup ({r} \X Nat)
    /\ acked' \subseteq acked \cup {r}

(* Nothing but silent operations is posted. *)
AllSilent(r) == rma' \in [Clients -> Seq(PostedOps)] /\ \A c \in Clients : Silently(r, rma[c], rma'[c])

LEMMA SilentStep ==
    ASSUME WorkerTypeOK, NEW r \in Ids, NEW q, NEW done \in BOOLEAN, NEW k \in Nat, NEW a \in Nat,
           AllSilent(r), UNCHANGED rndv, r \notin rndv,
           comp' = [comp EXCEPT ![r] = k], ctx1' = [ctx1 EXCEPT ![r] = a],
           Counts(q, a, k), done => k = 0 \/ Cut(q)
    PROVE  QuietStep(r, q, done)
  <1>1. /\ comp' \in [Ids -> Nat] /\ ctx1' \in [Ids -> Nat]
        /\ \A x \in Ids : x # r => comp'[x] = comp[x] /\ ctx1'[x] = ctx1[x]
        /\ comp'[r] = k /\ ctx1'[r] = a
    BY Zenon DEF WorkerTypeOK
  <1>2. \A c \in Clients :
          /\ Len(rma[c]) <= Len(rma'[c])
          /\ \A i \in 1 .. Len(rma[c]) : rma'[c][i] = rma[c][i]
          /\ \A i \in Len(rma[c]) + 1 .. Len(rma'[c]) : Silent(r, rma'[c][i])
    BY Zenon DEF AllSilent, Silently
  <1> QED BY <1>1, <1>2, Zenon DEF AllSilent, QuietStep, Silent

LEMMA UnchangedSilent == ASSUME WorkerTypeOK, NEW r, UNCHANGED rma PROVE AllSilent(r)
  <1>1. \A c \in Clients : rma[c] \in Seq(PostedOps) BY Zenon DEF WorkerTypeOK
  <1> QED BY <1>1 DEF WorkerTypeOK, AllSilent, Silently

(* One more operation, whose completion is reported to r. *)
LEMMA AwaitStep ==
    ASSUME WorkerTypeOK, NEW r \in Ids, NEW q, q.client \in Clients, q.op # "scatter",
           NEW f \in [Clients -> Seq(PostedOps)], \A c \in Clients : Silently(r, rma[c], f[c]),
           NEW o \in PostedOps, o.req = r,
           rma' = [f EXCEPT ![q.client] = Append(@, o)], UNCHANGED <<ctx1, rndv>>, r \notin rndv,
           comp' = [comp EXCEPT ![r] = 0]
    PROVE  QuietStep(r, q, FALSE)
  <1>1. /\ comp' \in [Ids -> Nat] /\ ctx1' \in [Ids -> Nat]
        /\ \A x \in Ids : x # r => comp'[x] = comp[x] /\ ctx1'[x] = ctx1[x]
        /\ comp'[r] = 0 /\ comp'[r] <= 1 /\ rndv' = rndv
    BY DEF WorkerTypeOK
  <1>2. rma' \in [Clients -> Seq(PostedOps)]
    OBVIOUS
  <1>3. ASSUME NEW c \in Clients
        PROVE  /\ Len(rma[c]) <= Len(rma'[c])
               /\ \A i \in 1 .. Len(rma[c]) : rma'[c][i] = rma[c][i]
               /\ \A i \in Len(rma[c]) + 1 .. Len(rma'[c]) : rma'[c][i].req \in {0, r}
               /\ \A i \in Len(rma[c]) + 1 .. Len(rma'[c]) : Awaited(rma'[c][i]) =>
                     c = q.client /\ i = Len(rma'[c]) /\ rma'[c][i].req = r
    <2>1. /\ f[c] \in Seq(PostedOps) /\ Len(rma[c]) \in Nat /\ Len(f[c]) \in Nat
          /\ Len(rma[c]) <= Len(f[c])
          /\ \A i \in 1 .. Len(rma[c]) : f[c][i] = rma[c][i]
          /\ \A i \in Len(rma[c]) + 1 .. Len(f[c]) : Silent(r, f[c][i])
      BY DEF WorkerTypeOK, Silently
    <2>2. CASE c # q.client
      <3>1. rma'[c] = f[c] BY <2>2, Zenon
      <3> QED BY <2>1, <3>1, Zenon DEF Silent
    <2>3. CASE c = q.client
      <3>1. rma'[c] = Append(f[c], o) BY <2>3, Zenon
      <3>2. /\ Len(rma'[c]) = Len(f[c]) + 1 /\ rma'[c][Len(f[c]) + 1] = o
            /\ \A i \in 1 .. Len(f[c]) : rma'[c][i] = f[c][i]
        BY <2>1, <3>1
      <3>3. ASSUME NEW i \in Len(rma[c]) + 1 .. Len(rma'[c])
            PROVE  /\ rma'[c][i].req \in {0, r}
                   /\ Awaited(rma'[c][i]) => i = Len(rma'[c]) /\ rma'[c][i].req = r
        <4>1. CASE i \in Len(rma[c]) + 1 .. Len(f[c])
          <5>1. i \in 1 .. Len(f[c]) BY <2>1, <4>1
          <5> QED BY <2>1, <3>2, <4>1, <5>1, Zenon DEF Silent
        <4>2. CASE i = Len(f[c]) + 1 BY <3>2, <4>2, Zenon
        <4> QED BY <2>1, <3>2, <4>1, <4>2
      <3>4. /\ Len(rma[c]) <= Len(rma'[c])
            /\ \A i \in 1 .. Len(rma[c]) : rma'[c][i] = rma[c][i]
        BY <2>1, <3>2
      <3> QED BY <2>3, <3>3, <3>4, Zenon
    <2> QED BY <2>2, <2>3, Zenon
  <1> QED BY <1>1, <1>2, <1>3, Zenon DEF QuietStep, Counts

LEMMA RespondQuiet ==
    ASSUME WorkerTypeOK, NEW r \in Ids, NEW q, q.op = "flush", NEW done \in BOOLEAN,
           FlushRespond(r, 0, done), AllSilent(r), UNCHANGED <<ctx1, rndv>>, r \notin rndv
    PROVE  QuietStep(r, q, done) /\ acked' \subseteq acked \cup {r}
  <1>1. PICK k \in {0, 1} : comp' = [comp EXCEPT ![r] = k] /\ (done => k = 0)
    BY DEF FlushRespond, Stage
  <1>2. k \in Nat /\ k <= 1 /\ ctx1[r] \in Nat /\ ctx1' = [ctx1 EXCEPT ![r] = ctx1[r]]
    BY DEF WorkerTypeOK
  <1>3. acked' \subseteq acked \cup {r} BY Zenon DEF FlushRespond
  <1> QED BY <1>1, <1>2, <1>3, SilentStep, Zenon DEF Counts

LEMMA FlushRmaQuiet ==
    ASSUME WorkerTypeOK, NEW r \in Ids, NEW q \in Shapes, q.op = "flush", NEW done \in BOOLEAN,
           FlushRma(r, q, 0, done), UNCHANGED <<ctx1, rndv>>, r \notin rndv
    PROVE  /\ QuietStep(r, q, done) /\ acked' \subseteq acked \cup {r}
           /\ cache' \in [Queues -> Nat \cup {NotCached}]
  <1> DEFINE c == q.client
             fences == [d \in Clients |-> WithFence(rma[d])]
  <1>1. PICK posted \in SUBSET Cached(c) : \E lost \in SUBSET Cached(c) :
           \E order \in Orders(posted) : \E get \in Cached(c) \cup {Unknown} :
              LET s == fences[c] \o PointerPuts(order, get)
              IN  /\ CacheFlush(c, posted, lost, get)
                  /\ \/ /\ ~ done
                        /\ rma' = [fences EXCEPT ![c] = Append(s, Op("flush", r, Unknown, 0))]
                        /\ Stage(r, 1, 0)
                        /\ UNCHANGED acked
                     \/ /\ s = <<>>
                        /\ rma' = fences
                        /\ FlushRespond(r, 0, done)
                     \/ /\ MayFail /\ ~ done
                        /\ rma' = [fences EXCEPT ![c] = s]
                        /\ Stage(r, 0, 0)
                        /\ UNCHANGED acked
    BY Zenon DEF FlushRma
  <1>2. PICK lost \in SUBSET Cached(c), order \in Orders(posted),
             get \in Cached(c) \cup {Unknown} :
              LET s == fences[c] \o PointerPuts(order, get)
              IN  /\ CacheFlush(c, posted, lost, get)
                  /\ \/ /\ ~ done
                        /\ rma' = [fences EXCEPT ![c] = Append(s, Op("flush", r, Unknown, 0))]
                        /\ Stage(r, 1, 0)
                        /\ UNCHANGED acked
                     \/ /\ s = <<>>
                        /\ rma' = fences
                        /\ FlushRespond(r, 0, done)
                     \/ /\ MayFail /\ ~ done
                        /\ rma' = [fences EXCEPT ![c] = s]
                        /\ Stage(r, 0, 0)
                        /\ UNCHANGED acked
    BY <1>1, Zenon
  <1> DEFINE u == PointerPuts(order, get)
             s == fences[c] \o u
             o == Op("flush", r, Unknown, 0)
             f == [fences EXCEPT ![c] = s]
  <1>3. c \in Clients /\ r \in 0 .. MaxReqs /\ \A d \in Clients : rma[d] \in Seq(PostedOps)
    BY ShapesAssumption, MaxReqsAssumption DEF WorkerTypeOK, Ids
  <1>4. cache' \in [Queues -> Nat \cup {NotCached}]
    BY <1>2, Zenon DEF CacheFlush, WorkerTypeOK
  <1>6. u \in Seq(PostedOps) /\ \A i \in 1 .. Len(u) : Silent(r, u[i])
    <2>1. get \in Queues \cup {Unknown} BY Zenon DEF Cached, Mkeys
    <2> QED BY <1>2, <2>1, PointersSilent, Zenon DEF WorkerTypeOK
  <1>7. \A d \in Clients : Silently(r, rma[d], fences[d])
    BY <1>3, SilentFence, Zenon
  <1>8. Silently(r, rma[c], s) BY <1>3, <1>6, <1>7, SilentConcat, Zenon
  <1>9. fences \in [Clients -> Seq(PostedOps)] /\ s \in Seq(PostedOps)
    BY <1>7, <1>8, Zenon DEF Silently
  <1>10. f \in [Clients -> Seq(PostedOps)] /\ \A d \in Clients : Silently(r, rma[d], f[d])
    BY <1>3, <1>7, <1>8, <1>9, Zenon
  <1>11. o \in PostedOps /\ o.req = r
    BY <1>3, OpTyped DEF Kinds
  <1>12. [fences EXCEPT ![c] = Append(s, o)] = [f EXCEPT ![c] = Append(@, o)]
    BY <1>3, <1>9, Zenon
  <1> HIDE DEF fences, u, s, o, f
  <1>13. CASE ~ done /\ rma' = [fences EXCEPT ![c] = Append(s, o)] /\ Stage(r, 1, 0) /\ UNCHANGED acked
    <2>1. comp' = [comp EXCEPT ![r] = 0] BY <1>13, Zenon DEF Stage
    <2>2. QuietStep(r, q, FALSE)
      BY <1>3, <1>10, <1>11, <1>12, <1>13, <2>1, AwaitStep, Zenon
    <2>3. done = FALSE BY <1>13, Zenon
    <2> QED BY <1>4, <1>13, <2>2, <2>3, Zenon
  <1>14. CASE rma' = fences /\ FlushRespond(r, 0, done)
    <2>1. AllSilent(r) BY <1>7, <1>9, <1>14, Zenon DEF AllSilent
    <2> QED BY <1>4, <1>14, <2>1, RespondQuiet, Zenon
  <1>15. CASE ~ done /\ rma' = f /\ Stage(r, 0, 0) /\ UNCHANGED acked
    <2>1. AllSilent(r) BY <1>10, <1>15, Zenon DEF AllSilent
    <2>2. comp' = [comp EXCEPT ![r] = 0] BY <1>15, Zenon DEF Stage
    <2>3. ctx1[r] \in Nat /\ ctx1' = [ctx1 EXCEPT ![r] = ctx1[r]] /\ 0 \in Nat /\ 0 <= 1
      BY DEF WorkerTypeOK
    <2>4. QuietStep(r, q, done) BY <1>15, <2>1, <2>2, <2>3, SilentStep, Zenon DEF Counts
    <2> QED BY <1>4, <1>15, <2>4, Zenon
  <1> QED BY <1>2, <1>13, <1>14, <1>15, Zenon DEF fences, u, s, o, f

(* urom_worker_rdmo_flush_progress *)
LEMMA FlushQuiet ==
    ASSUME WorkerTypeOK, NEW r \in Ids, NEW q \in Shapes, q.op = "flush", NEW done \in BOOLEAN,
           NEW p, FlushProgress(r, q, 0, done, p), r \notin rndv
    PROVE  QuietStep(r, q, done) /\ TypedStep(r)
  <1>1. UNCHANGED <<ctx1, rndv, ptr, landed>> BY Zenon DEF FlushProgress
  <1>0. /\ cache \in [Queues -> Nat \cup {NotCached}] /\ ptr' \in [Queues -> Nat]
        /\ landed' \subseteq landed \cup ({r} \X Nat)
    BY <1>1, Zenon DEF WorkerTypeOK
  <1>2. CASE FlushRma(r, q, 0, done)
    <2>1. UNCHANGED <<ctx1, rndv>> BY <1>1, Zenon
    <2>2. /\ QuietStep(r, q, done) /\ acked' \subseteq acked \cup {r}
          /\ cache' \in [Queues -> Nat \cup {NotCached}]
      BY ONLY WorkerTypeOK, r \in Ids, q \in Shapes, q.op = "flush", done \in BOOLEAN,
              r \notin rndv, <1>2, <2>1, FlushRmaQuiet, Zenon
    <2> QED BY <1>0, <2>2, Zenon DEF TypedStep
  <1>3. CASE FlushRespond(r, 0, done) /\ UNCHANGED <<cache, rma>>
    BY <1>0, <1>1, <1>3, RespondQuiet, UnchangedSilent, Zenon DEF TypedStep
  <1>4. CASE (Stage(r, 0, 0) \/ Stage(r, 2, 0)) /\ UNCHANGED <<cache, rma, acked>>
    <2>1. comp' = [comp EXCEPT ![r] = 0] BY <1>4, Zenon DEF Stage
    <2>2. ctx1[r] \in Nat /\ ctx1' = [ctx1 EXCEPT ![r] = ctx1[r]] /\ 0 \in Nat /\ 0 <= 1
      BY <1>1 DEF WorkerTypeOK
    <2>3. QuietStep(r, q, done) BY <1>1, <1>4, <2>1, <2>2, UnchangedSilent, SilentStep, Zenon DEF Counts
    <2> QED BY <1>0, <1>4, <2>3, Zenon DEF TypedStep
  <1> QED BY <1>2, <1>3, <1>4, Zenon DEF FlushProgress

LEMMA ExceptTyped ==
    ASSUME NEW D, NEW S, NEW f \in [D -> S], NEW d, NEW v, d \in D => v \in S
    PROVE  [f EXCEPT ![d] = v] \in [D -> S]
  BY Zenon

(* urom_worker_rdmo_append_progress, from stage 2 *)
LEMMA PutQuiet ==
    ASSUME WorkerTypeOK, NEW r \in Ids, NEW q \in Shapes, q.op = "append", NEW a \in Nat,
           NEW done \in BOOLEAN, AppendPut(r, q, a, 0, done), r \notin rndv
    PROVE  /\ QuietStep(r, q, done)
           /\ ptr' \in [Queues -> Nat] /\ landed' \subseteq landed \cup ({r} \X Nat)
  <1>1. /\ ctx1' = [ctx1 EXCEPT ![r] = a] /\ q.len \in Nat /\ q.client \in Clients
        /\ r \in 0 .. MaxReqs /\ 0 \in Nat /\ 0 <= 1 /\ 1 \in Nat /\ 1 <= 1 /\ 1 \in Int
        /\ \A c \in Clients : rma[c] \in Seq(PostedOps)
    BY RequestsAssumption, ShapesAssumption, MaxReqsAssumption DEF AppendPut, WorkerTypeOK, Ids
  <1>2. CASE Stage(r, 2, 0) /\ UNCHANGED <<rma, rndv, ptr, landed>>
    <2>1. comp' = [comp EXCEPT ![r] = 0] BY <1>2, Zenon DEF Stage
    <2>2. QuietStep(r, q, done) BY <1>1, <1>2, <2>1, UnchangedSilent, SilentStep, Zenon DEF Counts
    <2> QED BY <1>2, <2>2, Zenon DEF WorkerTypeOK
  <1>3. CASE /\ Stage(r, 3, 0) /\ UNCHANGED <<rma, ptr>>
             /\ rndv' = IF done THEN rndv ELSE rndv \cup {r}
             /\ landed' = IF done THEN landed \cup {<<r, 1>>} ELSE landed
    <2>1. comp' = [comp EXCEPT ![r] = 0] BY <1>3, Zenon DEF Stage
    <2>2. /\ comp' \in [Ids -> Nat] /\ ctx1' \in [Ids -> Nat]
          /\ \A x \in Ids : x # r => comp'[x] = comp[x] /\ ctx1'[x] = ctx1[x]
          /\ comp'[r] = 0
      BY <1>1, <2>1, Zenon DEF WorkerTypeOK
    <2>3. /\ rndv \subseteq rndv' /\ rndv' \subseteq rndv \cup {r}
          /\ r \in rndv' => ~ done
      BY <1>3, Zenon
    <2>4. \A c \in Clients :
             /\ rma'[c] = rma[c] /\ Len(rma[c]) <= Len(rma'[c])
             /\ \A i \in Len(rma[c]) + 1 .. Len(rma'[c]) : FALSE
      BY <1>1, <1>3
    <2>5. QuietStep(r, q, done)
      BY <1>1, <1>3, <2>2, <2>3, <2>4, Zenon DEF QuietStep, WorkerTypeOK, Counts
    <2> QED BY <1>3, <2>5 DEF WorkerTypeOK
  <1>4. CASE /\ q.dq \in Mkeys(q.client) /\ Stage(r, 3, IF done THEN 0 ELSE 0 + 1)
             /\ Post(q.client, <<Op("put", r, q.dq, 1)>>)
             /\ UNCHANGED <<rndv, ptr, landed>>
    <2>1. PICK k \in {0, 1} : comp' = [comp EXCEPT ![r] = k] /\ (done => k = 0)
      <3>1. CASE done BY <1>4, <3>1, Zenon DEF Stage
      <3>2. CASE ~ done
        <4>1. (IF done THEN 0 ELSE 0 + 1) = 1 BY <3>2
        <4> QED BY <1>4, <3>2, <4>1, Zenon DEF Stage
      <3> QED BY <3>1, <3>2, Zenon
    <2>2. k \in Nat /\ k <= 1 OBVIOUS
    <2> DEFINE u == <<Op("put", r, q.dq, 1)>>
    <2>3. q.dq \in Queues BY <1>4, Zenon DEF Mkeys
    <2>4. Op("put", r, q.dq, 1) \in PostedOps /\ Silent(r, Op("put", r, q.dq, 1))
      BY <1>1, <2>3, OpTyped DEF Kinds, Silent, Awaited
    <2>5. u \in Seq(PostedOps) /\ \A i \in 1 .. Len(u) : Silent(r, u[i])
      BY <2>4
    <2> HIDE DEF u
    <2>6. rma' = [rma EXCEPT ![q.client] = @ \o u] BY <1>4, Zenon DEF Post, u
    <2>7. \A c \in Clients : Silently(r, rma[c], rma[c]) BY <1>1 DEF Silently
    <2>8. Silently(r, rma[q.client], rma[q.client] \o u)
      BY <1>1, <2>5, <2>7, SilentConcat, Zenon
    <2>9. \A c \in Clients : Silently(r, rma[c], rma'[c])
      BY <1>1, <2>6, <2>7, <2>8, Zenon DEF WorkerTypeOK
    <2>10. rma' \in [Clients -> Seq(PostedOps)]
      BY <2>6, <2>9, Zenon DEF WorkerTypeOK, Silently
    <2>11. QuietStep(r, q, done)
      BY <1>1, <1>4, <2>1, <2>2, <2>9, <2>10, SilentStep, Zenon DEF AllSilent, Counts
    <2> QED BY <1>4, <2>11, Zenon DEF WorkerTypeOK
  <1>5. CASE /\ Stage(r, 2, 0) /\ landed' = landed \cup {<<r, 1>>}
             /\ ptr' = [ptr EXCEPT ![q.q] = @ + q.len]
             /\ UNCHANGED <<rma, rndv>>
    <2>1. comp' = [comp EXCEPT ![r] = 0] BY <1>5, Zenon DEF Stage
    <2>2. QuietStep(r, q, done) BY <1>1, <1>5, <2>1, UnchangedSilent, SilentStep, Zenon DEF Counts
    <2>3. ptr \in [Queues -> Nat] BY Zenon DEF WorkerTypeOK
    <2>4. q.q \in Queues => ptr[q.q] + q.len \in Nat BY <1>1, <2>3
    <2>5. ptr' \in [Queues -> Nat] BY <1>5, <2>3, <2>4, ExceptTyped
    <2> QED BY <1>5, <2>2, <2>5
  <1> QED BY <1>2, <1>3, <1>4, <1>5, Zenon DEF AppendPut

LEMMA CacheQuiet ==
    ASSUME WorkerTypeOK, NEW r \in Ids, NEW q \in Shapes, q.op = "append", NEW a \in Nat,
           NEW done \in BOOLEAN, NEW p, AppendCache(r, q, a, 0, done, p), r \notin rndv
    PROVE  /\ QuietStep(r, q, done) /\ ptr' \in [Queues -> Nat]
           /\ landed' \subseteq landed \cup ({r} \X Nat)
           /\ cache' \in [Queues -> Nat \cup {NotCached}]
  <1>1. CASE cache' = [cache EXCEPT ![q.q] = a + q.len] /\ AppendPut(r, q, a, 0, done)
    <2>1. q.len \in Nat BY RequestsAssumption, Zenon
    <2>2. cache \in [Queues -> Nat \cup {NotCached}] /\ a + q.len \in Nat
      BY <2>1 DEF WorkerTypeOK
    <2>3. cache' \in [Queues -> Nat \cup {NotCached}] BY <1>1, <2>2, ExceptTyped, Zenon
    <2> QED BY <1>1, <2>3, PutQuiet
  <1>2. CASE ~ done /\ Stage(r, 1, 0) /\ UNCHANGED <<ctx1, cache, rma, rndv, ptr, landed>>
    <2>1. comp' = [comp EXCEPT ![r] = 0] BY <1>2, Zenon DEF Stage
    <2>2. ctx1[r] \in Nat /\ ctx1' = [ctx1 EXCEPT ![r] = ctx1[r]] /\ 0 \in Nat /\ 0 <= 1
      BY <1>2 DEF WorkerTypeOK
    <2>3. QuietStep(r, q, done) BY <1>2, <2>1, <2>2, UnchangedSilent, SilentStep, Zenon DEF Counts
    <2> QED BY <1>2, <2>3, Zenon DEF WorkerTypeOK
  <1> QED BY <1>1, <1>2, Zenon DEF AppendCache

LEMMA GetQuiet ==
    ASSUME WorkerTypeOK, NEW r \in Ids, NEW q \in Shapes, q.op = "append",
           NEW p, AppendGet(r, q, 0, p), q.q \in Mkeys(q.client), r \notin rndv,
           UNCHANGED <<ctx1, rndv>>
    PROVE  QuietStep(r, q, FALSE)
  <1>1. /\ comp' = [comp EXCEPT ![r] = 0] /\ q.client \in Clients /\ r \in 0 .. MaxReqs
        /\ \A c \in Clients : rma[c] \in Seq(PostedOps)
    BY ShapesAssumption, MaxReqsAssumption DEF AppendGet, Stage, WorkerTypeOK, Ids
  <1>2. CASE Post(q.client, <<Op("get", r, q.q, 0)>>)
    <2>1. q.q \in Queues BY Zenon DEF Mkeys
    <2>2. Op("get", r, q.q, 0) \in PostedOps /\ Op("get", r, q.q, 0).req = r
      BY <2>1, GetTyped, Zenon
    <2>3. \A c \in Clients : Silently(r, rma[c], rma[c]) BY <1>1 DEF Silently
    <2>4. PICK o \in PostedOps : o = Op("get", r, q.q, 0) BY <2>2, Zenon
    <2>5. rma' = [rma EXCEPT ![q.client] = Append(@, o)]
      <3>1. rma[q.client] \o <<o>> = Append(rma[q.client], o) BY <1>1
      <3> QED BY <1>2, <2>4, <3>1, Zenon DEF Post
    <2> QED BY <1>1, <2>2, <2>3, <2>4, <2>5, AwaitStep, Zenon DEF WorkerTypeOK
  <1>3. CASE UNCHANGED rma
    <2>2. ctx1[r] \in Nat /\ ctx1' = [ctx1 EXCEPT ![r] = ctx1[r]] /\ 0 \in Nat /\ 0 <= 1
      BY DEF WorkerTypeOK
    <2> QED BY <1>1, <1>3, <2>2, UnchangedSilent, SilentStep, Zenon DEF Counts
  <1> QED BY <1>2, <1>3, Zenon DEF AppendGet

(* urom_worker_rdmo_append_progress *)
LEMMA AppendQuiet ==
    ASSUME WorkerTypeOK, NEW r \in Ids, NEW q \in Shapes, q.op = "append", NEW done \in BOOLEAN,
           NEW p, AppendProgress(r, q, 0, done, p), r \notin rndv
    PROVE  QuietStep(r, q, done) /\ TypedStep(r)
  <1>1. /\ UNCHANGED acked /\ ctx1[r] \in Nat /\ 0 \in Nat /\ 0 <= 1
        /\ cache \in [Queues -> Nat \cup {NotCached}] /\ ptr \in [Queues -> Nat]
    BY DEF AppendProgress, WorkerTypeOK
  <1>2. ASSUME NEW a \in Nat, AppendCache(r, q, a, 0, done, p)
        PROVE  QuietStep(r, q, done) /\ TypedStep(r)
    BY <1>1, <1>2, CacheQuiet DEF TypedStep
  <1>3. CASE (Stage(r, 0, 0) \/ Stage(r, 3, 0)) /\ UNCHANGED <<ctx1, cache, rma, rndv, ptr, landed>>
    <2>1. comp' = [comp EXCEPT ![r] = 0] BY <1>3, Zenon DEF Stage
    <2>2. ctx1' = [ctx1 EXCEPT ![r] = ctx1[r]] BY <1>3, Zenon DEF WorkerTypeOK
    <2>3. QuietStep(r, q, done)
      BY <1>1, <1>3, <2>1, <2>2, UnchangedSilent, SilentStep, Zenon DEF Counts
    <2> QED BY <1>1, <1>3, <2>3, Zenon DEF TypedStep
  <1>4. CASE q.q \in Mkeys(q.client) /\ AppendPut(r, q, ptr[q.q], 0, done) /\ UNCHANGED cache
    <2>1. ptr[q.q] \in Nat BY <1>1, <1>4, Zenon DEF Mkeys
    <2> QED BY <1>1, <1>4, <2>1, PutQuiet DEF TypedStep
  <1>5. CASE q.q \in Cached(q.client) /\ AppendCache(r, q, cache[q.q], 0, done, p)
    <2>1. cache[q.q] \in Nat BY <1>1, <1>5, Zenon DEF Cached, Mkeys
    <2> QED BY <1>2, <1>5, <2>1, Zenon
  <1>6. CASE /\ q.q \in Mkeys(q.client) /\ ~ done /\ AppendGet(r, q, 0, p)
             /\ UNCHANGED <<ctx1, cache, rndv, ptr, landed>>
    <2>1. QuietStep(r, q, done) BY <1>6, GetQuiet, Zenon
    <2> QED BY <1>1, <1>6, <2>1, Zenon DEF TypedStep
  <1> QED BY <1>1, <1>2, <1>3, <1>4, <1>5, <1>6, ZenonT(20) DEF AppendProgress, AppendPointer

LEMMA ScatterPutsQuiet ==
    ASSUME WorkerTypeOK, NEW r \in Ids, NEW q \in Shapes, q.op = "scatter", NEW n \in Nat,
           NEW done \in BOOLEAN, NEW last \in 0 .. Len(q.iovs),
           \A i \in 1 .. last : q.iovs[i] \in Mkeys(q.client),
           NEW waiting \in SUBSET (1 .. last), ScatterPuts(r, q, last, waiting, n, n),
           done => n + Cardinality(waiting) = 0 \/ Cut(q),
           UNCHANGED rndv, r \notin rndv, ~ q.rndv
    PROVE  QuietStep(r, q, done) /\ landed' \subseteq landed \cup ({r} \X Nat)
  <1> DEFINE local == {i \in 1 .. last : q.iovs[i] \in SmQueues}
             w == Cardinality(waiting)
             k == n + w
  <1>1. Len(q.iovs) \in Nat /\ last \in Nat BY RequestsAssumption
  <1>2. IsFiniteSet(1 .. last)
    <2>1. 1 \in Int /\ last \in Int BY <1>1
    <2> QED BY ONLY <2>1, FS_Interval, Zenon
  <1>3. w \in Nat BY <1>2, FS_Subset, FS_CardinalityType, Zenon
  <1>4. k \in Nat BY <1>3
  <1>5. /\ landed' = landed \cup {<<r, i>> : i \in local}
        /\ ctx1' = [ctx1 EXCEPT ![r] = k] /\ comp' = [comp EXCEPT ![r] = k]
    BY Zenon DEF ScatterPuts, Stage
  <1>6. landed' \subseteq landed \cup ({r} \X Nat)
    BY <1>1, <1>5
  <1>7. PICK s \in Orders((1 .. last) \ local) :
           Post(q.client, [j \in 1 .. Len(s) |-> Op("put", r, q.iovs[s[j]], s[j])])
    BY Zenon DEF ScatterPuts
  <1>8. s \in Seq((1 .. last) \ local) /\ Len(s) \in Nat
    <2>1. IsFiniteSet((1 .. last) \ local) BY <1>2, FS_Difference, Zenon
    <2>2. s \in Seq((1 .. last) \ local) BY <1>7, <2>1, OrdersFinite, Zenon
    <2> QED BY <2>2
  <1> HIDE DEF local, k
  <1> DEFINE u == [j \in 1 .. Len(s) |-> Op("put", r, q.iovs[s[j]], s[j])]
  <1>9. r \in 0 .. MaxReqs /\ q.client \in Clients /\ \A c \in Clients : rma[c] \in Seq(PostedOps)
    BY ShapesAssumption, MaxReqsAssumption DEF WorkerTypeOK, Ids
  <1>10. \A j \in 1 .. Len(s) : s[j] \in 1 .. last /\ s[j] \in Nat
    BY <1>1, <1>8
  <1>11. \A j \in 1 .. Len(s) : u[j] \in PostedOps /\ Silent(r, u[j])
    <2>1. \A j \in 1 .. Len(s) : q.iovs[s[j]] \in Queues BY <1>10, Zenon DEF Mkeys
    <2> QED BY <1>10, <2>1, PutTyped, Zenon
  <1>12. u \in Seq(PostedOps) /\ Len(u) = Len(s)
    <2>1. u \in [1 .. Len(s) -> PostedOps] BY ONLY <1>11, Zenon
    <2> QED BY ONLY <1>8, <2>1
  <1>13. \A j \in 1 .. Len(u) : Silent(r, u[j]) BY <1>11, <1>12, Zenon
  <1>14. rma' = [rma EXCEPT ![q.client] = @ \o u] BY <1>7, Zenon DEF Post
  <1> HIDE DEF u
  <1>15. \A c \in Clients : Silently(r, rma[c], rma[c]) BY <1>9 DEF Silently
  <1>16. Silently(r, rma[q.client], rma[q.client] \o u)
    BY <1>9, <1>12, <1>13, <1>15, SilentConcat, Zenon
  <1>17. \A c \in Clients : Silently(r, rma[c], rma'[c])
    BY <1>9, <1>14, <1>15, <1>16, Zenon DEF WorkerTypeOK
  <1>18. rma' \in [Clients -> Seq(PostedOps)]
    BY <1>14, <1>17, Zenon DEF WorkerTypeOK, Silently
  <1>19. done => k = 0 \/ Cut(q) BY Zenon DEF k
  <1>20. QuietStep(r, q, done)
    BY <1>4, <1>5, <1>17, <1>18, <1>19, SilentStep, Zenon DEF AllSilent, Counts
  <1> QED BY <1>6, <1>20, Zenon

(* urom_worker_rdmo_scatter_progress *)
LEMMA ScatterQuiet ==
    ASSUME WorkerTypeOK, NEW r \in Ids, NEW q \in Shapes, q.op = "scatter", NEW n \in Nat,
           NEW done \in BOOLEAN, NEW p, ScatterProgress(r, q, n, n, done, p), r \notin rndv,
           q.rndv => n = 0 /\ ctx1[r] = 0
    PROVE  QuietStep(r, q, done) /\ TypedStep(r)
  <1>1. UNCHANGED <<cache, rndv, ptr, acked>> BY Zenon DEF ScatterProgress
  <1>2. CASE ctx0[r] = 0 /\ q.rndv /\ ~ done /\ Stage(r, 0, n) /\ UNCHANGED <<ctx1, rma, landed>>
    <2>1. comp' = [comp EXCEPT ![r] = n] /\ ctx1[r] = n BY <1>2, Zenon DEF Stage
    <2>2. ctx1' = [ctx1 EXCEPT ![r] = n] BY <1>2, <2>1, Zenon DEF WorkerTypeOK
    <2>3. QuietStep(r, q, done) BY <1>1, <1>2, <2>1, <2>2, UnchangedSilent, SilentStep, Zenon DEF Counts
    <2> QED BY <1>1, <1>2, <2>3, Zenon DEF TypedStep, WorkerTypeOK
  <1>3. CASE ~ q.rndv /\ ScatterLoop(r, q, n, n, done)
    <2>1. PICK last \in 0 .. Len(q.iovs) :
             /\ \A i \in 1 .. last : q.iovs[i] \in Mkeys(q.client)
             /\ \E waiting \in SUBSET {i \in 1 .. last : q.iovs[i] \notin SmQueues} :
                  /\ ScatterPuts(r, q, last, waiting, n, n)
                  /\ \/ last = Len(q.iovs) /\ (done <=> ScatterDone(n + Cardinality(waiting)))
                     \/ last < Len(q.iovs) /\ q.iovs[last + 1] = Unknown
                     \/ ~ done
      BY <1>3, Zenon DEF ScatterLoop
    <2>2. PICK waiting \in SUBSET (1 .. last) :
                  /\ ScatterPuts(r, q, last, waiting, n, n)
                  /\ \/ done => n + Cardinality(waiting) = 0
                     \/ last < Len(q.iovs) /\ q.iovs[last + 1] = Unknown
      BY <2>1, Zenon DEF ScatterDone
    <2>3. Len(q.iovs) \in Nat BY RequestsAssumption
    <2>4. last < Len(q.iovs) /\ q.iovs[last + 1] = Unknown => Cut(q)
      BY <2>3 DEF Cut, Members
    <2>5. QuietStep(r, q, done) /\ landed' \subseteq landed \cup ({r} \X Nat)
      BY <1>1, <1>3, <2>1, <2>2, <2>4, ScatterPutsQuiet, Zenon
    <2> QED BY <1>1, <2>5, Zenon DEF TypedStep, WorkerTypeOK
  <1>4. CASE /\ done <=> ScatterDone(n)
             /\ ctx1' = [ctx1 EXCEPT ![r] = n] /\ Stage(r, 1, n) /\ UNCHANGED <<rma, landed>>
    <2>1. comp' = [comp EXCEPT ![r] = n] /\ (done => n = 0) BY <1>4, Zenon DEF Stage, ScatterDone
    <2>2. QuietStep(r, q, done) BY <1>1, <1>4, <2>1, UnchangedSilent, SilentStep, Zenon DEF Counts
    <2> QED BY <1>1, <1>4, <2>2, Zenon DEF TypedStep, WorkerTypeOK
  <1> QED BY <1>2, <1>3, <1>4, Zenon DEF ScatterProgress

(* req->ops->progress of a request that is started. *)
LEMMA ProgressQuiet ==
    ASSUME WorkerTypeOK, NEW r \in Ids, NEW q \in Shapes, NEW done \in BOOLEAN, NEW p,
           Progress(r, q, 0, done, p), r \notin rndv, ctx1[r] = 0
    PROVE  QuietStep(r, q, done) /\ TypedStep(r)
  <1>1. CASE q.op = "flush" /\ FlushProgress(r, q, 0, done, p) BY <1>1, FlushQuiet, Zenon
  <1>2. CASE q.op = "append" /\ AppendProgress(r, q, 0, done, p) BY <1>2, AppendQuiet, Zenon
  <1>3. CASE q.op = "scatter" /\ ScatterProgress(r, q, 0, 0, done, p) BY <1>3, ScatterQuiet
  <1> QED BY <1>1, <1>2, <1>3, Zenon DEF Progress

(* The same from a completion callback. *)
LEMMA ProgressCbQuiet ==
    ASSUME WorkerTypeOK, NEW r \in Ids, NEW q \in Shapes, q = reqs[r],
           NEW done \in BOOLEAN, NEW p, ProgressCb(r, done, p), r \notin rndv,
           comp[r] > 0, Counts(q, ctx1[r], comp[r])
    PROVE  QuietStep(r, q, done) /\ TypedStep(r)
  <1>1. comp[r] \in Nat BY Zenon DEF WorkerTypeOK
  <1>2. CASE q.op = "scatter"
    <2>1. ~ q.rndv /\ ctx1[r] = comp[r] BY <1>1, <1>2 DEF Counts
    <2>2. PICK n \in Nat : n = comp[r] - 1 BY <1>1
    <2>3. ScatterProgress(r, q, n, n, done, p) BY <1>2, <2>1, <2>2, Zenon DEF ProgressCb
    <2> QED BY <1>2, <2>1, <2>3, ScatterQuiet, Zenon
  <1>3. CASE q.op # "scatter"
    <2>1. comp[r] - 1 = 0 BY <1>1, <1>3 DEF Counts
    <2>2. Progress(r, q, 0, done, p) BY <1>3, <2>1, Zenon DEF ProgressCb
    <2>3. CASE q.op = "flush" /\ FlushProgress(r, q, 0, done, p) BY <2>3, FlushQuiet, Zenon
    <2>4. CASE q.op = "append" /\ AppendProgress(r, q, 0, done, p) BY <2>4, AppendQuiet, Zenon
    <2> QED BY <1>3, <2>2, <2>3, <2>4, Zenon DEF Progress
  <1> QED BY <1>2, <1>3, Zenon

(* No completion is on its way to r. *)
Unawaited(r) ==
    /\ r \notin rndv
    /\ \A c \in Clients : \A i \in DOMAIN rma[c] : Awaited(rma[c][i]) => rma[c][i].req # r

(* The frame of a step that runs the handler of r. *)
RanFrom(r, q, done) ==
    /\ r \in Arrived' /\ Arrived \subseteq Arrived' /\ Arrived' \subseteq Arrived \cup {r}
    /\ reqs'[r] = q
    /\ \A x \in Arrived : reqs'[x] = reqs[x] /\ x \in Ids
    /\ where'[r] = IF done THEN "freed" ELSE "active"
    /\ \A x \in Ids : x # r => where'[x] = where[x]
    /\ \A x \in Ids : x \notin Arrived => where[x] = "none"

LEMMA RanAwaited ==
    ASSUME QuietInv, NEW r \in Ids, NEW q \in Shapes, NEW done \in BOOLEAN,
           QuietStep(r, q, done), RanFrom(r, q, done), Unawaited(r)
    PROVE  OneAwaited'
  <1> SUFFICES ASSUME NEW c \in Clients, NEW i \in DOMAIN rma'[c], Awaited(rma'[c][i]),
                      NEW x, x = rma'[c][i].req
               PROVE  /\ x \in Arrived' /\ where'[x] = "active" /\ reqs'[x].client = c
                      /\ reqs'[x].op # "scatter" /\ comp'[x] = 0 /\ x \notin rndv'
                      /\ OnlyAwaited(rma'[c], x, i)
    BY Zenon DEF OneAwaited, AwaitedBy
  <1>1. rma[c] \in Seq(PostedOps) /\ rma'[c] \in Seq(PostedOps)
    BY Zenon DEF QuietInv, WorkerTypeOK, QuietStep
  <1>2. /\ DOMAIN rma[c] = 1 .. Len(rma[c]) /\ DOMAIN rma'[c] = 1 .. Len(rma'[c])
        /\ Len(rma[c]) \in Nat /\ Len(rma'[c]) \in Nat
    BY <1>1
  <1>3. \A j \in DOMAIN rma'[c] :
           \/ j \in DOMAIN rma[c] /\ rma'[c][j] = rma[c][j]
           \/ /\ Awaited(rma'[c][j]) => j = Len(rma'[c]) /\ rma'[c][j].req = r /\ c = q.client
              /\ Awaited(rma'[c][j]) => ~ done /\ q.op # "scatter" /\ comp'[r] = 0 /\ r \notin rndv'
    <2> SUFFICES ASSUME NEW j \in 1 .. Len(rma'[c])
                 PROVE  \/ j \in 1 .. Len(rma[c]) /\ rma'[c][j] = rma[c][j]
                        \/ /\ Awaited(rma'[c][j]) => j = Len(rma'[c]) /\ rma'[c][j].req = r /\ c = q.client
                           /\ Awaited(rma'[c][j]) => ~ done /\ q.op # "scatter" /\ comp'[r] = 0 /\ r \notin rndv'
      BY <1>2, Zenon
    <2>1. j \in 1 .. Len(rma[c]) \/ j \in Len(rma[c]) + 1 .. Len(rma'[c]) BY <1>2
    <2> QED BY <2>1, Zenon DEF QuietStep
  <1>4. CASE i \in DOMAIN rma[c] /\ rma'[c][i] = rma[c][i]
    <2>1. /\ x \in Arrived /\ where[x] = "active" /\ reqs[x].client = c
          /\ reqs[x].op # "scatter" /\ comp[x] = 0 /\ x \notin rndv
          /\ OnlyAwaited(rma[c], x, i)
      <3>1. Awaited(rma[c][i]) /\ x = rma[c][i].req BY <1>4, Zenon
      <3>2. AwaitedBy(rma[c][i].req, c, i) BY <1>4, <3>1, Zenon DEF QuietInv, OneAwaited
      <3>3. AwaitedBy(x, c, i) BY <3>1, <3>2, Zenon
      <3> QED BY <3>3, Zenon DEF AwaitedBy
    <2>2. x # r BY <1>4, Zenon DEF Unawaited
    <2>3. x \in Ids /\ x \in Arrived' /\ reqs'[x] = reqs[x] /\ where'[x] = where[x]
      BY <2>1, <2>2, Zenon DEF RanFrom
    <2>4. comp'[x] = comp[x] /\ x \notin rndv' BY <2>1, <2>2, <2>3, Zenon DEF QuietStep
    <2>5. ASSUME NEW j \in DOMAIN rma'[c], Awaited(rma'[c][j]), rma'[c][j].req = x PROVE j = i
      BY <1>3, <2>1, <2>2, <2>5, Zenon DEF OnlyAwaited
    <2>6. OnlyAwaited(rma'[c], x, i) BY <2>5, Zenon DEF OnlyAwaited
    <2> QED BY <2>1, <2>3, <2>4, <2>6, Zenon
  <1>5. CASE /\ i = Len(rma'[c]) /\ x = r /\ c = q.client
             /\ ~ done /\ q.op # "scatter" /\ comp'[r] = 0 /\ r \notin rndv'
    <2>1. r \in Arrived' /\ reqs'[r] = q /\ where'[r] = "active" BY <1>5, Zenon DEF RanFrom
    <2>2. ASSUME NEW j \in DOMAIN rma'[c], Awaited(rma'[c][j]), rma'[c][j].req = r PROVE j = i
      BY <1>3, <1>5, <2>2, Zenon DEF Unawaited
    <2>3. OnlyAwaited(rma'[c], r, i) BY <2>2, Zenon DEF OnlyAwaited
    <2> QED BY <1>5, <2>1, <2>3, Zenon
  <1> QED BY <1>3, <1>4, <1>5, Zenon

LEMMA RanQuiet ==
    ASSUME QuietInv, NEW r \in Ids, NEW q \in Shapes, NEW done \in BOOLEAN,
           QuietStep(r, q, done), TypedStep(r), RanFrom(r, q, done), Unawaited(r),
           SchedTypeOK', ctx0' \in [Ids -> 0 .. 3]
    PROVE  QuietInv'
  <1>1. WorkerTypeOK'
    <2>1. rndv' \subseteq Arrived' BY Zenon DEF QuietInv, WorkerTypeOK, QuietStep, RanFrom
    <2>2. landed' \subseteq Arrived' \X Nat BY DEF QuietInv, WorkerTypeOK, TypedStep, RanFrom
    <2>3. acked' \subseteq Arrived' BY Zenon DEF QuietInv, WorkerTypeOK, TypedStep, RanFrom
    <2>4. Ids' = Ids BY Zenon DEF Ids
    <2>5. /\ rma' \in [Clients -> Seq(PostedOps)]
          /\ comp' \in [Ids -> Nat] /\ ctx1' \in [Ids -> Nat]
      BY Zenon DEF QuietStep
    <2>6. cache' \in [Queues -> Nat \cup {NotCached}] /\ ptr' \in [Queues -> Nat]
      BY Zenon DEF TypedStep
    <2> QED BY <2>1, <2>2, <2>3, <2>4, <2>5, <2>6, Zenon DEF WorkerTypeOK
  <1>2. OneAwaited' BY RanAwaited, Zenon
  <1>3. OneFetch'
    <2> SUFFICES ASSUME NEW x \in rndv'
                 PROVE  /\ x \in Arrived' /\ where'[x] = "active"
                        /\ reqs'[x].op # "scatter" /\ comp'[x] = 0
      BY Zenon DEF OneFetch
    <2>1. CASE x = r BY <2>1, Zenon DEF QuietStep, RanFrom
    <2>2. CASE x # r
      <3>1. x \in rndv BY <2>2, Zenon DEF QuietStep
      <3>2. x \in Arrived /\ where[x] = "active" /\ reqs[x].op # "scatter" /\ comp[x] = 0
        BY <3>1, Zenon DEF QuietInv, OneFetch
      <3>3. x \in Ids /\ x \in Arrived' /\ reqs'[x] = reqs[x] /\ where'[x] = where[x]
        BY <2>2, <3>2, Zenon DEF RanFrom
      <3>4. comp'[x] = comp[x] BY <2>2, <3>3, Zenon DEF QuietStep
      <3> QED BY <3>2, <3>3, <3>4, Zenon
    <2> QED BY <2>1, <2>2, Zenon
  <1>4. Completions'
    <2> SUFFICES ASSUME NEW x \in Ids
                 PROVE  /\ where'[x] \notin {"active", "freed"} => comp'[x] = 0 /\ ctx1'[x] = 0
                        /\ where'[x] = "freed" => comp'[x] = 0 \/ Cut(reqs'[x])
                        /\ x \in Arrived' => Counts(reqs'[x], ctx1'[x], comp'[x])
      BY Zenon DEF Completions, Started, Ids, Cut, Counts
    <2>1. CASE x = r BY <2>1, Zenon DEF QuietStep, RanFrom
    <2>2. CASE x # r
      <3>1. /\ where[x] \notin {"active", "freed"} => comp[x] = 0 /\ ctx1[x] = 0
            /\ where[x] = "freed" => comp[x] = 0 \/ Cut(reqs[x])
            /\ x \in Arrived => Counts(reqs[x], ctx1[x], comp[x])
        BY Zenon DEF QuietInv, Completions, Started
      <3>2. where'[x] = where[x] /\ comp'[x] = comp[x] /\ ctx1'[x] = ctx1[x]
        BY <2>2, Zenon DEF RanFrom, QuietStep
      <3>3. x \in Arrived' => x \in Arrived BY <2>2, Zenon DEF RanFrom
      <3>4. x \in Arrived => reqs'[x] = reqs[x] BY Zenon DEF RanFrom
      <3>5. where[x] = "freed" => x \in Arrived BY Zenon DEF RanFrom
      <3> QED BY <3>1, <3>2, <3>3, <3>4, <3>5, Zenon
    <2> QED BY <2>1, <2>2, Zenon
  <1>5. PostedArrived'
    <2> SUFFICES ASSUME NEW c \in Clients, NEW i \in DOMAIN rma'[c]
                 PROVE  rma'[c][i].req \in Arrived' \cup {0}
      BY Zenon DEF PostedArrived
    <2>1. rma[c] \in Seq(PostedOps) /\ rma'[c] \in Seq(PostedOps)
      BY Zenon DEF QuietInv, WorkerTypeOK, QuietStep
    <2>2. i \in 1 .. Len(rma[c]) \/ i \in Len(rma[c]) + 1 .. Len(rma'[c]) BY <2>1
    <2>3. i \in 1 .. Len(rma[c]) => rma'[c][i] = rma[c][i] /\ i \in DOMAIN rma[c]
      BY <2>1 DEF QuietStep
    <2>4. i \in Len(rma[c]) + 1 .. Len(rma'[c]) => rma'[c][i].req \in {0, r}
      BY Zenon DEF QuietStep
    <2> QED BY <2>2, <2>3, <2>4, Zenon DEF QuietInv, PostedArrived, RanFrom
  <1> QED BY <1>1, <1>2, <1>3, <1>4, <1>5, Zenon DEF QuietInv

(* A step of the scheduler alone, which starts and completes nothing. *)
LEMMA ParkQuiet ==
    ASSUME QuietInv, Parked, SchedTypeOK', UNCHANGED dataVars,
           Arrived \subseteq Arrived', \A x \in Arrived : reqs'[x] = reqs[x],
           \A x \in Ids : \/ where'[x] = where[x]
                          \/ ~ Started(x) /\ where'[x] \notin {"active", "freed"}
    PROVE  QuietInv'
  <1>1. UNCHANGED <<ctx0, ctx1, cache, comp, rma, rndv, ptr, landed, acked>> BY Zenon DEF dataVars
  <1>2. \A x \in Arrived : x \in Ids BY ReqAttributes, Zenon DEF QuietInv, WorkerTypeOK
  <1>3. WorkerTypeOK' BY <1>1, Zenon DEF QuietInv, WorkerTypeOK, Ids
  <1>4. \A x \in Arrived : where[x] = "active" => where'[x] = "active"
    BY <1>2, Zenon DEF Started
  <1>5. OneAwaited'
    <2> SUFFICES ASSUME NEW c \in Clients, NEW i \in DOMAIN rma'[c], Awaited(rma'[c][i]),
                        NEW x, x = rma'[c][i].req
                 PROVE  /\ x \in Arrived' /\ where'[x] = "active" /\ reqs'[x].client = c
                        /\ reqs'[x].op # "scatter" /\ comp'[x] = 0 /\ x \notin rndv'
                        /\ OnlyAwaited(rma'[c], x, i)
      BY Zenon DEF OneAwaited, AwaitedBy
    <2>1. i \in DOMAIN rma[c] /\ Awaited(rma[c][i]) /\ x = rma[c][i].req BY <1>1, Zenon
    <2>2. AwaitedBy(rma[c][i].req, c, i) BY <2>1, Zenon DEF QuietInv, OneAwaited
    <2>3. AwaitedBy(x, c, i) BY <2>1, <2>2, Zenon
    <2> QED BY <1>1, <1>4, <2>3, Zenon DEF AwaitedBy
  <1>6. OneFetch' BY <1>1, <1>4, Zenon DEF QuietInv, OneFetch
  <1>7. Completions'
    <2> SUFFICES ASSUME NEW x \in Ids
                 PROVE  /\ where'[x] \notin {"active", "freed"} => comp[x] = 0 /\ ctx1[x] = 0
                        /\ where'[x] = "freed" => comp[x] = 0 \/ Cut(reqs'[x])
                        /\ x \in Arrived' => Counts(reqs'[x], ctx1[x], comp[x])
      BY <1>1, Zenon DEF Completions, Started, Ids, Cut, Counts
    <2>1. /\ where[x] \notin {"active", "freed"} => comp[x] = 0 /\ ctx1[x] = 0
          /\ where[x] = "freed" => comp[x] = 0 \/ Cut(reqs[x])
          /\ x \in Arrived => Counts(reqs[x], ctx1[x], comp[x])
      BY Zenon DEF QuietInv, Completions, Started
    <2>2. x \notin Arrived => where[x] = "none"
      BY NotArrived, Zenon DEF QuietInv, WorkerTypeOK
    <2>3. x \notin Arrived => Counts(reqs'[x], ctx1[x], comp[x])
      BY <2>1, <2>2 DEF Counts
    <2>4. CASE where'[x] = where[x] BY <2>1, <2>2, <2>3, <2>4, Zenon
    <2>5. CASE where[x] \notin {"active", "freed"} /\ where'[x] \notin {"active", "freed"}
      BY <2>1, <2>2, <2>3, <2>5, Zenon
    <2> QED BY <2>4, <2>5, Zenon DEF Started
  <1>8. PostedArrived' BY <1>1, Zenon DEF QuietInv, PostedArrived
  <1> QED BY <1>3, <1>5, <1>6, <1>7, <1>8, Zenon DEF QuietInv

(* The operations left when operation i has taken effect are the others, in *)
(* their order, but for a fence at the head.                                *)
LEMMA WithoutFacts ==
    ASSUME NEW s \in Seq(PostedOps), NEW i \in 1 .. Len(s)
    PROVE  /\ Without(s, i) \in Seq(PostedOps)
           /\ \E d \in {0, 1} :
                /\ Len(Without(s, i)) + d = Len(s) - 1
                /\ \A j \in 1 .. Len(Without(s, i)) :
                      Without(s, i)[j] = s[IF j + d < i THEN j + d ELSE j + d + 1]
  <1> DEFINE t == [j \in 1 .. Len(s) - 1 |-> IF j < i THEN s[j] ELSE s[j + 1]]
  <1>1. Len(s) \in Nat /\ Len(s) - 1 \in Nat OBVIOUS
  <1>2. \A j \in 1 .. Len(s) - 1 : t[j] \in PostedOps
    BY <1>1
  <1>3. t \in Seq(PostedOps) /\ Len(t) = Len(s) - 1 BY <1>1, <1>2
  <1>4. \A j \in 1 .. Len(t) : t[j] = s[IF j < i THEN j ELSE j + 1] BY <1>1, <1>3, Zenon
  <1>5. Without(s, i) = IF t # <<>> /\ Head(t).kind = "fence" THEN Tail(t) ELSE t
    BY Zenon DEF Without
  <1> HIDE DEF t
  <1>6. CASE Without(s, i) = t
    <2>1. \A j \in 1 .. Len(t) : t[j] = s[IF j + 0 < i THEN j + 0 ELSE j + 0 + 1] BY <1>1, <1>3, <1>4
    <2> QED BY <1>3, <1>6, <2>1
  <1>7. CASE t # <<>> /\ Without(s, i) = Tail(t)
    <2>1. /\ Tail(t) \in Seq(PostedOps) /\ Len(Tail(t)) = Len(t) - 1 /\ Len(t) \in Nat
          /\ \A j \in 1 .. Len(Tail(t)) : Tail(t)[j] = t[j + 1] /\ j + 1 \in 1 .. Len(t)
      BY <1>3, <1>7
    <2>2. \A j \in 1 .. Len(Tail(t)) : Tail(t)[j] = s[IF j + 1 < i THEN j + 1 ELSE j + 1 + 1]
      BY <1>4, <2>1, Zenon
    <2>3. Len(Tail(t)) + 1 = Len(s) - 1 BY <1>3, <2>1
    <2> QED BY <1>7, <2>1, <2>2, <2>3, Zenon
  <1> QED BY <1>5, <1>6, <1>7, Zenon

(* t[j] is s[f[j]], and never s[i]. *)
Others(f, s, i, t) ==
    /\ \A j \in DOMAIN t : f[j] \in DOMAIN s /\ f[j] # i /\ t[j] = s[f[j]]
    /\ \A j, m \in DOMAIN t : f[j] = f[m] => j = m

LEMMA WithoutOthers ==
    ASSUME NEW s \in Seq(PostedOps), NEW i \in 1 .. Len(s), NEW t, t = Without(s, i)
    PROVE  t \in Seq(PostedOps) /\ \E f : Others(f, s, i, t)
  <1>1. t \in Seq(PostedOps) BY WithoutFacts, Zenon
  <1>2. PICK d \in {0, 1} :
           /\ Len(t) + d = Len(s) - 1
           /\ \A j \in 1 .. Len(t) : t[j] = s[IF j + d < i THEN j + d ELSE j + d + 1]
    BY WithoutFacts, Zenon
  <1> DEFINE f == [j \in 1 .. Len(t) |-> IF j + d < i THEN j + d ELSE j + d + 1]
  <1>3. DOMAIN t = 1 .. Len(t) /\ DOMAIN s = 1 .. Len(s) /\ Len(t) \in Nat /\ Len(s) \in Nat
    BY <1>1
  <1>4. \A j \in 1 .. Len(t) : f[j] \in 1 .. Len(s) /\ f[j] # i /\ t[j] = s[f[j]]
    BY <1>2, <1>3
  <1>5. \A j, m \in 1 .. Len(t) : f[j] = f[m] => j = m BY <1>3
  <1> HIDE DEF f
  <1>6. Others(f, s, i, t) BY <1>3, <1>4, <1>5, Zenon DEF Others
  <1> QED BY <1>1, <1>6, Zenon

(* What a request waits for, it waits for after that too. *)
LEMMA OthersOnly ==
    ASSUME NEW f, NEW s, NEW i, NEW t, Others(f, s, i, t), NEW j \in DOMAIN t,
           NEW x, OnlyAwaited(s, x, f[j])
    PROVE  OnlyAwaited(t, x, j)
  BY DEF Others, OnlyAwaited

(* An operation on an endpoint takes effect. *)
LEMMA RmaQuiet ==
    ASSUME QuietInv, NEW c \in Clients, NEW i \in DOMAIN rma[c], NEW ok \in BOOLEAN,
           RmaEffect(c, i, ok)
    PROVE  QuietInv'
  <1> DEFINE o == rma[c][i]
             r == o.req
             t == rma'[c]
  <1>1. /\ rma[c] \in Seq(PostedOps) /\ DOMAIN rma[c] = 1 .. Len(rma[c]) /\ o \in PostedOps
        /\ rma \in [Clients -> Seq(PostedOps)]
    BY DEF QuietInv, WorkerTypeOK
  <1>2. /\ UNCHANGED <<schedVars, ctx0, cache, rndv, acked>>
        /\ rma' = [rma EXCEPT ![c] = Without(@, i)]
        /\ landed' = IF ok /\ o.kind = "put" THEN landed \cup {<<r, o.n>>} ELSE landed
        /\ ptr' = IF ok /\ o.kind = "ptr" THEN [ptr EXCEPT ![o.q] = o.n] ELSE ptr
        /\ ctx1' = IF ok /\ o.kind = "get" THEN [ctx1 EXCEPT ![r] = ptr[o.q]] ELSE ctx1
        /\ comp' = IF o.kind \in {"get", "flush"} THEN [comp EXCEPT ![r] = @ + 1] ELSE comp
    BY Zenon DEF RmaEffect
  <1>3. UNCHANGED <<reqs, where>> /\ Arrived' = Arrived BY <1>2, Zenon DEF schedVars, Arrived
  <1>4. t = Without(rma[c], i) /\ \A d \in Clients : d # c => rma'[d] = rma[d]
    BY <1>1, <1>2, Zenon
  <1>5. PICK f : Others(f, rma[c], i, t) BY <1>1, <1>4, WithoutOthers, Zenon
  <1>6. /\ o.kind \in Kinds /\ o.n \in Nat /\ r \in 0 .. MaxReqs
        /\ o.kind \in {"put", "get", "flush"} => r # 0
        /\ o.kind = "get" => o.q \in Queues
    BY <1>1, WorkerAssumption, Zenon DEF PostedOps
  <1>7. o.kind \in {"put", "get", "flush"} => r \in Arrived /\ r \in Ids
    <2>1. r \in Arrived \cup {0} BY Zenon DEF QuietInv, PostedArrived
    <2> QED BY <1>6, <2>1, ReqAttributes, Zenon DEF QuietInv, WorkerTypeOK
  <1>8. Awaited(o) => /\ where[r] = "active" /\ reqs[r].client = c /\ reqs[r].op # "scatter"
                      /\ comp[r] = 0 /\ r \notin rndv
                      /\ OnlyAwaited(rma[c], r, i)
    <2>1. Awaited(o) => AwaitedBy(r, c, i) BY Zenon DEF QuietInv, OneAwaited
    <2> HIDE DEF o, r
    <2> QED BY <2>1, Zenon DEF AwaitedBy
  <1>9. /\ comp \in [Ids -> Nat] /\ ctx1 \in [Ids -> Nat] /\ ptr \in [Queues -> Nat]
    BY Zenon DEF QuietInv, WorkerTypeOK
  <1> HIDE DEF o, r, t
  <1>10. /\ comp' \in [Ids -> Nat] /\ ctx1' \in [Ids -> Nat]
         /\ Awaited(o) => comp'[r] = comp[r] + 1
         /\ \A x \in Ids : ~ Awaited(o) \/ x # r => comp'[x] = comp[x] /\ ctx1'[x] = ctx1[x]
    <2>1. CASE Awaited(o)
      <3>1. r \in Ids /\ (o.kind = "get" => ptr[o.q] \in Nat) BY <1>6, <1>7, <1>9, <2>1, Zenon DEF Awaited
      <3>2. comp' = [comp EXCEPT ![r] = @ + 1] BY <1>2, <2>1, Zenon DEF Awaited
      <3>3. CASE ctx1' = ctx1 BY <1>9, <2>1, <3>1, <3>2, <3>3
      <3>4. CASE o.kind = "get" /\ ctx1' = [ctx1 EXCEPT ![r] = ptr[o.q]]
        <4>1. ctx1' \in [Ids -> Nat] BY <1>9, <3>1, <3>4, Zenon
        <4>2. comp' \in [Ids -> Nat] BY <1>9, <3>1, <3>2
        <4> QED BY <1>9, <2>1, <3>1, <3>2, <3>4, <4>1, <4>2, Zenon
      <3> QED BY <1>2, <3>3, <3>4, Zenon
    <2>2. CASE ~ Awaited(o) BY <1>2, <1>9, <2>2, Zenon DEF Awaited
    <2> QED BY <2>1, <2>2, Zenon
  <1>11. WorkerTypeOK'
    <2>1. SchedTypeOK' BY <1>2, Zenon DEF QuietInv, WorkerTypeOK, SchedTypeOK, schedVars, Ids, Arrived
    <2>2. ptr' \in [Queues -> Nat]
      BY <1>2, <1>6, <1>9, ExceptTyped, Zenon
    <2>3. landed' \subseteq Arrived' \X Nat
      BY <1>2, <1>3, <1>6, <1>7 DEF QuietInv, WorkerTypeOK
    <2>4. rma' \in [Clients -> Seq(PostedOps)]
      BY <1>1, <1>2, WithoutOthers, Zenon
    <2>5. /\ ctx0' \in [Ids -> 0 .. 3] /\ cache' \in [Queues -> Nat \cup {NotCached}]
          /\ rndv' \subseteq Arrived' /\ acked' \subseteq Arrived'
      BY <1>2, <1>3, Zenon DEF QuietInv, WorkerTypeOK
    <2>6. Ids' = Ids BY Zenon DEF Ids
    <2> QED BY <1>10, <2>1, <2>2, <2>3, <2>4, <2>5, <2>6, Zenon DEF WorkerTypeOK
  <1>12. PostedArrived'
    <2> SUFFICES ASSUME NEW e \in Clients, NEW j \in DOMAIN rma'[e]
                 PROVE  rma'[e][j].req \in Arrived \cup {0}
      BY <1>3, Zenon DEF PostedArrived
    <2>1. \E k \in DOMAIN rma[e] : rma'[e][j] = rma[e][k] BY <1>4, <1>5 DEF t, Others
    <2> QED BY <2>1, Zenon DEF QuietInv, PostedArrived
  <1>13. OneAwaited'
    <2> SUFFICES ASSUME NEW e \in Clients, NEW j \in DOMAIN rma'[e], Awaited(rma'[e][j]),
                        NEW x, x = rma'[e][j].req
                 PROVE  /\ x \in Arrived' /\ where'[x] = "active" /\ reqs'[x].client = e
                        /\ reqs'[x].op # "scatter" /\ comp'[x] = 0 /\ x \notin rndv'
                        /\ OnlyAwaited(rma'[e], x, j)
      BY Zenon DEF OneAwaited, AwaitedBy
    <2> SUFFICES /\ x \in Arrived /\ where[x] = "active" /\ reqs[x].client = e
                 /\ reqs[x].op # "scatter" /\ comp'[x] = 0 /\ x \notin rndv
                 /\ OnlyAwaited(rma'[e], x, j)
      BY <1>2, <1>3, Zenon
    <2>1. ASSUME NEW k \in DOMAIN rma[e], rma[e][k] = rma'[e][j]
          PROVE  /\ x \in Arrived /\ where[x] = "active" /\ reqs[x].client = e
                 /\ reqs[x].op # "scatter" /\ comp[x] = 0 /\ x \notin rndv
                 /\ OnlyAwaited(rma[e], x, k)
      <3>1. Awaited(rma[e][k]) /\ x = rma[e][k].req BY <2>1, Zenon
      <3>2. AwaitedBy(rma[e][k].req, e, k) BY <3>1, Zenon DEF QuietInv, OneAwaited
      <3>3. AwaitedBy(x, e, k) BY <3>1, <3>2, Zenon
      <3> QED BY <3>3, Zenon DEF AwaitedBy
    <2>2. x \in Arrived => x \in Ids BY ReqAttributes, Zenon DEF QuietInv, WorkerTypeOK
    <2>3. CASE e # c
      <3>1. rma'[e] = rma[e] BY <1>4, <2>3, Zenon
      <3>2. x \in Arrived /\ reqs[x].client = e /\ comp[x] = 0 BY <2>1, <3>1, Zenon
      <3>3. ~ Awaited(o) \/ x # r BY <1>8, <2>3, <3>2, Zenon
      <3>4. comp'[x] = 0 BY <1>10, <2>2, <3>2, <3>3, Zenon
      <3> QED BY <2>1, <3>1, <3>4, Zenon
    <2>4. CASE e = c
      <3>1. f[j] \in DOMAIN rma[c] /\ f[j] # i /\ rma'[c][j] = rma[c][f[j]]
        BY <1>5, <2>4, Zenon DEF t, Others
      <3>2. /\ x \in Arrived /\ where[x] = "active" /\ reqs[x].client = e
            /\ reqs[x].op # "scatter" /\ comp[x] = 0 /\ x \notin rndv
            /\ OnlyAwaited(rma[c], x, f[j])
        BY <2>1, <2>4, <3>1, Zenon
      <3>3. ~ Awaited(o) \/ x # r BY <2>4, <3>1, <3>2, Zenon DEF o, r, OnlyAwaited
      <3>4. comp'[x] = 0 BY <1>10, <2>2, <3>2, <3>3, Zenon
      <3>5. OnlyAwaited(t, x, j)
        <4>1. j \in DOMAIN t BY <2>4, Zenon DEF t
        <4>2. OnlyAwaited(rma[c], x, f[j]) BY <3>2, Zenon
        <4> QED BY <1>5, <4>1, <4>2, OthersOnly, Zenon
      <3> QED BY <2>4, <3>2, <3>4, <3>5, Zenon DEF t
    <2> QED BY <2>3, <2>4, Zenon
  <1>14. OneFetch'
    <2> SUFFICES ASSUME NEW x \in rndv
                 PROVE  /\ x \in Arrived /\ where[x] = "active"
                        /\ reqs[x].op # "scatter" /\ comp'[x] = 0
      BY <1>2, <1>3, Zenon DEF OneFetch
    <2>1. x \in Arrived /\ where[x] = "active" /\ reqs[x].op # "scatter" /\ comp[x] = 0
      BY Zenon DEF QuietInv, OneFetch
    <2>2. x \in Ids BY <2>1, ReqAttributes, Zenon DEF QuietInv, WorkerTypeOK
    <2> QED BY <1>8, <1>10, <2>1, <2>2, Zenon
  <1>15. Completions'
    <2> SUFFICES ASSUME NEW x \in Ids
                 PROVE  /\ where[x] \notin {"active", "freed"} => comp'[x] = 0 /\ ctx1'[x] = 0
                        /\ where[x] = "freed" => comp'[x] = 0 \/ Cut(reqs[x])
                        /\ x \in Arrived => Counts(reqs[x], ctx1'[x], comp'[x])
      BY <1>3, Zenon DEF Completions, Started, Ids, Cut, Counts
    <2>1. /\ where[x] \notin {"active", "freed"} => comp[x] = 0 /\ ctx1[x] = 0
          /\ where[x] = "freed" => comp[x] = 0 \/ Cut(reqs[x])
          /\ x \in Arrived => Counts(reqs[x], ctx1[x], comp[x])
      BY Zenon DEF QuietInv, Completions, Started
    <2>2. CASE ~ Awaited(o) \/ x # r
      <3>1. comp'[x] = comp[x] /\ ctx1'[x] = ctx1[x] BY <1>10, <2>2, Zenon
      <3> QED BY <2>1, <3>1, Zenon
    <2>3. CASE Awaited(o) /\ x = r
      <3>1. comp'[x] <= 1 /\ where[x] = "active" /\ reqs[x].op # "scatter" BY <1>8, <1>10, <2>3
      <3> QED BY <3>1, Zenon DEF Counts
    <2> QED BY <2>2, <2>3, Zenon
  <1> QED BY <1>11, <1>12, <1>13, <1>14, <1>15, Zenon DEF QuietInv

(* The payload of an append has been fetched. *)
LEMMA RndvQuiet ==
    ASSUME QuietInv, NEW r \in rndv, NEW ok \in BOOLEAN, RndvEffect(r, ok)
    PROVE  QuietInv'
  <1>1. /\ UNCHANGED <<schedVars, ctx0, ctx1, cache, rma, ptr, acked>>
        /\ rndv' = rndv \ {r} /\ comp' = [comp EXCEPT ![r] = @ + 1]
        /\ landed' = IF ok THEN landed \cup {<<r, 1>>} ELSE landed
    BY Zenon DEF RndvEffect
  <1>2. UNCHANGED <<reqs, where>> /\ Arrived' = Arrived BY <1>1, Zenon DEF schedVars, Arrived
  <1>3. r \in Arrived /\ where[r] = "active" /\ reqs[r].op # "scatter" /\ comp[r] = 0
    BY Zenon DEF QuietInv, OneFetch
  <1>4. \A x \in Arrived : x \in Ids BY ReqAttributes, Zenon DEF QuietInv, WorkerTypeOK
  <1>5. /\ comp' \in [Ids -> Nat] /\ comp'[r] = 1 /\ \A x \in Ids : x # r => comp'[x] = comp[x]
    BY <1>1, <1>3, <1>4 DEF QuietInv, WorkerTypeOK
  <1>6. WorkerTypeOK'
    <2>1. SchedTypeOK' BY <1>1, Zenon DEF QuietInv, WorkerTypeOK, SchedTypeOK, schedVars, Ids, Arrived
    <2>2. rndv' \subseteq Arrived' /\ landed' \subseteq Arrived' \X Nat
      BY <1>1, <1>2, <1>3 DEF QuietInv, WorkerTypeOK
    <2> QED BY <1>1, <1>2, <1>5, <2>1, <2>2, Zenon DEF QuietInv, WorkerTypeOK, Ids
  <1>7. PostedArrived' BY <1>1, <1>2, Zenon DEF QuietInv, PostedArrived
  <1>8. OneAwaited'
    <2> SUFFICES ASSUME NEW c \in Clients, NEW i \in DOMAIN rma'[c], Awaited(rma'[c][i]),
                        NEW x, x = rma'[c][i].req
                 PROVE  /\ x \in Arrived' /\ where'[x] = "active" /\ reqs'[x].client = c
                        /\ reqs'[x].op # "scatter" /\ comp'[x] = 0 /\ x \notin rndv'
                        /\ OnlyAwaited(rma'[c], x, i)
      BY Zenon DEF OneAwaited, AwaitedBy
    <2>1. i \in DOMAIN rma[c] /\ Awaited(rma[c][i]) /\ x = rma[c][i].req BY <1>1, Zenon
    <2>2. AwaitedBy(rma[c][i].req, c, i) BY <2>1, Zenon DEF QuietInv, OneAwaited
    <2>3. AwaitedBy(x, c, i) BY <2>1, <2>2, Zenon
    <2>4. /\ x \in Arrived /\ where[x] = "active" /\ reqs[x].client = c
          /\ reqs[x].op # "scatter" /\ comp[x] = 0 /\ x \notin rndv
          /\ OnlyAwaited(rma[c], x, i)
      BY <2>3, Zenon DEF AwaitedBy
    <2>5. x # r /\ x \in Ids BY <1>4, <2>4, Zenon
    <2>6. comp'[x] = 0 BY <1>5, <2>4, <2>5, Zenon
    <2> QED BY <1>1, <1>2, <2>4, <2>6, Zenon
  <1>9. OneFetch' BY <1>1, <1>2, <1>4, <1>5, Zenon DEF QuietInv, OneFetch
  <1>10. Completions'
    <2> SUFFICES ASSUME NEW x \in Ids
                 PROVE  /\ where[x] \notin {"active", "freed"} => comp'[x] = 0 /\ ctx1[x] = 0
                        /\ where[x] = "freed" => comp'[x] = 0 \/ Cut(reqs[x])
                        /\ x \in Arrived => Counts(reqs[x], ctx1[x], comp'[x])
      BY <1>1, <1>2, Zenon DEF Completions, Started, Ids, Cut, Counts
    <2>1. /\ where[x] \notin {"active", "freed"} => comp[x] = 0 /\ ctx1[x] = 0
          /\ where[x] = "freed" => comp[x] = 0 \/ Cut(reqs[x])
          /\ x \in Arrived => Counts(reqs[x], ctx1[x], comp[x])
      BY Zenon DEF QuietInv, Completions, Started
    <2>2. CASE x # r BY <1>5, <2>1, <2>2, Zenon
    <2>3. CASE x = r BY <1>3, <1>5, <2>3 DEF Counts
    <2> QED BY <2>2, <2>3, Zenon
  <1> QED BY <1>6, <1>7, <1>8, <1>9, <1>10, Zenon DEF QuietInv

(* Nothing is on its way to a request that is not started, or one whose      *)
(* completion is being reported.                                             *)
LEMMA NotAwaited ==
    ASSUME QuietInv, NEW r, where[r] # "active" \/ comp[r] > 0
    PROVE  Unawaited(r)
  BY DEF QuietInv, OneAwaited, AwaitedBy, OneFetch, Unawaited

=============================================================================
