-------------------------- MODULE RdmoWorkerProofs --------------------------
(* Proofs about the RDMO worker: first its scheduler, then that the worker *)
(* implements the scheduler, so that what is proved of the scheduler holds *)
(* whatever the handlers do to memory, then what the handlers add.         *)
EXTENDS RdmoHandlerProofs

(* What Head, Tail and Append do to a sequence, in the form the proofs use. *)
LEMMA TailFacts ==
    ASSUME NEW S, NEW s \in Seq(S), s # <<>>
    PROVE  /\ Len(s) \in Nat /\ Len(s) > 0
           /\ Head(s) = s[1] /\ Head(s) \in S
           /\ Tail(s) \in Seq(S)
           /\ Len(Tail(s)) = Len(s) - 1
           /\ \A i \in 1 .. Len(s) - 1 : Tail(s)[i] = s[i + 1]
  OBVIOUS

LEMMA AppendFacts ==
    ASSUME NEW S, NEW s \in Seq(S), NEW x \in S
    PROVE  /\ Len(s) \in Nat
           /\ Append(s, x) \in Seq(S)
           /\ Len(Append(s, x)) = Len(s) + 1
           /\ \A i \in 1 .. Len(s) : Append(s, x)[i] = s[i]
           /\ Append(s, x)[Len(s) + 1] = x
  OBVIOUS

LEMMA SeqMono ==
    ASSUME NEW S, NEW T, S \subseteq T, NEW s \in Seq(S)
    PROVE  s \in Seq(T)
  OBVIOUS
(* The same for the set of a list's members and for its order. *)
LEMMA EmptyMembers ==
    Members(<<>>) = {}
  BY DEF Members

LEMMA AppendMembers ==
    ASSUME NEW s \in Seq(Int), NEW x \in Int, Increasing(s), \A y \in Members(s) : y < x
    PROVE  Members(Append(s, x)) = Members(s) \cup {x} /\ Increasing(Append(s, x))
  <1>1. /\ Len(s) \in Nat /\ Len(Append(s, x)) = Len(s) + 1
        /\ \A i \in 1 .. Len(s) : Append(s, x)[i] = s[i]
        /\ Append(s, x)[Len(s) + 1] = x
    BY AppendFacts
  <1> QED BY <1>1 DEF Members, Increasing

LEMMA TailMembers ==
    ASSUME NEW S \in SUBSET Int, NEW s \in Seq(S), s # <<>>, Increasing(s)
    PROVE  /\ Head(s) \in Members(s)
           /\ \A y \in Members(s) : ~ (y < Head(s))
           /\ Members(Tail(s)) = Members(s) \ {Head(s)}
           /\ Increasing(Tail(s))
  <1>1. /\ Len(s) \in Nat /\ Len(s) > 0
        /\ Head(s) = s[1] /\ Len(Tail(s)) = Len(s) - 1
        /\ \A i \in 1 .. Len(s) - 1 : Tail(s)[i] = s[i + 1]
    BY TailFacts, Zenon
  <1>2. \A i \in 1 .. Len(s) : s[i] \in Int /\ (i # 1 => s[1] < s[i])
    <2>1. \A i \in 1 .. Len(s) : s[i] \in Int
      <3>1. \A i \in 1 .. Len(s) : s[i] \in S OBVIOUS
      <3> QED BY <3>1, Zenon
    <2>2. 1 \in 1 .. Len(s) /\ \A i \in 1 .. Len(s) : i # 1 => 1 < i BY <1>1
    <2> QED BY <2>1, <2>2, Zenon DEF Increasing
  <1>3. Members(Tail(s)) = Members(s) \ {Head(s)}
    <2>1. ASSUME NEW i \in 1 .. Len(s) - 1
          PROVE  Tail(s)[i] \in Members(s) /\ Tail(s)[i] # Head(s)
      BY <1>1, <1>2 DEF Members
    <2>2. ASSUME NEW i \in 1 .. Len(s), s[i] # Head(s)
          PROVE  \E j \in 1 .. Len(s) - 1 : Tail(s)[j] = s[i]
      <3>1. i - 1 \in 1 .. Len(s) - 1 /\ Tail(s)[i - 1] = s[i]
        BY <1>1, <2>2
      <3> QED BY <3>1, Zenon
    <2>3. Members(Tail(s)) \subseteq Members(s) \ {Head(s)}
      BY <1>1, <2>1, Zenon DEF Members
    <2>4. Members(s) \ {Head(s)} \subseteq Members(Tail(s))
      BY <1>1, <2>2 DEF Members
    <2> QED BY <2>3, <2>4, Zenon
  <1> QED BY <1>1, <1>2, <1>3 DEF Members, Increasing

-----------------------------------------------------------------------------
(* The lists, counters and flags of the scheduler keep their types. *)

LEMMA ArriveTypes ==
    ASSUME SchedTypeOK, NEW q \in Shapes, Arrive(q)
    PROVE  /\ reqs' \in Seq(Shapes) /\ Len(reqs') = Len(reqs) + 1
           /\ Len(reqs') <= MaxReqs
           /\ Len(reqs) \in Nat
           /\ Len(reqs) + 1 \in Arrived'
           /\ Arrived \subseteq Arrived'
           /\ Len(reqs) + 1 \in Ids
           /\ q.ep \in Eps /\ q.client \in Clients /\ q.fence \in BOOLEAN
           /\ \A r \in Arrived : reqs'[r] = reqs[r]
           /\ reqs'[Len(reqs) + 1] = q
           /\ \A e \in Eps : fenced[e] \in Seq(Arrived')
           /\ \A c \in Clients : paused[c] \in Seq(Arrived')
  <1>1. /\ reqs' \in Seq(Shapes) /\ Len(reqs') = Len(reqs) + 1
        /\ Len(reqs) \in Nat /\ Len(reqs') <= MaxReqs
        /\ \A r \in Arrived : reqs'[r] = reqs[r]
        /\ reqs'[Len(reqs) + 1] = q
    BY AppendFacts, MaxReqsAssumption DEF SchedTypeOK, Arrive, Arrived
  <1>2. /\ Len(reqs) + 1 \in Arrived' /\ Arrived \subseteq Arrived' /\ Len(reqs) + 1 \in Ids
    BY <1>1, MaxReqsAssumption DEF Arrived, Ids
  <1>3. \A e \in Eps : fenced[e] \in Seq(Arrived')
    BY <1>2, SeqMono, Zenon DEF SchedTypeOK
  <1>4. \A c \in Clients : paused[c] \in Seq(Arrived')
    BY <1>2, SeqMono, Zenon DEF SchedTypeOK
  <1> QED BY <1>1, <1>2, <1>3, <1>4, ShapesAssumption, Zenon

LEMMA LaunchTypes ==
    ASSUME SchedTypeOK, NEW r \in Ids, NEW q \in Shapes,
           NEW done \in BOOLEAN, NEW p \in BOOLEAN, Launch(r, q, done, p)
    PROVE  /\ where' \in [Ids -> Places]
           /\ oreqs' \in [Eps -> Int]
           /\ pause' \in [Clients -> BOOLEAN]
  BY ShapesAssumption DEF SchedTypeOK, Launch, Places

LEMMA TypeStep == SchedTypeOK /\ [SchedNext]_schedVars => SchedTypeOK'
  <1> SUFFICES ASSUME SchedTypeOK, [SchedNext]_schedVars PROVE SchedTypeOK'
    BY Zenon
  <1> USE DEF Places, HandlerPlaces
  <1>1. ASSUME NEW q \in Shapes, ReqQueuePause(q) PROVE SchedTypeOK'
    <2>1. Arrive(q) BY <1>1, Zenon DEF ReqQueuePause
    <2>2. paused' \in [Clients -> Seq(Arrived')]
      BY <1>1, <2>1, ArriveTypes, AppendFacts, Zenon DEF SchedTypeOK, ReqQueuePause
    <2> QED BY <1>1, <2>1, <2>2, ArriveTypes DEF SchedTypeOK, ReqQueuePause, Arrive
  <1>2. ASSUME NEW q \in Shapes, ReqQueueFence(q) PROVE SchedTypeOK'
    <2>1. Arrive(q) BY <1>2, Zenon DEF ReqQueueFence
    <2>2. fenced' \in [Eps -> Seq(Arrived')]
      BY <1>2, <2>1, ArriveTypes, AppendFacts, Zenon DEF SchedTypeOK, ReqQueueFence
    <2> QED BY <1>2, <2>1, <2>2, ArriveTypes DEF SchedTypeOK, ReqQueueFence, Arrive
  <1>3. ASSUME NEW q \in Shapes, NEW done \in BOOLEAN, NEW p \in BOOLEAN,
               ReqQueueStart(q, done, p)
        PROVE  SchedTypeOK'
    <2>1. Arrive(q) BY <1>3, Zenon DEF ReqQueueStart
    <2> QED BY <1>3, <2>1, ArriveTypes DEF SchedTypeOK, ReqQueueStart, Arrive, Launch
  <1>4. ASSUME NEW r \in Arrived, NEW p \in BOOLEAN, OpCbContinue(r, p)
        PROVE  SchedTypeOK'
    BY <1>4, ReqAttributes, Zenon DEF SchedTypeOK, OpCbContinue, Arrived
  <1>5. ASSUME NEW r \in Arrived, NEW p \in BOOLEAN, OpCbComplete(r, p)
        PROVE  SchedTypeOK'
    BY <1>5, ReqAttributes DEF SchedTypeOK, OpCbComplete, Arrived
  <1>6. ASSUME NEW r \in Arrived, NEW done \in BOOLEAN, NEW p \in BOOLEAN,
               CheckPausedStart(r, done, p)
        PROVE  SchedTypeOK'
    <2>1. cur \in Arrived BY <1>6 DEF SchedTypeOK, CheckPausedStart, Arrived
    <2>2. Client(cur) \in Clients /\ r \in Ids /\ Ep(r) \in Eps /\ Client(r) \in Clients
      BY <2>1, ReqAttributes, Zenon
    <2>3. paused' \in [Clients -> Seq(Arrived)]
      BY <1>6, <2>2, TailFacts, Zenon DEF SchedTypeOK, CheckPausedStart, PausedMore
    <2>4. where' \in [Ids -> Places] /\ oreqs' \in [Eps -> Int] /\ pause' \in [Clients -> BOOLEAN]
      BY <1>6, <2>2, LaunchTypes, ReqAttributes, Zenon DEF CheckPausedStart
    <2> QED BY <1>6, <2>3, <2>4, Zenon DEF SchedTypeOK, CheckPausedStart, Arrived
  <1>7. ASSUME NEW r \in Arrived, NEW done \in BOOLEAN, NEW p \in BOOLEAN,
               CheckFencedStart(r, done, p)
        PROVE  SchedTypeOK'
    <2>1. cur \in Arrived BY <1>7 DEF SchedTypeOK, CheckFencedStart, Arrived
    <2>2. Ep(cur) \in Eps /\ r \in Ids /\ Ep(r) \in Eps /\ Client(r) \in Clients
      BY <2>1, ReqAttributes, Zenon
    <2>3. fenced' \in [Eps -> Seq(Arrived)]
      BY <1>7, <2>2, TailFacts, Zenon DEF SchedTypeOK, CheckFencedStart, FencedMore
    <2>4. where' \in [Ids -> Places] /\ oreqs' \in [Eps -> Int] /\ pause' \in [Clients -> BOOLEAN]
      BY <1>7, <2>2, LaunchTypes, ReqAttributes, Zenon DEF CheckFencedStart
    <2> QED BY <1>7, <2>3, <2>4, Zenon DEF SchedTypeOK, CheckFencedStart, Arrived
  <1>8. ASSUME CheckPausedFence PROVE SchedTypeOK'
    <2> DEFINE c == Client(cur)
    <2> DEFINE r == Head(paused[c])
    <2>1. cur \in Arrived BY <1>8 DEF SchedTypeOK, CheckPausedFence, Arrived
    <2>2. c \in Clients BY <2>1, ReqAttributes, Zenon
    <2>3. r \in Arrived /\ Tail(paused[c]) \in Seq(Arrived)
      BY <1>8, <2>2, TailFacts, Zenon DEF SchedTypeOK, CheckPausedFence, PausedMore
    <2>4. Ep(r) \in Eps /\ r \in Ids BY <2>3, ReqAttributes, Zenon
    <2>5. Append(fenced[Ep(r)], r) \in Seq(Arrived)
      BY <2>3, <2>4, AppendFacts, Zenon DEF SchedTypeOK
    <2> QED BY <1>8, <2>2, <2>3, <2>4, <2>5, ZenonT(20) DEF SchedTypeOK, CheckPausedFence, Arrived
  <1>9. ASSUME CheckPausedEnd \/ CheckFencedEnter \/ CheckFencedEnd PROVE SchedTypeOK'
    BY <1>9, Zenon DEF SchedTypeOK, CheckPausedEnd, CheckFencedEnter, CheckFencedEnd, Arrived
  <1>10. CASE UNCHANGED schedVars
    BY <1>10, Zenon DEF SchedTypeOK, schedVars, Arrived
  <1> QED
    BY <1>1, <1>2, <1>3, <1>4, <1>5, <1>6, <1>7, <1>8, <1>9, <1>10, Zenon DEF SchedNext

LEMMA TypeInit == SchedInit => SchedTypeOK
  BY MaxReqsAssumption
  DEF SchedInit, SchedTypeOK, Arrived, Ids, Places, HandlerPlaces

\* The lists, counters and flags of the scheduler (worker_rdmo.h) have their
\* types in every reachable state, for any connections, clients and requests.
THEOREM SchedTypeCorrect == SchedSpec => []SchedTypeOK
  BY TypeInit, TypeStep, PTL DEF SchedSpec

-----------------------------------------------------------------------------
(* How a step changes where the requests are: one new request, or one moved. *)

MovesTo(r, w) == where' = [where EXCEPT ![r] = w]

LEMMA ArriveFrame ==
    ASSUME SchedTypeOK, NEW q \in Shapes, Arrive(q), NEW n, n = Len(reqs) + 1,
           NEW w \in Places, MovesTo(n, w)
    PROVE  /\ Arrived' = Arrived \cup {n}
           /\ \A r \in Arrived : /\ r \in Ids /\ r < n /\ r \in Int
                                 /\ reqs'[r] = reqs[r]
                                 /\ Ep(r)' = Ep(r) /\ Client(r)' = Client(r)
                                 /\ where'[r] = where[r]
           /\ n \in Int /\ n \in Ids /\ n \notin Arrived
           /\ reqs'[n] = q /\ Ep(n)' = q.ep /\ Client(n)' = q.client
           /\ where'[n] = w
           /\ \A r \in Ids : r # n => where'[r] = where[r]
  <1>1. Len(reqs) \in Nat /\ Len(reqs') = Len(reqs) + 1 /\ n \in Ids
    BY ArriveTypes, Zenon
  <1>2. Arrived' = Arrived \cup {n} /\ n \notin Arrived
    BY <1>1 DEF Arrived
  <1>3. \A r \in Arrived : r \in Ids /\ r < n /\ r \in Int /\ r # n
    BY <1>1, ReqAttributes DEF Arrived
  <1>4. \A r \in Arrived : reqs'[r] = reqs[r]
    BY ArriveTypes, Zenon
  <1>5. reqs'[n] = q
    BY ArriveTypes, Zenon
  <1> QED BY <1>1, <1>2, <1>3, <1>4, <1>5 DEF SchedTypeOK, Ep, Client, MovesTo

LEMMA MoveFrame ==
    ASSUME SchedTypeOK, NEW r \in Arrived, NEW w \in Places,
           MovesTo(r, w), UNCHANGED reqs
    PROVE  /\ Arrived' = Arrived
           /\ \A x \in Arrived : /\ x \in Ids /\ x \in Int
                                 /\ Ep(x)' = Ep(x) /\ Client(x)' = Client(x)
                                 /\ where'[x] = IF x = r THEN w ELSE where[x]
           /\ \A x \in Ids : x # r => where'[x] = where[x]
  BY ReqAttributes DEF SchedTypeOK, Arrived, Ep, Client, MovesTo

(* A step that touches neither the requests nor the lists. *)
LEMMA IdleFrame ==
    ASSUME SchedInv, UNCHANGED <<reqs, where, fenced, oreqs, paused>>
    PROVE  Parked' /\ Ordered' /\ Counted' /\ FenceRespected'
  <1>1. Parked'
    <2>1. \A e \in Eps : FencedOn(e)' = FencedOn(e) BY Zenon DEF FencedOn, Arrived, Ep
    <2>2. \A c \in Clients : PausedOn(c)' = PausedOn(c) BY Zenon DEF PausedOn, Arrived, Client
    <2> QED BY <2>1, <2>2, Zenon DEF SchedInv, Parked, Ids
  <1>2. Ordered' /\ FenceRespected'
    BY DEF SchedInv, Ordered, FenceRespected, Started, Arrived, Ep
  <1>3. Counted'
    BY Zenon DEF SchedInv, Counted, ActiveOn, Arrived, Ep
  <1> QED BY <1>1, <1>2, <1>3, Zenon

-----------------------------------------------------------------------------
(* oreqs counts the active requests of the connection. *)

LEMMA ActiveFinite ==
    ASSUME SchedTypeOK, NEW e
    PROVE  IsFiniteSet(ActiveOn(e)) /\ Cardinality(ActiveOn(e)) \in Nat
  <1>1. Len(reqs) \in Nat /\ ActiveOn(e) \subseteq 1 .. Len(reqs)
    BY DEF SchedTypeOK, ActiveOn, Arrived
  <1>2. IsFiniteSet(1 .. Len(reqs))
    BY <1>1, FS_Interval
  <1> QED BY <1>1, <1>2, FS_Subset, FS_CardinalityType, Zenon

LEMMA NoneActive ==
    ASSUME SchedTypeOK, Counted, NEW e \in Eps, oreqs[e] = 0
    PROVE  ActiveOn(e) = {}
  BY ActiveFinite, FS_EmptySet, Zenon DEF Counted

LEMMA CountedSame ==
    ASSUME Counted, UNCHANGED oreqs, \A x \in Eps : ActiveOn(x)' = ActiveOn(x)
    PROVE  Counted'
  BY Zenon DEF Counted

LEMMA CountedAdd ==
    ASSUME SchedTypeOK, Counted, NEW e \in Eps, NEW r, r \notin ActiveOn(e),
           oreqs' = [oreqs EXCEPT ![e] = @ + 1],
           ActiveOn(e)' = ActiveOn(e) \cup {r},
           \A x \in Eps : x # e => ActiveOn(x)' = ActiveOn(x)
    PROVE  Counted'
  <1>1. Cardinality(ActiveOn(e) \cup {r}) = Cardinality(ActiveOn(e)) + 1
    BY ActiveFinite, FS_AddElement, Zenon
  <1> QED BY <1>1, Zenon DEF Counted, SchedTypeOK

LEMMA CountedRemove ==
    ASSUME SchedTypeOK, Counted, NEW e \in Eps, NEW r, r \in ActiveOn(e),
           oreqs' = [oreqs EXCEPT ![e] = @ - 1],
           ActiveOn(e)' = ActiveOn(e) \ {r},
           \A x \in Eps : x # e => ActiveOn(x)' = ActiveOn(x)
    PROVE  Counted'
  <1>1. Cardinality(ActiveOn(e) \ {r}) = Cardinality(ActiveOn(e)) - 1
    BY ActiveFinite, FS_RemoveElement, Zenon
  <1> QED BY <1>1, Zenon DEF Counted, SchedTypeOK
-----------------------------------------------------------------------------
(* Starting a request keeps the order when everything before it on its     *)
(* connection has started, and nothing is active if it carries the fence.  *)

LEMMA StartParked ==
    ASSUME SchedInv, NEW r \in Arrived, NEW w \in {"active", "freed"},
           MovesTo(r, w), UNCHANGED reqs,
           where[r] \in {"paused", "fenced"},
           \A x \in Arrived : x < r /\ Ep(x) = Ep(r) => Started(x),
           reqs[r].fence => ActiveOn(Ep(r)) = {}
    PROVE  Ordered' /\ FenceRespected'
  <1>0. w \in Places /\ SchedTypeOK BY Zenon DEF Places, SchedInv
  <1> USE DEF Started
  <1>1. /\ Arrived' = Arrived
        /\ \A x \in Arrived : /\ x \in Int /\ Ep(x)' = Ep(x)
                              /\ where'[x] = IF x = r THEN w ELSE where[x]
    BY <1>0, MoveFrame, Zenon
  <1>2. Ordered'
    <2> SUFFICES ASSUME NEW r1 \in Arrived, NEW r2 \in Arrived, r1 < r2, Ep(r1) = Ep(r2)
                 PROVE  /\ Started(r2)' => Started(r1)'
                        /\ where'[r2] = "fenced" => where'[r1] # "paused"
      BY <1>1 DEF Ordered
    <2> QED BY <1>1, Zenon DEF SchedInv, Ordered
  <1>3. FenceRespected'
    <2> SUFFICES ASSUME NEW r1 \in Arrived, NEW r2 \in Arrived, r1 < r2, Ep(r1) = Ep(r2),
                        reqs[r2].fence, Started(r2)'
                 PROVE  where'[r1] = "freed"
      BY <1>1 DEF FenceRespected
    <2>1. CASE r2 = r
      BY <2>1, <1>1, Zenon DEF ActiveOn
    <2>2. CASE r2 # r
      <3>1. Started(r2) BY <2>2, <1>1, Zenon
      <3>2. Started(r1) /\ where[r1] = "freed" BY <3>1, Zenon DEF SchedInv, Ordered, FenceRespected
      <3> QED BY <3>2, <1>1, Zenon
    <2> QED BY <2>1, <2>2, Zenon
  <1> QED BY <1>2, <1>3, Zenon

LEMMA StartNew ==
    ASSUME SchedInv, NEW q \in Shapes, Arrive(q), NEW n, n = Len(reqs) + 1,
           NEW w \in {"active", "freed"}, MovesTo(n, w),
           \A x \in Arrived : Ep(x) = q.ep => Started(x),
           q.fence => ActiveOn(q.ep) = {}
    PROVE  Ordered' /\ FenceRespected'
  <1>0. w \in Places /\ SchedTypeOK BY Zenon DEF Places, SchedInv
  <1> USE DEF Started
  <1>1. /\ Arrived' = Arrived \cup {n} /\ n \in Int
        /\ \A x \in Arrived : /\ x \in Int /\ x < n /\ Ep(x)' = Ep(x)
                              /\ reqs'[x] = reqs[x] /\ where'[x] = where[x]
        /\ reqs'[n] = q /\ Ep(n)' = q.ep /\ where'[n] = w
    BY <1>0, ArriveFrame
  <1>2. Ordered'
    <2> SUFFICES ASSUME NEW r1 \in Arrived', NEW r2 \in Arrived', r1 < r2, Ep(r1)' = Ep(r2)'
                 PROVE  /\ Started(r2)' => Started(r1)'
                        /\ where'[r2] = "fenced" => where'[r1] # "paused"
      BY Zenon DEF Ordered
    <2>1. r1 \in Arrived BY <1>1
    <2> QED BY <1>1, <2>1 DEF SchedInv, Ordered
  <1>3. FenceRespected'
    <2> SUFFICES ASSUME NEW r1 \in Arrived', NEW r2 \in Arrived', r1 < r2, Ep(r1)' = Ep(r2)',
                        reqs'[r2].fence, Started(r2)'
                 PROVE  where'[r1] = "freed"
      BY Zenon DEF FenceRespected
    <2>1. r1 \in Arrived BY <1>1
    <2>2. CASE r2 = n
      BY <2>1, <2>2, <1>1, Zenon DEF ActiveOn
    <2>3. CASE r2 # n
      BY <2>1, <2>3, <1>1, Zenon DEF SchedInv, FenceRespected
    <2> QED BY <2>2, <2>3, Zenon
  <1> QED BY <1>2, <1>3, Zenon

(* The head of paused_ops, and of fenced_ops, has no waiting predecessor   *)
(* on its list.                                                            *)
LEMMA PausedHead ==
    ASSUME SchedInv, NEW c \in Clients, paused[c] # <<>>, NEW r, r = Head(paused[c])
    PROVE  /\ r \in Arrived /\ where[r] = "paused" /\ Client(r) = c
           /\ \A x \in Arrived : Client(x) = c /\ x < r => where[x] # "paused"
  <1>1. paused[c] \in Seq(Arrived) /\ Arrived \subseteq Int
    BY DEF SchedInv, SchedTypeOK, Arrived
  <1>2. /\ r \in Members(paused[c])
        /\ \A x \in Members(paused[c]) : ~ (x < r)
    BY <1>1, TailMembers, Zenon DEF SchedInv, Parked
  <1> QED BY <1>2, Zenon DEF SchedInv, Parked, PausedOn

LEMMA FencedHead ==
    ASSUME SchedInv, NEW e \in Eps, fenced[e] # <<>>, NEW r, r = Head(fenced[e])
    PROVE  /\ r \in Arrived /\ where[r] = "fenced" /\ Ep(r) = e
           /\ \A x \in Arrived : Ep(x) = e /\ x < r => where[x] # "fenced"
  <1>1. fenced[e] \in Seq(Arrived) /\ Arrived \subseteq Int
    BY DEF SchedInv, SchedTypeOK, Arrived
  <1>2. /\ r \in Members(fenced[e])
        /\ \A x \in Members(fenced[e]) : ~ (x < r)
    BY <1>1, TailMembers, Zenon DEF SchedInv, Parked
  <1> QED BY <1>2, Zenon DEF SchedInv, Parked, FencedOn

(* An empty list has no request waiting on it, and every request that      *)
(* arrived is parked or started.                                           *)
LEMMA EmptyLists ==
    ASSUME SchedInv, NEW x \in Arrived
    PROVE  /\ where[x] \in {"paused", "fenced"} \/ Started(x)
           /\ paused[Client(x)] = <<>> => where[x] # "paused"
           /\ fenced[Ep(x)] = <<>> => where[x] # "fenced"
  <1>1. /\ x \in Ids /\ ~ (x > Len(reqs)) /\ where[x] \in Places
        /\ Ep(x) \in Eps /\ Client(x) \in Clients
    BY ReqAttributes DEF SchedInv, SchedTypeOK, Arrived
  <1>2. where[x] # "none" BY <1>1, Zenon DEF SchedInv, Parked
  <1> QED BY <1>1, <1>2, EmptyMembers, Zenon DEF SchedInv, Parked, Places, Started, PausedOn, FencedOn

-----------------------------------------------------------------------------
(* A request that arrives *)

LEMMA PauseStep ==
    ASSUME SchedInv, SchedTypeOK', NEW q \in Shapes, ReqQueuePause(q)
    PROVE  SchedInv'
  <1>1. PICK n : n = Len(reqs) + 1 BY Zenon
  <1>2. /\ SchedTypeOK /\ Arrive(q) /\ "paused" \in Places /\ MovesTo(n, "paused")
    BY <1>1, Zenon DEF SchedInv, ReqQueuePause, Places, MovesTo
  <1>3. /\ Arrived' = Arrived \cup {n} /\ n \in Int /\ n \notin Arrived /\ n \in Ids
        /\ \A x \in Arrived : /\ x \in Ids /\ x \in Int /\ x < n
                              /\ Ep(x)' = Ep(x) /\ Client(x)' = Client(x)
                              /\ reqs'[x] = reqs[x] /\ where'[x] = where[x]
        /\ reqs'[n] = q /\ Ep(n)' = q.ep /\ Client(n)' = q.client /\ where'[n] = "paused"
        /\ \A x \in Ids : x # n => where'[x] = where[x]
    BY <1>1, <1>2, ArriveFrame
  <1>4. /\ Len(reqs) \in Nat /\ Len(reqs') = Len(reqs) + 1
        /\ q.ep \in Eps /\ q.client \in Clients
    BY <1>2, ArriveTypes, Zenon
  <1>5. fenced' = fenced /\ oreqs' = oreqs /\ paused' = [paused EXCEPT ![q.client] = Append(@, n)]
    BY <1>1, Zenon DEF ReqQueuePause
  <1>6. Parked'
    <2>1. \A r \in Ids : where'[r] = "none" <=> r > Len(reqs')
      BY <1>1, <1>3, <1>4 DEF SchedInv, Parked, Ids
    <2>2. ASSUME NEW e \in Eps PROVE FencedOn(e)' = FencedOn(e)
      BY <1>3, Zenon DEF FencedOn
    <2>3. ASSUME NEW c \in Clients
          PROVE  Members(paused'[c]) = PausedOn(c)' /\ Increasing(paused'[c])
      <3>1. PausedOn(c)' = IF c = q.client THEN PausedOn(c) \cup {n} ELSE PausedOn(c)
        BY <1>3, ZenonT(20) DEF PausedOn
      <3>2. /\ paused[c] \in Seq(Int)
            /\ Members(paused[c]) = PausedOn(c) /\ Increasing(paused[c])
            /\ \A x \in PausedOn(c) : x < n
            /\ paused'[c] = IF c = q.client THEN Append(paused[c], n) ELSE paused[c]
        BY <1>3, <1>5, SeqMono, ZenonT(20) DEF SchedInv, Parked, PausedOn, SchedTypeOK
      <3> QED BY <3>1, <3>2, <1>3, AppendMembers, Zenon
    <2> QED BY <2>1, <2>2, <2>3, <1>5, SMTT(30) DEF SchedInv, Parked, Ids
  <1>7. Ordered' /\ FenceRespected'
    BY <1>3 DEF SchedInv, Ordered, FenceRespected, Started
  <1>8. Counted'
    <2>1. \A e \in Eps : ActiveOn(e)' = ActiveOn(e)
      BY <1>3, ZenonT(20) DEF ActiveOn
    <2> QED BY <2>1, <1>5, CountedSame, Zenon DEF SchedInv
  <1>9. Held'
    BY <1>2, <1>3, <1>5, Zenon DEF SchedInv, Held, Arrive, SchedTypeOK
  <1> QED BY <1>6, <1>7, <1>8, <1>9, Zenon DEF SchedInv

(* Requests of one connection are of one client. *)
LEMMA SameClient ==
    ASSUME SchedTypeOK, DedicatedEps, NEW x \in Arrived, NEW y \in Arrived, Ep(x) = Ep(y)
    PROVE  Client(x) = Client(y)
  BY DEF SchedTypeOK, DedicatedEps, Ep, Client, Arrived

LEMMA FenceStep ==
    ASSUME SchedInv, DedicatedEps, SchedTypeOK', NEW q \in Shapes, ReqQueueFence(q)
    PROVE  SchedInv'
  <1>1. PICK n : n = Len(reqs) + 1 BY Zenon
  <1>2. SchedTypeOK /\ Arrive(q) /\ "fenced" \in Places /\ MovesTo(n, "fenced")
    BY <1>1, Zenon DEF SchedInv, ReqQueueFence, Places, MovesTo
  <1>3. /\ Arrived' = Arrived \cup {n} /\ n \in Int /\ n \notin Arrived /\ n \in Ids
        /\ \A x \in Arrived : /\ x \in Ids /\ x \in Int /\ x < n
                              /\ Ep(x)' = Ep(x) /\ Client(x)' = Client(x)
                              /\ reqs'[x] = reqs[x] /\ where'[x] = where[x]
        /\ reqs'[n] = q /\ Ep(n)' = q.ep /\ Client(n)' = q.client /\ where'[n] = "fenced"
        /\ \A x \in Ids : x # n => where'[x] = where[x]
    BY <1>1, <1>2, ArriveFrame
  <1>4. /\ Len(reqs) \in Nat /\ Len(reqs') = Len(reqs) + 1
        /\ q.ep \in Eps /\ q.client \in Clients
    BY <1>2, ArriveTypes, Zenon
  <1>5. /\ paused' = paused /\ oreqs' = oreqs /\ fenced' = [fenced EXCEPT ![q.ep] = Append(@, n)]
        /\ paused[q.client] = <<>>
        /\ fenced[q.ep] # <<>> \/ oreqs[q.ep] # 0
    BY <1>1, ZenonT(20) DEF ReqQueueFence, Gated, MustFence
  <1>6. Parked'
    <2>1. \A r \in Ids : where'[r] = "none" <=> r > Len(reqs')
      BY <1>1, <1>3, <1>4 DEF SchedInv, Parked, Ids
    <2>2. ASSUME NEW c \in Clients PROVE PausedOn(c)' = PausedOn(c)
      BY <1>3, Zenon DEF PausedOn
    <2>3. ASSUME NEW e \in Eps
          PROVE  Members(fenced'[e]) = FencedOn(e)' /\ Increasing(fenced'[e])
      <3>1. FencedOn(e)' = IF e = q.ep THEN FencedOn(e) \cup {n} ELSE FencedOn(e)
        BY <1>3, Zenon DEF FencedOn
      <3>2. /\ fenced[e] \in Seq(Int)
            /\ Members(fenced[e]) = FencedOn(e) /\ Increasing(fenced[e])
            /\ \A x \in FencedOn(e) : x < n
            /\ fenced'[e] = IF e = q.ep THEN Append(fenced[e], n) ELSE fenced[e]
        BY <1>3, <1>5, SeqMono, ZenonT(40) DEF SchedInv, Parked, FencedOn, SchedTypeOK
      <3> QED BY <3>1, <3>2, <1>3, AppendMembers, Zenon
    <2> QED BY <2>1, <2>2, <2>3, <1>5, ZenonT(20) DEF SchedInv, Parked, Ids
  <1>7. Ordered' /\ FenceRespected'
    <2>1. \A x \in Arrived : Ep(x) = q.ep => where[x] # "paused"
      <3> SUFFICES ASSUME NEW x \in Arrived, Ep(x) = q.ep PROVE where[x] # "paused"
        BY ZenonT(20)
      <3>1. Client(x) = q.client
        BY <1>2 DEF SchedTypeOK, DedicatedEps, Ep, Client, Arrived
      <3> QED BY <3>1, <1>5, EmptyLists, Zenon
    <2> QED BY <1>3, <2>1 DEF SchedInv, Ordered, FenceRespected, Started
  <1>8. Counted'
    <2>1. \A e \in Eps : ActiveOn(e)' = ActiveOn(e)
      BY <1>3, ZenonT(20) DEF ActiveOn
    <2> QED BY <2>1, <1>5, CountedSame, Zenon DEF SchedInv
  <1>9. Held'
    BY <1>2, <1>3, <1>4, <1>5, ZenonT(20) DEF SchedInv, Held, Arrive, SchedTypeOK
  <1> QED BY <1>6, <1>7, <1>8, <1>9, Zenon DEF SchedInv

LEMMA QueueStartStep ==
    ASSUME SchedInv, DedicatedEps, SchedTypeOK', NEW q \in Shapes,
           NEW done \in BOOLEAN, NEW p \in BOOLEAN, ReqQueueStart(q, done, p)
    PROVE  SchedInv'
  <1>1. PICK n : n = Len(reqs) + 1 BY Zenon
  <1>0. PICK w : w = IF done THEN "freed" ELSE "active" BY Zenon
  <1>2. /\ SchedTypeOK /\ Arrive(q) /\ MovesTo(n, w)
        /\ w \in {"active", "freed"} /\ w \in Places
    BY <1>0, <1>1, Zenon DEF SchedInv, ReqQueueStart, Launch, Places, MovesTo
  <1>3. /\ Arrived' = Arrived \cup {n} /\ n \in Int /\ n \notin Arrived /\ n \in Ids
        /\ \A x \in Arrived : /\ x \in Ids /\ x \in Int /\ x < n
                              /\ Ep(x)' = Ep(x) /\ Client(x)' = Client(x)
                              /\ reqs'[x] = reqs[x] /\ where'[x] = where[x]
        /\ reqs'[n] = q /\ Ep(n)' = q.ep /\ Client(n)' = q.client /\ where'[n] = w
        /\ \A x \in Ids : x # n => where'[x] = where[x]
    BY <1>1, <1>2, ArriveFrame
  <1>4. /\ Len(reqs) \in Nat /\ Len(reqs') = Len(reqs) + 1
        /\ q.ep \in Eps /\ q.client \in Clients
    BY <1>2, ArriveTypes, Zenon
  <1>5. /\ paused' = paused /\ fenced' = fenced
        /\ oreqs' = [oreqs EXCEPT ![q.ep] = IF done THEN @ ELSE @ + 1]
        /\ paused[q.client] = <<>> /\ fenced[q.ep] = <<>>
        /\ q.fence => oreqs[q.ep] = 0
    BY <1>4, ShapesAssumption, Zenon DEF ReqQueueStart, Launch, Gated, MustFence
  <1>6. Parked'
    <2>1. \A r \in Ids : where'[r] = "none" <=> r > Len(reqs')
      BY <1>0, <1>1, <1>3, <1>4 DEF SchedInv, Parked, Ids
    <2>2. ASSUME NEW c \in Clients PROVE PausedOn(c)' = PausedOn(c)
      BY <1>0, <1>3, Zenon DEF PausedOn
    <2>3. ASSUME NEW e \in Eps PROVE FencedOn(e)' = FencedOn(e)
      BY <1>0, <1>3, Zenon DEF FencedOn
    <2> QED BY <2>1, <2>2, <2>3, <1>5, ZenonT(20) DEF SchedInv, Parked, Ids
  <1>7. Ordered' /\ FenceRespected'
    <2>1. \A x \in Arrived : Ep(x) = q.ep => Started(x)
      <3> SUFFICES ASSUME NEW x \in Arrived, Ep(x) = q.ep PROVE Started(x)
        BY Zenon
      <3>1. Client(x) = q.client
        BY <1>2 DEF SchedTypeOK, DedicatedEps, Ep, Client, Arrived
      <3> QED BY <3>1, <1>5, EmptyLists, Zenon
    <2>2. q.fence => ActiveOn(q.ep) = {}
      BY <1>2, <1>4, <1>5, NoneActive, Zenon DEF SchedInv
    <2> QED BY <1>1, <1>2, <2>1, <2>2, StartNew, Zenon
  <1>8. Counted'
    <2>1. CASE done
      <3>1. \A e \in Eps : ActiveOn(e)' = ActiveOn(e)
        BY <2>1, <1>0, <1>3, Zenon DEF ActiveOn
      <3>2. oreqs' = oreqs BY <2>1, <1>2, <1>5, Zenon DEF SchedTypeOK
      <3> QED BY <3>1, <3>2, CountedSame, ZenonT(20) DEF SchedInv
    <2>2. CASE ~ done
      <3>1. /\ n \notin ActiveOn(q.ep) /\ ActiveOn(q.ep)' = ActiveOn(q.ep) \cup {n}
            /\ \A e \in Eps : e # q.ep => ActiveOn(e)' = ActiveOn(e)
        BY <2>2, <1>0, <1>3, Zenon DEF ActiveOn
      <3>2. oreqs' = [oreqs EXCEPT ![q.ep] = @ + 1] BY <2>2, <1>5, ZenonT(20)
      <3> QED BY <3>1, <3>2, <1>2, <1>4, CountedAdd, Zenon DEF SchedInv
    <2> QED BY <2>1, <2>2, Zenon
  <1>9. Held'
    BY <1>2, <1>3, <1>4, <1>5, ZenonT(20) DEF SchedInv, Held, Arrive, SchedTypeOK
  <1> QED BY <1>6, <1>7, <1>8, <1>9, Zenon DEF SchedInv

-----------------------------------------------------------------------------
(* A completion *)

(* OpCbContinue and the ends of the two loops move no request. *)
LEMMA ContinueStep ==
    ASSUME SchedInv, SchedTypeOK', NEW r \in Arrived, NEW p \in BOOLEAN, OpCbContinue(r, p)
    PROVE  SchedInv'
  <1>1. UNCHANGED <<reqs, where, fenced, oreqs, paused, at, cur>>
    BY ZenonT(20) DEF OpCbContinue
  <1>2. Held' BY <1>1, Zenon DEF SchedInv, Held, Ep
  <1> QED BY <1>1, <1>2, IdleFrame, Zenon DEF SchedInv

LEMMA LoopEndStep ==
    ASSUME SchedInv, SchedTypeOK', CheckPausedEnd \/ CheckFencedEnter \/ CheckFencedEnd
    PROVE  SchedInv'
  <1>1. UNCHANGED <<reqs, where, fenced, oreqs, paused, cur>>
    BY Zenon DEF CheckPausedEnd, CheckFencedEnter, CheckFencedEnd
  <1>2. Ep(cur)' = Ep(cur) BY <1>1, Zenon DEF Ep
  <1>3. Held'
    <2>1. CASE CheckPausedEnd
      BY <1>1, <1>2, <2>1, Zenon DEF SchedInv, Held, CheckPausedEnd
    <2>2. CASE CheckFencedEnter
      BY <1>1, <1>2, <2>2, ZenonT(20) DEF SchedInv, Held, CheckFencedEnter
    <2>3. CASE CheckFencedEnd
      BY <1>1, <1>2, <2>3, Zenon DEF SchedInv, Held, CheckFencedEnd, FencedMore
    <2> QED BY <2>1, <2>2, <2>3, Zenon
  <1> QED BY <1>1, <1>3, IdleFrame, Zenon DEF SchedInv

LEMMA CompleteStep ==
    ASSUME SchedInv, SchedTypeOK', NEW r \in Arrived, NEW p \in BOOLEAN, OpCbComplete(r, p)
    PROVE  SchedInv'
  <1>1. /\ SchedTypeOK /\ "freed" \in Places /\ MovesTo(r, "freed") /\ where[r] = "active"
        /\ UNCHANGED <<reqs, fenced, paused>> /\ cur' = r /\ at' = "check_paused"
        /\ at = "idle" /\ oreqs' = [oreqs EXCEPT ![Ep(r)] = @ - 1]
    BY Zenon DEF SchedInv, OpCbComplete, Places, MovesTo
  <1>2. /\ Arrived' = Arrived
        /\ \A x \in Arrived : /\ x \in Ids /\ x \in Int
                              /\ Ep(x)' = Ep(x) /\ Client(x)' = Client(x)
                              /\ where'[x] = IF x = r THEN "freed" ELSE where[x]
        /\ \A x \in Ids : x # r => where'[x] = where[x]
    BY <1>1, MoveFrame, Zenon
  <1>3. Ep(r) \in Eps BY <1>1, ReqAttributes, Zenon
  <1>4. Parked'
    <2>1. \A x \in Ids : where'[x] = "none" <=> x > Len(reqs')
      BY <1>1, <1>2, Zenon DEF SchedInv, Parked, Ids
    <2>2. \A c \in Clients : PausedOn(c)' = PausedOn(c) BY <1>1, <1>2, Zenon DEF PausedOn
    <2>3. \A e \in Eps : FencedOn(e)' = FencedOn(e) BY <1>1, <1>2, Zenon DEF FencedOn
    <2> QED BY <2>1, <2>2, <2>3, <1>1, ZenonT(20) DEF SchedInv, Parked, Ids
  <1>5. Ordered' /\ FenceRespected'
    BY <1>1, <1>2 DEF SchedInv, Ordered, FenceRespected, Started
  <1>6. Counted'
    <2>0. PICK e \in Eps : e = Ep(r) BY <1>3, Zenon
    <2>1. /\ r \in ActiveOn(e) /\ ActiveOn(e)' = ActiveOn(e) \ {r}
          /\ \A x \in Eps : x # e => ActiveOn(x)' = ActiveOn(x)
      BY <2>0, <1>1, <1>2, Zenon DEF ActiveOn
    <2>2. oreqs' = [oreqs EXCEPT ![e] = @ - 1] BY <2>0, <1>1, ZenonT(20)
    <2> QED BY <2>1, <2>2, <1>1, CountedRemove, Zenon DEF SchedInv
  <1>7. Held'
    BY <1>1, <1>2, <1>3, Zenon DEF SchedInv, Held, SchedTypeOK
  <1> QED BY <1>4, <1>5, <1>6, <1>7, Zenon DEF SchedInv

LEMMA PausedFenceStep ==
    ASSUME SchedInv, DedicatedEps, SchedTypeOK', CheckPausedFence
    PROVE  SchedInv'
  <1>0. /\ SchedTypeOK /\ at = "check_paused" /\ cur \in Arrived
        /\ "fenced" \in Places
    BY CurArrived, Zenon DEF SchedInv, CheckPausedFence, Places
  <1>1. PICK c \in Clients : c = Client(cur) BY <1>0, ReqAttributes, Zenon
  <1>2. PICK r : r = Head(paused[c]) BY Zenon
  <1>3. /\ paused[c] # <<>> /\ MustFence(reqs[r]) /\ MovesTo(r, "fenced")
        /\ paused' = [paused EXCEPT ![c] = Tail(@)]
        /\ fenced' = [fenced EXCEPT ![Ep(r)] = Append(@, r)]
        /\ UNCHANGED <<reqs, oreqs, at, cur>>
    BY <1>1, <1>2, Zenon DEF CheckPausedFence, PausedMore, MovesTo
  <1>4. /\ r \in Arrived /\ where[r] = "paused" /\ Client(r) = c
        /\ \A x \in Arrived : Client(x) = c /\ x < r => where[x] # "paused"
    BY <1>2, <1>3, PausedHead, Zenon
  <1>5. /\ Arrived' = Arrived
        /\ \A x \in Arrived : /\ x \in Ids /\ x \in Int
                              /\ Ep(x)' = Ep(x) /\ Client(x)' = Client(x)
                              /\ where'[x] = IF x = r THEN "fenced" ELSE where[x]
        /\ \A x \in Ids : x # r => where'[x] = where[x]
    BY <1>0, <1>3, <1>4, MoveFrame, Zenon
  <1>6. Ep(r) \in Eps BY <1>0, <1>4, ReqAttributes, Zenon
  <1>7. Parked'
    <2>1. \A x \in Ids : where'[x] = "none" <=> x > Len(reqs')
      BY <1>3, <1>4, <1>5, SMTT(30) DEF SchedInv, Parked, Ids
    <2>2. ASSUME NEW d \in Clients
          PROVE  Members(paused'[d]) = PausedOn(d)' /\ Increasing(paused'[d])
      <3>1. PausedOn(d)' = IF d = c THEN PausedOn(d) \ {r} ELSE PausedOn(d)
        BY <1>4, <1>5, ZenonT(20) DEF PausedOn
      <3>2. /\ paused[d] \in Seq(Arrived) /\ Arrived \subseteq Int
            /\ Members(paused[d]) = PausedOn(d) /\ Increasing(paused[d])
            /\ paused'[d] = IF d = c THEN Tail(paused[d]) ELSE paused[d]
        BY <1>3, <1>5, SMTT(30) DEF SchedInv, Parked, SchedTypeOK
      <3> QED BY <3>1, <3>2, <1>2, <1>3, TailMembers, Zenon
    <2>3. ASSUME NEW e \in Eps
          PROVE  Members(fenced'[e]) = FencedOn(e)' /\ Increasing(fenced'[e])
      <3>1. FencedOn(e)' = IF e = Ep(r) THEN FencedOn(e) \cup {r} ELSE FencedOn(e)
        BY <1>4, <1>5, Zenon DEF FencedOn
      <3>2. /\ fenced[e] \in Seq(Int) /\ r \in Int
            /\ Members(fenced[e]) = FencedOn(e) /\ Increasing(fenced[e])
            /\ fenced'[e] = IF e = Ep(r) THEN Append(fenced[e], r) ELSE fenced[e]
        BY <1>3, <1>4, <1>5, SeqMono, ZenonT(20) DEF SchedInv, Parked, SchedTypeOK
      <3>3. e = Ep(r) => \A x \in FencedOn(e) : x < r
        BY <1>4, <1>5, SMTT(30) DEF SchedInv, Ordered, FencedOn
      <3> QED BY <3>1, <3>2, <3>3, AppendMembers, Zenon
    <2> QED BY <2>1, <2>2, <2>3, ZenonT(20) DEF Parked
  <1>8. Ordered' /\ FenceRespected'
    <2>1. \A x \in Arrived : x < r /\ Ep(x) = Ep(r) => where[x] # "paused"
      BY <1>0, <1>4, SameClient, Zenon
    <2>2. UNCHANGED reqs BY <1>3, Zenon
    <2> QED BY <1>4, <1>5, <2>1, <2>2, SMTT(30) DEF SchedInv, Ordered, FenceRespected, Started
  <1>9. Counted'
    <2>1. \A e \in Eps : ActiveOn(e)' = ActiveOn(e)
      BY <1>4, <1>5, SMTT(30) DEF ActiveOn
    <2> QED BY <2>1, <1>3, CountedSame, Zenon DEF SchedInv
  <1>10. Held'
    <2>1. fenced[Ep(r)] # <<>> \/ oreqs[Ep(r)] # 0
      BY <1>3, Zenon DEF MustFence, Ep
    <2>2. Ep(cur)' = Ep(cur) BY <1>3, ZenonT(20) DEF Ep
    <2> QED BY <2>1, <2>2, <1>0, <1>3, <1>6, ZenonT(20) DEF SchedInv, Held, SchedTypeOK
  <1> QED BY <1>7, <1>8, <1>9, <1>10, ZenonT(20) DEF SchedInv

(* What starting a parked request keeps, whichever list it leaves. *)
LEMMA LaunchParked ==
    ASSUME SchedInv, NEW r \in Arrived, NEW done \in BOOLEAN, NEW p \in BOOLEAN,
           Launch(r, reqs[r], done, p), UNCHANGED reqs,
           where[r] \in {"paused", "fenced"},
           \A x \in Arrived : x < r /\ Ep(x) = Ep(r) => Started(x),
           reqs[r].fence => oreqs[Ep(r)] = 0
    PROVE  /\ Ordered' /\ FenceRespected' /\ Counted'
           /\ \A x \in Ids : where'[x] = "none" <=> x > Len(reqs')
           /\ \A e \in Eps : oreqs[e] # 0 => oreqs'[e] # 0
           /\ \A e \in Eps : FencedOn(e)' = FencedOn(e) \ {r}
           /\ \A c \in Clients : PausedOn(c)' = PausedOn(c) \ {r}
  <1>0. PICK w : w = IF done THEN "freed" ELSE "active" BY Zenon
  <1>1. /\ SchedTypeOK /\ MovesTo(r, w) /\ w \in {"active", "freed"} /\ w \in Places
    BY <1>0, Zenon DEF SchedInv, Launch, Places, MovesTo
  <1>2. PICK e \in Eps : e = Ep(r) BY <1>1, ReqAttributes, Zenon
  <1>3. oreqs' = [oreqs EXCEPT ![e] = IF done THEN @ ELSE @ + 1]
    BY <1>2, Zenon DEF Launch, Ep
  <1>4. /\ Arrived' = Arrived
        /\ \A x \in Arrived : /\ x \in Ids /\ x \in Int
                              /\ Ep(x)' = Ep(x) /\ Client(x)' = Client(x)
                              /\ where'[x] = IF x = r THEN w ELSE where[x]
        /\ \A x \in Ids : x # r => where'[x] = where[x]
    BY <1>1, MoveFrame, Zenon
  <1>5. reqs[r].fence => ActiveOn(e) = {}
    BY <1>1, <1>2, NoneActive, Zenon DEF SchedInv
  <1>6. Ordered' /\ FenceRespected'
    BY <1>1, <1>2, <1>5, StartParked, Zenon
  <1>7. Counted'
    <2>1. CASE done
      <3>1. \A x \in Eps : ActiveOn(x)' = ActiveOn(x)
        BY <2>1, <1>0, <1>4, Zenon DEF ActiveOn
      <3>2. oreqs' = oreqs BY <2>1, <1>1, <1>3, Zenon DEF SchedTypeOK
      <3> QED BY <3>1, <3>2, CountedSame, Zenon DEF SchedInv
    <2>2. CASE ~ done
      <3>1. /\ r \notin ActiveOn(e) /\ ActiveOn(e)' = ActiveOn(e) \cup {r}
            /\ \A x \in Eps : x # e => ActiveOn(x)' = ActiveOn(x)
        BY <2>2, <1>0, <1>2, <1>4, Zenon DEF ActiveOn
      <3>2. oreqs' = [oreqs EXCEPT ![e] = @ + 1] BY <2>2, <1>3, Zenon
      <3> QED BY <3>1, <3>2, <1>1, CountedAdd, Zenon DEF SchedInv
    <2> QED BY <2>1, <2>2, Zenon
  <1>8. \A x \in Eps : oreqs[x] # 0 => oreqs'[x] # 0
    <2>1. oreqs[e] \in Nat BY <1>1, ActiveFinite, ZenonT(20) DEF SchedInv, Counted
    <2> QED BY <2>1, <1>1, <1>3 DEF SchedTypeOK
  <1>9. \A x \in Ids : where'[x] = "none" <=> x > Len(reqs')
    BY <1>1, <1>4, Zenon DEF SchedInv, Parked, Ids
  <1>10. \A x \in Eps : FencedOn(x)' = FencedOn(x) \ {r}
    BY <1>1, <1>4, Zenon DEF FencedOn
  <1>11. \A c \in Clients : PausedOn(c)' = PausedOn(c) \ {r}
    BY <1>1, <1>4, ZenonT(20) DEF PausedOn
  <1> QED BY <1>6, <1>7, <1>8, <1>9, <1>10, <1>11, ZenonT(20)

(* Taking the head off one list keeps it the list of those that wait. *)
LEMMA PausedStartStep ==
    ASSUME SchedInv, DedicatedEps, SchedTypeOK', NEW r \in Arrived,
           NEW done \in BOOLEAN, NEW p \in BOOLEAN, CheckPausedStart(r, done, p)
    PROVE  SchedInv'
  <1>0. /\ SchedTypeOK /\ at = "check_paused" /\ cur \in Arrived
    BY CurArrived, Zenon DEF SchedInv, CheckPausedStart
  <1>1. PICK c \in Clients : c = Client(cur) BY <1>0, ReqAttributes, Zenon
  <1>2. /\ paused[c] # <<>> /\ r = Head(paused[c]) /\ ~ MustFence(reqs[r])
        /\ paused' = [paused EXCEPT ![c] = Tail(@)]
        /\ Launch(r, reqs[r], done, p)
        /\ UNCHANGED <<reqs, fenced, at, cur>>
    BY <1>1, Zenon DEF CheckPausedStart, PausedMore
  <1>3. /\ where[r] = "paused" /\ Client(r) = c
        /\ \A x \in Arrived : Client(x) = c /\ x < r => where[x] # "paused"
    BY <1>2, PausedHead, ZenonT(20)
  <1>4. fenced[Ep(r)] = <<>> /\ (reqs[r].fence => oreqs[Ep(r)] = 0)
    BY <1>2, Zenon DEF MustFence, Ep
  <1>5. \A x \in Arrived : x < r /\ Ep(x) = Ep(r) => Started(x)
    BY <1>0, <1>3, <1>4, SameClient, EmptyLists, ZenonT(20)
  <1>6. /\ Ordered' /\ FenceRespected' /\ Counted'
        /\ \A x \in Ids : where'[x] = "none" <=> x > Len(reqs')
        /\ \A e \in Eps : oreqs[e] # 0 => oreqs'[e] # 0
        /\ \A e \in Eps : FencedOn(e)' = FencedOn(e) \ {r}
        /\ \A d \in Clients : PausedOn(d)' = PausedOn(d) \ {r}
    BY <1>2, <1>3, <1>4, <1>5, LaunchParked, ZenonT(20)
  <1>7. Parked'
    <2>1. ASSUME NEW d \in Clients
          PROVE  Members(paused'[d]) = PausedOn(d)' /\ Increasing(paused'[d])
      <3>1. d # c => r \notin PausedOn(d) BY <1>3, ZenonT(20) DEF PausedOn
      <3>2. /\ paused[d] \in Seq(Arrived) /\ Arrived \subseteq Int
            /\ Members(paused[d]) = PausedOn(d) /\ Increasing(paused[d])
            /\ paused'[d] = IF d = c THEN Tail(paused[d]) ELSE paused[d]
        BY <1>2, SMTT(30), Z3T(30) DEF SchedInv, Parked, SchedTypeOK, Arrived
      <3>3. PausedOn(d)' = PausedOn(d) \ {r} BY <1>6, Zenon
      <3>4. CASE d = c
        BY <3>2, <3>3, <3>4, <1>2, TailMembers, Zenon
      <3>5. CASE d # c
        BY <3>1, <3>2, <3>3, <3>5, ZenonT(20)
      <3> QED BY <3>4, <3>5, Zenon
    <2>2. \A e \in Eps : FencedOn(e)' = FencedOn(e)
      BY <1>3, <1>6, ZenonT(20) DEF FencedOn
    <2> QED BY <2>1, <2>2, <1>2, <1>6, Zenon DEF SchedInv, Parked
  <1>8. Held'
    <2>1. Ep(cur)' = Ep(cur) BY <1>2, ZenonT(20) DEF Ep
    <2> QED BY <2>1, <1>0, <1>2, <1>6, Zenon DEF SchedInv, Held
  <1> QED BY <1>6, <1>7, <1>8, ZenonT(20) DEF SchedInv

LEMMA FencedStartStep ==
    ASSUME SchedInv, DedicatedEps, SchedTypeOK', NEW r \in Arrived,
           NEW done \in BOOLEAN, NEW p \in BOOLEAN, CheckFencedStart(r, done, p)
    PROVE  SchedInv'
  <1>0. /\ SchedTypeOK /\ at = "fenced_loop" /\ cur \in Arrived
    BY CurArrived, Zenon DEF SchedInv, CheckFencedStart
  <1>1. PICK e \in Eps : e = Ep(cur) BY <1>0, ReqAttributes, Zenon
  <1>2. /\ fenced[e] # <<>> /\ r = Head(fenced[e]) /\ (reqs[r].fence => oreqs[e] = 0)
        /\ fenced' = [fenced EXCEPT ![e] = Tail(@)]
        /\ Launch(r, reqs[r], done, p)
        /\ UNCHANGED <<reqs, paused, at, cur>>
    BY <1>1, ZenonT(20) DEF CheckFencedStart, FencedMore
  <1>3. /\ where[r] = "fenced" /\ Ep(r) = e
        /\ \A x \in Arrived : Ep(x) = e /\ x < r => where[x] # "fenced"
    BY <1>2, FencedHead, SMTT(30)
  <1>4. \A x \in Arrived : x < r /\ Ep(x) = Ep(r) => Started(x)
    BY <1>3, EmptyLists, ZenonT(20) DEF SchedInv, Ordered
  <1>5. /\ Ordered' /\ FenceRespected' /\ Counted'
        /\ \A x \in Ids : where'[x] = "none" <=> x > Len(reqs')
        /\ \A x \in Eps : oreqs[x] # 0 => oreqs'[x] # 0
        /\ \A x \in Eps : FencedOn(x)' = FencedOn(x) \ {r}
        /\ \A d \in Clients : PausedOn(d)' = PausedOn(d) \ {r}
    BY <1>2, <1>3, <1>4, LaunchParked, SMTT(30)
  <1>6. Parked'
    <2>1. ASSUME NEW d \in Eps
          PROVE  Members(fenced'[d]) = FencedOn(d)' /\ Increasing(fenced'[d])
      <3>1. d # e => r \notin FencedOn(d) BY <1>3, ZenonT(20) DEF FencedOn
      <3>2. /\ fenced[d] \in Seq(Arrived) /\ Arrived \subseteq Int
            /\ Members(fenced[d]) = FencedOn(d) /\ Increasing(fenced[d])
            /\ fenced'[d] = IF d = e THEN Tail(fenced[d]) ELSE fenced[d]
        BY <1>2, SMTT(30) DEF SchedInv, Parked, SchedTypeOK, Arrived
      <3>3. FencedOn(d)' = FencedOn(d) \ {r} BY <1>5, ZenonT(20)
      <3>4. CASE d = e
        BY <3>2, <3>3, <3>4, <1>2, TailMembers, ZenonT(20)
      <3>5. CASE d # e
        BY <3>1, <3>2, <3>3, <3>5, Zenon
      <3> QED BY <3>4, <3>5, Zenon
    <2>2. \A d \in Clients : PausedOn(d)' = PausedOn(d)
      BY <1>3, <1>5, ZenonT(20) DEF PausedOn
    <2> QED BY <2>1, <2>2, <1>2, <1>5, ZenonT(40) DEF SchedInv, Parked
  <1>7. Held'
    <2>1. Ep(cur)' = e BY <1>1, <1>2, Zenon DEF Ep
    <2> QED BY <2>1, <1>0, <1>1, <1>2, <1>5, ZenonT(20) DEF SchedInv, Held, SchedTypeOK
  <1> QED BY <1>5, <1>6, <1>7, ZenonT(20) DEF SchedInv

-----------------------------------------------------------------------------
(* The theorems *)

LEMMA InvInit ==
    SchedInit => SchedInv
  <1> SUFFICES ASSUME SchedInit PROVE SchedInv BY Zenon
  <1>1. SchedTypeOK BY TypeInit, Zenon
  <1>2. Arrived = {} /\ Len(reqs) = 0 BY DEF SchedInit, Arrived
  <1>3. Parked
    <2>1. /\ \A e \in Eps : Members(fenced[e]) = {} /\ Increasing(fenced[e])
          /\ \A c \in Clients : Members(paused[c]) = {} /\ Increasing(paused[c])
      BY EmptyMembers DEF SchedInit, Increasing
    <2>2. \A r \in Ids : where[r] = "none" /\ r > Len(reqs)
      BY <1>2, MaxReqsAssumption DEF SchedInit, Ids
    <2> QED BY <1>2, <2>1, <2>2, Zenon DEF Parked, FencedOn, PausedOn
  <1>4. Counted BY <1>2, FS_EmptySet, Zenon DEF Counted, ActiveOn, SchedInit
  <1> QED BY <1>1, <1>2, <1>3, <1>4, Zenon DEF SchedInv, Ordered, FenceRespected, Held, SchedInit

LEMMA InvStep ==
    ASSUME DedicatedEps, SchedInv, [SchedNext]_schedVars
    PROVE  SchedInv'
  <1>1. SchedTypeOK' BY TypeStep, ZenonT(20) DEF SchedInv
  <1>2. CASE UNCHANGED schedVars
    BY <1>1, <1>2, IdleFrame, Zenon DEF SchedInv, schedVars, Held, Ep
  <1>3. CASE \E q \in Shapes : ReqQueuePause(q) \/ ReqQueueFence(q)
    BY <1>1, <1>3, PauseStep, FenceStep, Zenon
  <1>4. CASE \E q \in Shapes, done, p \in BOOLEAN : ReqQueueStart(q, done, p)
    BY <1>1, <1>4, QueueStartStep, Zenon
  <1>5. CASE \E r \in Arrived, p \in BOOLEAN : OpCbContinue(r, p) \/ OpCbComplete(r, p)
    BY <1>1, <1>5, ContinueStep, CompleteStep, Zenon
  <1>6. CASE \E r \in Arrived, done, p \in BOOLEAN :
                CheckPausedStart(r, done, p) \/ CheckFencedStart(r, done, p)
    BY <1>1, <1>6, PausedStartStep, FencedStartStep, Zenon
  <1>7. CASE CheckPausedFence
    BY <1>1, <1>7, PausedFenceStep, Zenon
  <1>8. CASE CheckPausedEnd \/ CheckFencedEnter \/ CheckFencedEnd
    BY <1>1, <1>8, LoopEndStep, Zenon
  <1> QED BY <1>2, <1>3, <1>4, <1>5, <1>6, <1>7, <1>8, Zenon DEF SchedNext

(* The lists, the counter and the order of the scheduler, for any number   *)
(* of requests, connections and clients: the inductive invariant that the  *)
(* three theorems below rest on.                                           *)
THEOREM SchedulerInvariant ==
    ASSUME DedicatedEps
    PROVE  SchedSpec => []SchedInv
  <1>1. SchedInv /\ [SchedNext]_schedVars => SchedInv' BY InvStep, Zenon
  <1> QED BY <1>1, InvInit, PTL DEF SchedSpec

(* A request with the fence flag starts only after everything that arrived *)
(* before it on its connection is complete (req_start, check_fenced).      *)
THEOREM FenceTheorem ==
    ASSUME DedicatedEps
    PROVE  SchedSpec => []FenceRespected
  <1>1. SchedInv => FenceRespected BY Zenon DEF SchedInv
  <1> QED BY <1>1, SchedulerInvariant, PTL

(* Requests of one connection are started in arrival order, although they  *)
(* may wait on either list (req_queue, check_paused, check_fenced).        *)
THEOREM OrderTheorem ==
    ASSUME DedicatedEps
    PROVE  SchedSpec => []StartsInOrder
  <1>1. SchedInv => StartsInOrder BY Zenon DEF SchedInv, Ordered, StartsInOrder
  <1> QED BY <1>1, SchedulerInvariant, PTL

(* fenced_ops is never left behind without a completion to come that will  *)
(* run check_fenced on it.                                                 *)
THEOREM HeldTheorem ==
    ASSUME DedicatedEps
    PROVE  SchedSpec => []FencedHeld
  <1>1. SchedInv => FencedHeld
    <2> SUFFICES ASSUME SchedInv, at = "idle", NEW e \in Eps, fenced[e] # <<>>
                 PROVE  \E r \in Arrived : Ep(r) = e /\ where[r] = "active"
      BY Zenon DEF FencedHeld
    <2>1. Cardinality(ActiveOn(e)) # 0 BY Zenon DEF SchedInv, Held, Counted
    <2>2. ActiveOn(e) # {} BY <2>1, FS_EmptySet, Zenon
    <2> QED BY <2>2, Zenon DEF ActiveOn
  <1> QED BY <1>1, SchedulerInvariant, PTL

-----------------------------------------------------------------------------
(* The worker implements its scheduler. *)

LEMMA AmCbSched == ASSUME NEW q \in Shapes, AmCb(q) PROVE SchedNext
  BY Zenon DEF AmCb, SchedNext

LEMMA OpCbSched == ASSUME NEW r \in Arrived, OpCb(r) PROVE SchedNext
  BY ZenonT(40) DEF OpCb, SchedNext

LEMMA CheckPausedSched == ASSUME CheckPaused PROVE SchedNext
  BY Zenon DEF CheckPaused, SchedNext

LEMMA CheckFencedSched == ASSUME CheckFenced PROVE SchedNext
  BY ZenonT(20) DEF CheckFenced, SchedNext

LEMMA NicSched == ASSUME NicStep PROVE UNCHANGED schedVars /\ UNCHANGED ctx0
  <1>1. ASSUME NEW ok \in BOOLEAN, NEW c \in Clients, NEW i \in DOMAIN rma[c], RmaEffect(c, i, ok)
        PROVE  UNCHANGED schedVars /\ UNCHANGED ctx0
    BY <1>1, Zenon DEF RmaEffect
  <1>2. ASSUME NEW ok \in BOOLEAN, NEW r \in rndv, RndvEffect(r, ok)
        PROVE  UNCHANGED schedVars /\ UNCHANGED ctx0
    BY <1>2, Zenon DEF RndvEffect
  <1> QED BY <1>1, <1>2, Zenon DEF NicStep

LEMMA WorkerStepSched ==
    ASSUME [WorkerNext]_vars PROVE [SchedNext]_schedVars
  <1>1. CASE \E q \in Shapes : AmCb(q) BY <1>1, AmCbSched, SMTT(30)
  <1>2. CASE WorkerStep
    BY <1>2, OpCbSched, CheckPausedSched, CheckFencedSched, SMTT(30) DEF WorkerStep
  <1>3. CASE NicStep BY <1>3, NicSched, SMTT(30)
  <1>4. CASE UNCHANGED vars BY <1>4, SMTT(30) DEF vars
  <1> QED BY <1>1, <1>2, <1>3, <1>4, SMTT(30) DEF WorkerNext

(* Every step of the worker is a step of the scheduler, or one of the NIC  *)
(* that the scheduler does not see.                                        *)
THEOREM WorkerImplementsSched == WorkerSpec => SchedSpec
  <1>1. WorkerInit => SchedInit BY Zenon DEF WorkerInit
  <1>2. [WorkerNext]_vars => [SchedNext]_schedVars BY WorkerStepSched, Zenon
  <1> QED BY <1>1, <1>2, PTL DEF WorkerSpec, SchedSpec

(* The worker respects the fence flag: a flush starts only when everything *)
(* its connection sent before it is complete.                              *)
THEOREM WorkerFence ==
    ASSUME DedicatedEps
    PROVE  WorkerSpec => []FenceRespected
  BY WorkerImplementsSched, FenceTheorem, PTL

(* The worker starts the requests of one connection in the order they      *)
(* arrived.                                                                *)
THEOREM WorkerOrder ==
    ASSUME DedicatedEps
    PROVE  WorkerSpec => []StartsInOrder
  BY WorkerImplementsSched, OrderTheorem, PTL
-----------------------------------------------------------------------------
(* A closed gate has somebody who will open it. *)

(* What a handler may do to the gate: leave it as it is, open it, or close *)
(* it and wait for the pointer.  An append that is past that stage has     *)
(* opened it.                                                              *)
GateStep(r, q, done, p) ==
    /\ \E k \in 0 .. 3 : ctx0' = [ctx0 EXCEPT ![r] = k]
    /\ p => /\ p = pause[q.client] \/ (q.op = "append" /\ ctx0'[r] = 1 /\ ~ done)
            /\ q.op = "append" /\ ctx0[r] = 1 => ctx0'[r] = 1 /\ ~ done

LEMMA FlushGate ==
    ASSUME ctx0 \in [Ids -> 0 .. 3], NEW r \in Ids, NEW q, NEW n, NEW done \in BOOLEAN,
           NEW p \in BOOLEAN, q.op = "flush", FlushProgress(r, q, n, done, p)
    PROVE  GateStep(r, q, done, p)
  <1>1. p = pause[q.client] BY Zenon DEF FlushProgress
  <1>2. \E k \in 0 .. 3 : ctx0' = [ctx0 EXCEPT ![r] = k]
    <2>0. 0 \in 0 .. 3 /\ 1 \in 0 .. 3 /\ 2 \in 0 .. 3 OBVIOUS
    <2>1. CASE Stage(r, 0, n) \/ Stage(r, 1, n) \/ Stage(r, 2, n)
      BY <2>0, <2>1, Zenon DEF Stage
    <2>2. CASE FlushRespond(r, n, done)
      BY <2>0, <2>2, Zenon DEF FlushRespond, Stage
    <2>3. CASE FlushRma(r, q, n, done)
      <3>1. Stage(r, 0, n) \/ Stage(r, 1, n) \/ FlushRespond(r, n, done)
        BY <2>3, Zenon DEF FlushRma
      <3> QED BY <2>1, <2>2, <3>1, ZenonT(20)
    <2>4. \/ Stage(r, 0, n) \/ Stage(r, 2, n)
          \/ FlushRma(r, q, n, done) \/ FlushRespond(r, n, done)
      BY Zenon DEF FlushProgress
    <2> QED BY <2>1, <2>2, <2>3, <2>4, Zenon
  <1> QED BY <1>1, <1>2, Zenon DEF GateStep

LEMMA ScatterStage ==
    ASSUME NEW r, NEW q, NEW c1, NEW n, NEW done, ScatterLoop(r, q, c1, n, done)
    PROVE  \E k \in 0 .. 3 : ctx0' = [ctx0 EXCEPT ![r] = k]
  <1>1. PICK last : ctx0' = [ctx0 EXCEPT ![r] = IF last = Len(q.iovs) THEN 1 ELSE 0]
    BY Zenon DEF ScatterLoop, ScatterPuts, Stage
  <1>2. (IF last = Len(q.iovs) THEN 1 ELSE 0) \in 0 .. 3 OBVIOUS
  <1> QED BY <1>1, <1>2, Zenon

LEMMA ScatterGate ==
    ASSUME ctx0 \in [Ids -> 0 .. 3], NEW r \in Ids, NEW q, NEW c1, NEW n, NEW done \in BOOLEAN,
           NEW p \in BOOLEAN, q.op = "scatter", ScatterProgress(r, q, c1, n, done, p)
    PROVE  GateStep(r, q, done, p)
  <1>1. p = pause[q.client] BY Zenon DEF ScatterProgress
  <1>2. \E k \in 0 .. 3 : ctx0' = [ctx0 EXCEPT ![r] = k]
    <2>1. Stage(r, 0, n) \/ Stage(r, 1, n) \/ ScatterLoop(r, q, c1, n, done)
      BY Zenon DEF ScatterProgress
    <2>2. 0 \in 0 .. 3 /\ 1 \in 0 .. 3 OBVIOUS
    <2> QED BY <2>1, <2>2, ScatterStage, Zenon DEF Stage
  <1> QED BY <1>1, <1>2, Zenon DEF GateStep

LEMMA PutStage ==
    ASSUME NEW r, NEW q, NEW a, NEW n, NEW done, AppendPut(r, q, a, n, done)
    PROVE  \E k \in 0 .. 3 : ctx0' = [ctx0 EXCEPT ![r] = k]
  BY DEF AppendPut, Stage

LEMMA CacheGate ==
    ASSUME ctx0 \in [Ids -> 0 .. 3], NEW r \in Ids, NEW q, NEW a, NEW n, NEW done \in BOOLEAN,
           NEW p \in BOOLEAN, AppendCache(r, q, a, n, done, p)
    PROVE  GateStep(r, q, done, p)
  <1>1. CASE p = FALSE /\ AppendPut(r, q, a, n, done)
    BY <1>1, PutStage, Zenon DEF GateStep
  <1>2. CASE p = pause[q.client] /\ ~ done /\ Stage(r, 1, n)
    BY <1>2 DEF GateStep, Stage
  <1> QED BY <1>1, <1>2, Zenon DEF AppendCache

LEMMA AppendGate ==
    ASSUME ctx0 \in [Ids -> 0 .. 3], NEW r \in Ids, NEW q, NEW n, NEW done \in BOOLEAN,
           NEW p \in BOOLEAN, q.op = "append", AppendProgress(r, q, n, done, p)
    PROVE  GateStep(r, q, done, p)
  <1>1. CASE ctx0[r] = 1 /\ AppendCache(r, q, ctx1[r], n, done, p)
    BY <1>1, CacheGate, Zenon
  <1>2. CASE ctx0[r] = 3 /\ p = pause[q.client] /\ Stage(r, 3, n)
    BY <1>2 DEF GateStep, Stage
  <1>3. CASE ctx0[r] = 0 /\ AppendPointer(r, q, n, done, p)
    <2>1. CASE AppendCache(r, q, cache[q.q], n, done, p)
      BY <2>1, CacheGate, Zenon
    <2>2. CASE p = pause[q.client] /\ Stage(r, 0, n)
      BY <1>3, <2>2 DEF GateStep, Stage
    <2>3. CASE p = pause[q.client] /\ AppendPut(r, q, ptr[q.q], n, done)
      BY <1>3, <2>3, PutStage DEF GateStep
    <2>4. CASE ~ done /\ p = TRUE /\ Stage(r, 1, n)
      <3>1. 1 \in 0 .. 3 /\ ctx0' = [ctx0 EXCEPT ![r] = 1] BY <2>4 DEF Stage
      <3>2. ctx0'[r] = 1 BY <3>1, Zenon
      <3> QED BY <2>4, <3>1, <3>2, Zenon DEF GateStep
    <2> QED BY <1>3, <2>1, <2>2, <2>3, <2>4, Zenon DEF AppendPointer, AppendGet
  <1> QED BY <1>1, <1>2, <1>3, Zenon DEF AppendProgress

LEMMA ProgressGate ==
    ASSUME ctx0 \in [Ids -> 0 .. 3], NEW r \in Ids, NEW q, NEW n, NEW done \in BOOLEAN,
           NEW p \in BOOLEAN, Progress(r, q, n, done, p)
    PROVE  GateStep(r, q, done, p)
  BY FlushGate, AppendGate, ScatterGate, Zenon DEF Progress

LEMMA ProgressCbGate ==
    ASSUME ctx0 \in [Ids -> 0 .. 3], NEW r \in Ids, NEW done \in BOOLEAN,
           NEW p \in BOOLEAN, ProgressCb(r, done, p)
    PROVE  GateStep(r, reqs[r], done, p)
  BY ProgressGate, ScatterGate, Zenon DEF ProgressCb

(* The handler of request r ran: what changed of the requests and gates. *)
Ran(r, q, done, p) ==
    /\ MovesTo(r, IF done THEN "freed" ELSE "active")
    /\ pause' = [pause EXCEPT ![q.client] = p]
    /\ GateStep(r, q, done, p)

LEMMA RanFrame ==
    ASSUME SchedTypeOK, NEW r \in Arrived, NEW done \in BOOLEAN, UNCHANGED reqs,
           MovesTo(r, IF done THEN "freed" ELSE "active")
    PROVE  /\ Arrived' = Arrived /\ r \in Ids /\ reqs[r].client \in Clients
           /\ \A x \in Arrived : x \in Ids /\ (x # r => where'[x] = where[x])
  <1>1. PICK w \in Places : w = IF done THEN "freed" ELSE "active" BY Zenon DEF Places
  <1>2. MovesTo(r, w) BY <1>1, Zenon
  <1>3. /\ Arrived' = Arrived
        /\ \A x \in Arrived : x \in Ids
        /\ \A x \in Ids : x # r => where'[x] = where[x]
    BY <1>2, MoveFrame, Zenon
  <1> QED BY <1>3, ReqAttributes, Zenon DEF Client

LEMMA RanGate ==
    ASSUME GateInv, NEW r \in Ids, NEW q, q.client \in Clients,
           NEW done \in BOOLEAN, NEW p \in BOOLEAN, Ran(r, q, done, p),
           r \in Arrived', Arrived \subseteq Arrived', reqs'[r] = q,
           r \in Arrived => reqs[r] = q,
           \A x \in Arrived : reqs'[x] = reqs[x] /\ x \in Ids
    PROVE  ctx0' \in [Ids -> 0 .. 3] /\ GateHeld'
  <1>1. /\ ctx0' \in [Ids -> 0 .. 3]
        /\ \A x \in Ids : x # r => ctx0'[x] = ctx0[x] /\ where'[x] = where[x]
        /\ where'[r] = IF done THEN "freed" ELSE "active"
        /\ pause'[q.client] = p
        /\ \A c \in Clients : c # q.client => pause'[c] = pause[c]
    BY Zenon DEF GateInv, SchedInv, SchedTypeOK, Ran, GateStep, MovesTo
  <1>2. ASSUME NEW c \in Clients, pause'[c]
        PROVE  \E x \in Arrived' : /\ reqs'[x].client = c /\ where'[x] = "active"
                                   /\ reqs'[x].op = "append" /\ ctx0'[x] = 1
    <2>1. CASE c = q.client /\ q.op = "append" /\ ctx0'[r] = 1 /\ ~ done
      BY <1>1, <2>1, Zenon
    <2>2. CASE pause[c]
      <3>1. PICK x \in Arrived : /\ reqs[x].client = c /\ where[x] = "active"
                                 /\ reqs[x].op = "append" /\ ctx0[x] = 1
        BY <2>2, Zenon DEF GateInv, GateHeld, Client, IsAppend
      <3>2. CASE x # r BY <1>1, <3>1, <3>2, Zenon
      <3>3. CASE x = r
        <4>1. c = q.client /\ p /\ q.op = "append" /\ ctx0[r] = 1 BY <1>1, <1>2, <3>1, <3>3, Zenon
        <4> QED BY <2>1, <4>1, Zenon DEF Ran, GateStep
      <3> QED BY <3>2, <3>3, Zenon
    <2>3. pause[c] \/ (c = q.client /\ q.op = "append" /\ ctx0'[r] = 1 /\ ~ done)
      BY <1>1, <1>2, Zenon DEF Ran, GateStep
    <2> QED BY <2>1, <2>2, <2>3, ZenonT(20)
  <1> QED BY <1>1, <1>2, Zenon DEF GateHeld, Client, IsAppend

LEMMA AmCbGate ==
    ASSUME GateInv, NEW q \in Shapes, AmCb(q)
    PROVE  ctx0' \in [Ids -> 0 .. 3] /\ GateHeld' /\ WakeHeld'
  <1> DEFINE n == Len(reqs) + 1
  <1>0. SchedTypeOK /\ ctx0 \in [Ids -> 0 .. 3] BY Zenon DEF GateInv, SchedInv
  <1>1. CASE (ReqQueuePause(q) \/ ReqQueueFence(q)) /\ UNCHANGED dataVars
    <2>1. PICK w \in {"paused", "fenced"} : Arrive(q) /\ MovesTo(n, w)
      BY <1>1, Zenon DEF ReqQueuePause, ReqQueueFence, MovesTo
    <2>2. /\ Arrived' = Arrived \cup {n} /\ at = "idle"
          /\ \A x \in Arrived : reqs'[x] = reqs[x] /\ where'[x] = where[x]
          /\ ctx0' = ctx0 /\ pause' = pause
      <3>1. w \in Places BY Zenon DEF Places
      <3>2. /\ Arrived' = Arrived \cup {n}
            /\ \A x \in Arrived : reqs'[x] = reqs[x] /\ where'[x] = where[x]
        BY <1>0, <2>1, <3>1, ArriveFrame, Zenon
      <3>3. at = "idle" BY <2>1, Zenon DEF Arrive
      <3>4. ctx0' = ctx0 BY <1>1, Zenon DEF dataVars
      <3>5. pause' = pause BY <1>1, Zenon DEF ReqQueuePause, ReqQueueFence
      <3> QED BY <3>2, <3>3, <3>4, <3>5, Zenon
    <2>3. GateHeld'
      BY <2>2 DEF GateInv, GateHeld, Client, IsAppend
    <2>4. \A c \in Clients : paused'[c] # <<>> => paused[c] # <<>> \/ pause[c]
      BY <1>0, <1>1, Zenon DEF SchedTypeOK, ReqQueuePause, ReqQueueFence, Gated
    <2>5. \A c \in Clients : paused[c] # <<>> \/ pause[c] =>
             \E x \in Arrived : reqs[x].client = c /\ where[x] = "active"
      BY <2>2, Zenon DEF GateInv, GateHeld, WakeHeld, Client
    <2>6. WakeHeld'
      BY <2>2, <2>4, <2>5 DEF WakeHeld, Client
    <2> QED BY <1>0, <2>2, <2>3, <2>6, Zenon
  <1>2. CASE \E done, p \in BOOLEAN : ReqQueueStart(q, done, p) /\ Progress(n, q, 0, done, p)
    <2>1. PICK done \in BOOLEAN, p \in BOOLEAN :
             ReqQueueStart(q, done, p) /\ Progress(n, q, 0, done, p)
      BY <1>2, Zenon
    <2>2. /\ Arrive(q) /\ at' = "idle" /\ at = "idle" /\ UNCHANGED paused
          /\ MovesTo(n, IF done THEN "freed" ELSE "active")
          /\ pause' = [pause EXCEPT ![q.client] = p]
      BY <2>1, Zenon DEF ReqQueueStart, Launch, Arrive, MovesTo
    <2>3. (IF done THEN "freed" ELSE "active") \in Places BY Zenon DEF Places
    <2>4. /\ Arrived' = Arrived \cup {n} /\ n \in Ids /\ n \notin Arrived
          /\ \A x \in Arrived : /\ reqs'[x] = reqs[x] /\ where'[x] = where[x]
                                /\ x \in Ids
          /\ reqs'[n] = q /\ q.client \in Clients
      BY <1>0, <2>2, <2>3, ArriveFrame, ArriveTypes, ZenonT(20)
    <2>5. Ran(n, q, done, p)
      BY <1>0, <2>1, <2>2, <2>4, ProgressGate, ZenonT(20) DEF Ran
    <2>6. ctx0' \in [Ids -> 0 .. 3] /\ GateHeld'
      BY <2>4, <2>5, RanGate, Zenon
    <2>7. WakeHeld'
      BY <2>2, <2>4 DEF GateInv, WakeHeld, Client
    <2> QED BY <2>6, <2>7, Zenon
  <1> QED BY <1>1, <1>2, Zenon DEF AmCb

LEMMA OpCbGate ==
    ASSUME GateInv, NEW r \in Arrived, OpCb(r)
    PROVE  ctx0' \in [Ids -> 0 .. 3] /\ GateHeld' /\ WakeHeld'
  <1>0. SchedTypeOK /\ ctx0 \in [Ids -> 0 .. 3] BY Zenon DEF GateInv, SchedInv
  <1>1. PICK p \in BOOLEAN, done \in BOOLEAN :
           /\ ProgressCb(r, done, p)
           /\ done => OpCbComplete(r, p)
           /\ ~ done => OpCbContinue(r, p)
    BY Zenon DEF OpCb
  <1>2. /\ MovesTo(r, IF done THEN "freed" ELSE "active")
        /\ pause' = [pause EXCEPT ![reqs[r].client] = p]
        /\ UNCHANGED <<reqs, paused>> /\ at = "idle"
        /\ IF done THEN at' = "check_paused" /\ cur' = r ELSE UNCHANGED <<where, at, cur>>
    BY <1>0, <1>1, Zenon DEF OpCbComplete, OpCbContinue, MovesTo, Client, SchedTypeOK
  <1>4. /\ Arrived' = Arrived /\ r \in Ids /\ reqs[r].client \in Clients
        /\ \A x \in Arrived : x \in Ids /\ (x # r => where'[x] = where[x])
    BY <1>0, <1>2, RanFrame, ZenonT(20)
  <1>5. ctx0' \in [Ids -> 0 .. 3] /\ GateHeld'
    <2>1. GateStep(r, reqs[r], done, p) BY <1>0, <1>1, <1>4, ProgressCbGate, Zenon
    <2>2. Ran(r, reqs[r], done, p) BY <1>2, <2>1, Zenon DEF Ran
    <2> QED BY <1>2, <1>4, <2>2, RanGate, ZenonT(20)
  <1>6. WakeHeld'
    BY <1>2, <1>4 DEF GateInv, WakeHeld, Client
  <1> QED BY <1>5, <1>6, Zenon

(* One turn of the loop of check_paused, which takes request r off the list. *)
LEMMA LoopWakes ==
    ASSUME SchedTypeOK, WakeHeld, UNCHANGED <<reqs, at, cur>>, at = "check_paused",
           NEW c \in Clients, c = reqs[cur].client, NEW r, reqs[r].client = c,
           Arrived' = Arrived, \A x \in Arrived : x # r => where'[x] = where[x],
           paused' = [paused EXCEPT ![c] = Tail(@)]
    PROVE  WakeHeld'
  <1>1. ASSUME NEW d \in Clients, paused'[d] # <<>>, d # c
        PROVE  \E x \in Arrived' : reqs'[x].client = d /\ where'[x] = "active"
    <2>1. paused[d] # <<>> BY <1>1, Zenon DEF SchedTypeOK
    <2>2. PICK x \in Arrived : reqs[x].client = d /\ where[x] = "active"
      BY <1>1, <2>1, Zenon DEF WakeHeld, Client
    <2> QED BY <1>1, <2>2, Zenon
  <1> QED BY <1>1, Zenon DEF WakeHeld, Client

LEMMA CheckPausedGate ==
    ASSUME GateInv, CheckPaused
    PROVE  ctx0' \in [Ids -> 0 .. 3] /\ GateHeld' /\ WakeHeld'
  <1> DEFINE c == Client(cur)
             h == Head(paused[c])
  <1>0. SchedInv /\ SchedTypeOK /\ ctx0 \in [Ids -> 0 .. 3] BY Zenon DEF GateInv, SchedInv
  <1>1. at = "check_paused" /\ cur \in Arrived /\ c \in Clients
    <2>1. at = "check_paused"
      BY Zenon DEF CheckPaused, CheckPausedFence, CheckPausedEnd, CheckPausedStart
    <2> QED BY <1>0, <2>1, CurArrived, Zenon
  <1>2. CASE CheckPausedEnd /\ UNCHANGED dataVars
    <2>1. /\ UNCHANGED <<reqs, where, paused, pause, cur, ctx0>> /\ at' = "check_fenced"
          /\ pause[c] \/ paused[c] = <<>>
      BY <1>2, Zenon DEF CheckPausedEnd, PausedMore, dataVars
    <2>2. GateHeld' BY <2>1, ZenonT(20) DEF GateInv, GateHeld, Client, IsAppend, Arrived
    <2>3. WakeHeld' BY <1>1, <2>1 DEF GateInv, GateHeld, WakeHeld, Client, Arrived
    <2> QED BY <1>0, <2>1, <2>2, <2>3, ZenonT(20)
  <1>3. CASE CheckPausedFence /\ UNCHANGED dataVars
    <2>1. /\ UNCHANGED <<reqs, pause, at, cur, ctx0>> /\ MovesTo(h, "fenced")
          /\ ~ pause[c] /\ paused[c] # <<>>
          /\ paused' = [paused EXCEPT ![c] = Tail(@)]
      BY <1>3, Zenon DEF CheckPausedFence, PausedMore, dataVars, MovesTo
    <2>2. h \in Arrived /\ Client(h) = c BY <1>0, <1>1, <2>1, PausedHead, ZenonT(20)
    <2>3. /\ Arrived' = Arrived
          /\ \A x \in Arrived : x # h => where'[x] = where[x]
      BY <1>0, <2>1, <2>2, MoveFrame, ZenonT(20) DEF Places
    <2>4. GateHeld'
      <3> SUFFICES ASSUME NEW d \in Clients, pause[d]
                   PROVE  \E x \in Arrived : /\ reqs[x].client = d /\ where'[x] = "active"
                                             /\ reqs[x].op = "append" /\ ctx0[x] = 1
        BY <2>1, <2>3, Zenon DEF GateHeld, Client, IsAppend
      <3>1. PICK x \in Arrived : /\ reqs[x].client = d /\ where[x] = "active"
                                 /\ reqs[x].op = "append" /\ ctx0[x] = 1
        BY Zenon DEF GateInv, GateHeld, Client, IsAppend
      <3>2. x # h BY <2>1, <2>2, <3>1, Zenon DEF Client
      <3> QED BY <2>3, <3>1, <3>2, Zenon
    <2>5. WakeHeld' BY <1>0, <1>1, <2>1, <2>2, <2>3, LoopWakes, Zenon DEF GateInv, Client
    <2> QED BY <1>0, <2>1, <2>4, <2>5, ZenonT(20)
  <1>4. ASSUME NEW r \in Arrived, NEW done \in BOOLEAN, NEW p \in BOOLEAN,
               CheckPausedStart(r, done, p), Progress(r, reqs[r], 0, done, p)
        PROVE  ctx0' \in [Ids -> 0 .. 3] /\ GateHeld' /\ WakeHeld'
    <2>1. /\ UNCHANGED <<reqs, at, cur>>
          /\ MovesTo(r, IF done THEN "freed" ELSE "active")
          /\ pause' = [pause EXCEPT ![reqs[r].client] = p]
          /\ paused[c] # <<>> /\ r = h
          /\ paused' = [paused EXCEPT ![c] = Tail(@)]
      BY <1>4, Zenon DEF CheckPausedStart, PausedMore, Launch, MovesTo
    <2>3. Client(r) = c BY <1>0, <1>1, <2>1, PausedHead, ZenonT(20)
    <2>4. /\ Arrived' = Arrived /\ r \in Ids /\ reqs[r].client \in Clients
          /\ \A x \in Arrived : x \in Ids /\ (x # r => where'[x] = where[x])
      BY <1>0, <2>1, RanFrame, ZenonT(20)
    <2>5. ctx0' \in [Ids -> 0 .. 3] /\ GateHeld'
      <3>1. GateStep(r, reqs[r], done, p) BY <1>0, <1>4, <2>4, ProgressGate, ZenonT(20)
      <3>2. Ran(r, reqs[r], done, p) BY <2>1, <3>1, ZenonT(40) DEF Ran
      <3> QED BY <2>1, <2>4, <3>2, RanGate, ZenonT(20)
    <2>6. WakeHeld' BY <1>0, <1>1, <2>1, <2>3, <2>4, LoopWakes, Zenon DEF GateInv, Client
    <2> QED BY <2>5, <2>6, ZenonT(20)
  <1> QED BY <1>2, <1>3, <1>4, Zenon DEF CheckPaused

LEMMA CheckFencedGate ==
    ASSUME GateInv, CheckFenced
    PROVE  ctx0' \in [Ids -> 0 .. 3] /\ GateHeld' /\ WakeHeld'
  <1>0. SchedInv /\ SchedTypeOK /\ ctx0 \in [Ids -> 0 .. 3] BY Zenon DEF GateInv, SchedInv
  <1>1. CASE (CheckFencedEnter \/ CheckFencedEnd) /\ UNCHANGED dataVars
    <2>1. /\ UNCHANGED <<reqs, where, paused, pause, cur, ctx0>>
          /\ at # "check_paused" /\ at' # "check_paused"
      BY <1>1, ZenonT(20) DEF CheckFencedEnter, CheckFencedEnd, dataVars
    <2>2. GateHeld' BY <2>1, Zenon DEF GateInv, GateHeld, Client, IsAppend, Arrived
    <2>3. WakeHeld' BY <2>1, ZenonT(20) DEF GateInv, WakeHeld, Client, Arrived
    <2> QED BY <1>0, <2>1, <2>2, <2>3, ZenonT(20)
  <1>2. ASSUME NEW r \in Arrived, NEW done \in BOOLEAN, NEW p \in BOOLEAN,
               CheckFencedStart(r, done, p), Progress(r, reqs[r], 0, done, p)
        PROVE  ctx0' \in [Ids -> 0 .. 3] /\ GateHeld' /\ WakeHeld'
    <2>1. /\ UNCHANGED <<reqs, paused, at, cur>> /\ at = "fenced_loop"
          /\ MovesTo(r, IF done THEN "freed" ELSE "active")
          /\ pause' = [pause EXCEPT ![reqs[r].client] = p]
          /\ fenced[Ep(cur)] # <<>> /\ r = Head(fenced[Ep(cur)])
      BY <1>2, ZenonT(20) DEF CheckFencedStart, FencedMore, Launch, MovesTo
    <2>3. cur \in Arrived /\ Ep(cur) \in Eps
      BY <1>0, <2>1, CurArrived, Zenon
    <2>4. where[r] = "fenced" BY <1>0, <2>1, <2>3, FencedHead, ZenonT(20)
    <2>5. /\ Arrived' = Arrived /\ r \in Ids /\ reqs[r].client \in Clients
          /\ \A x \in Arrived : x \in Ids /\ (x # r => where'[x] = where[x])
      BY <1>0, <2>1, RanFrame, ZenonT(20)
    <2>6. ctx0' \in [Ids -> 0 .. 3] /\ GateHeld'
      <3>1. GateStep(r, reqs[r], done, p) BY <1>0, <1>2, <2>5, ProgressGate, Zenon
      <3>2. Ran(r, reqs[r], done, p) BY <2>1, <3>1, ZenonT(40) DEF Ran
      <3> QED BY <2>1, <2>5, <3>2, RanGate, ZenonT(20)
    <2>7. WakeHeld' BY ONLY GateInv, <2>1, <2>4, <2>5, SMTT(30), Z3T(30) DEF GateInv, WakeHeld, Client
    <2> QED BY <2>6, <2>7, ZenonT(20)
  <1> QED BY <1>1, <1>2, Zenon DEF CheckFenced

LEMMA QuietGate ==
    ASSUME GateInv, UNCHANGED <<schedVars, ctx0>>
    PROVE  ctx0' \in [Ids -> 0 .. 3] /\ GateHeld' /\ WakeHeld'
  <1>1. UNCHANGED <<reqs, where, paused, pause, at, cur, ctx0>> /\ Arrived' = Arrived /\ Ids' = Ids
    BY Zenon DEF schedVars, Arrived, Ids
  <1>2. GateHeld'
    <2>1. GateHeld BY Zenon DEF GateInv
    <2> QED BY ONLY <1>1, <2>1 DEF GateHeld, Client, IsAppend
  <1>3. WakeHeld' BY <1>1, Zenon DEF GateInv, WakeHeld, Client
  <1> QED BY <1>1, <1>2, <1>3, Zenon DEF GateInv

(* The gate and the wake-ups of the worker, whichever call fails: a gate is *)
(* closed only while an append of its client waits for the pointer.         *)
THEOREM WorkerGates ==
    ASSUME DedicatedEps
    PROVE  WorkerSpec => []GateInv
  <1>1. WorkerInit => GateInv
    <2> SUFFICES ASSUME WorkerInit PROVE GateInv BY Zenon
    <2>1. SchedInv BY InvInit, Zenon DEF WorkerInit
    <2> QED BY <2>1 DEF WorkerInit, SchedInit, GateInv, GateHeld, WakeHeld
  <1>2. GateInv /\ [WorkerNext]_vars => GateInv'
    <2> SUFFICES ASSUME GateInv, [WorkerNext]_vars PROVE GateInv' BY Zenon
    <2>1. SchedInv' BY WorkerStepSched, InvStep, Zenon DEF GateInv
    <2>2. CASE \E q \in Shapes : AmCb(q) BY <2>1, <2>2, AmCbGate, Zenon DEF GateInv
    <2>3. CASE \E r \in Arrived : OpCb(r) BY <2>1, <2>3, OpCbGate, Zenon DEF GateInv
    <2>4. CASE CheckPaused BY <2>1, <2>4, CheckPausedGate, Zenon DEF GateInv
    <2>5. CASE CheckFenced BY <2>1, <2>5, CheckFencedGate, Zenon DEF GateInv
    <2>6. CASE NicStep
      <3>1. UNCHANGED <<schedVars, ctx0>>
        BY <2>6, NicSched, Zenon
      <3> QED BY <2>1, <3>1, QuietGate, ZenonT(20) DEF GateInv
    <2>7. CASE UNCHANGED vars
      <3>1. UNCHANGED <<schedVars, ctx0>> BY <2>7, Zenon DEF vars, dataVars
      <3> QED BY <2>1, <3>1, QuietGate, ZenonT(20) DEF GateInv
    <2> QED BY <2>2, <2>3, <2>4, <2>5, <2>6, <2>7, ZenonT(20) DEF WorkerNext, WorkerStep
  <1> QED BY <1>1, <1>2, PTL DEF WorkerSpec

(* No request is left on paused_ops with nobody to release it: between     *)
(* handlers, a client with paused requests has an outstanding one, whose   *)
(* completion runs check_paused.                                           *)
THEOREM WorkerPausedHeld ==
    ASSUME DedicatedEps
    PROVE  WorkerSpec => []PausedHeld
  <1>1. GateInv => PausedHeld BY Zenon DEF GateInv, WakeHeld, PausedHeld
  <1> QED BY <1>1, WorkerGates, PTL

-----------------------------------------------------------------------------
(* Which completions are to come: QuietInv is inductive, given GateInv. *)

(* The handler of r is started. *)
LEMMA StartQuiet ==
    ASSUME QuietInv, NEW r \in Ids, NEW q \in Shapes, NEW done \in BOOLEAN, NEW p,
           Progress(r, q, 0, done, p), ~ Started(r), RanFrom(r, q, done),
           SchedTypeOK', ctx0' \in [Ids -> 0 .. 3]
    PROVE  QuietInv'
  <1>1. Unawaited(r) BY NotAwaited, Zenon DEF Started
  <1>2. WorkerTypeOK /\ r \notin rndv /\ ctx1[r] = 0
    BY <1>1, Zenon DEF QuietInv, Completions, Unawaited
  <1>3. QuietStep(r, q, done) /\ TypedStep(r) BY <1>2, ProgressQuiet, Zenon
  <1> QED BY <1>1, <1>3, RanQuiet, Zenon

LEMMA AmCbQuiet ==
    ASSUME QuietInv, GateInv, NEW q \in Shapes, AmCb(q), SchedTypeOK', ctx0' \in [Ids -> 0 .. 3]
    PROVE  QuietInv'
  <1> DEFINE n == Len(reqs) + 1
  <1>0. SchedTypeOK /\ Parked BY Zenon DEF GateInv, SchedInv
  <1>1. \A x \in Ids : x \notin Arrived => where[x] = "none"
    BY <1>0, NotArrived, Zenon
  <1>2. ASSUME NEW w \in Places, Arrive(q), MovesTo(n, w)
        PROVE  /\ Arrived' = Arrived \cup {n} /\ n \in Ids /\ n \notin Arrived
               /\ \A x \in Arrived : reqs'[x] = reqs[x] /\ x \in Ids
               /\ reqs'[n] = q /\ where'[n] = w /\ where[n] = "none"
               /\ \A x \in Ids : x # n => where'[x] = where[x]
    BY <1>0, <1>1, <1>2, ArriveFrame, SMTT(30)
  <1>3. CASE (ReqQueuePause(q) \/ ReqQueueFence(q)) /\ UNCHANGED dataVars
    <2>1. PICK w \in {"paused", "fenced"} : Arrive(q) /\ MovesTo(n, w)
      BY <1>3, Zenon DEF ReqQueuePause, ReqQueueFence, MovesTo
    <2>2. w \in Places BY Zenon DEF Places
    <2>3. /\ Arrived \subseteq Arrived' /\ \A x \in Arrived : reqs'[x] = reqs[x]
          /\ \A x \in Ids : \/ where'[x] = where[x]
                            \/ ~ Started(x) /\ where'[x] \notin {"active", "freed"}
      BY <1>2, <2>1, <2>2, Zenon DEF Started
    <2> QED BY <1>0, <1>3, <2>3, ParkQuiet, Zenon
  <1>4. CASE \E done, p \in BOOLEAN : ReqQueueStart(q, done, p) /\ Progress(n, q, 0, done, p)
    <2>1. PICK done \in BOOLEAN, p \in BOOLEAN :
             ReqQueueStart(q, done, p) /\ Progress(n, q, 0, done, p)
      BY <1>4, Zenon
    <2>2. Arrive(q) /\ MovesTo(n, IF done THEN "freed" ELSE "active")
      BY <2>1, Zenon DEF ReqQueueStart, Launch, MovesTo
    <2>3. (IF done THEN "freed" ELSE "active") \in Places BY Zenon DEF Places
    <2>4. RanFrom(n, q, done) /\ ~ Started(n) /\ n \in Ids
      BY <1>1, <1>2, <2>2, <2>3, Zenon DEF RanFrom, Started
    <2> QED BY <2>1, <2>4, StartQuiet, Zenon
  <1> QED BY <1>3, <1>4, Zenon DEF AmCb

(* The frame of a handler that runs for a request that has arrived. *)
LEMMA ParkedFrom ==
    ASSUME SchedTypeOK, Parked, NEW r \in Arrived, NEW done \in BOOLEAN,
           MovesTo(r, IF done THEN "freed" ELSE "active"), UNCHANGED reqs
    PROVE  RanFrom(r, reqs[r], done)
  <1>1. PICK w \in Places : w = IF done THEN "freed" ELSE "active" BY Zenon DEF Places
  <1>2. MovesTo(r, w) BY <1>1, Zenon
  <1>3. /\ Arrived' = Arrived
        /\ \A x \in Arrived : x \in Ids /\ where'[x] = IF x = r THEN w ELSE where[x]
        /\ \A x \in Ids : x # r => where'[x] = where[x]
    BY <1>2, MoveFrame, Zenon
  <1>4. \A x \in Ids : x \notin Arrived => where[x] = "none"
    BY NotArrived, Zenon
  <1> QED BY <1>1, <1>3, <1>4, Zenon DEF RanFrom

LEMMA StillQuiet ==
    ASSUME QuietInv, Parked, SchedTypeOK', UNCHANGED <<reqs, where>>, UNCHANGED dataVars
    PROVE  QuietInv'
  BY ParkQuiet, Zenon DEF Arrived

LEMMA OpCbQuiet ==
    ASSUME QuietInv, GateInv, NEW r \in Arrived, OpCb(r), SchedTypeOK', ctx0' \in [Ids -> 0 .. 3]
    PROVE  QuietInv'
  <1>0. SchedTypeOK /\ Parked /\ WorkerTypeOK BY Zenon DEF GateInv, SchedInv, QuietInv
  <1>1. PICK p \in BOOLEAN, done \in BOOLEAN :
           /\ ProgressCb(r, done, p)
           /\ done => OpCbComplete(r, p)
           /\ ~ done => OpCbContinue(r, p)
    BY Zenon DEF OpCb
  <1>2. /\ MovesTo(r, IF done THEN "freed" ELSE "active") /\ UNCHANGED reqs
    BY <1>0, <1>1, Zenon DEF OpCbComplete, OpCbContinue, MovesTo, SchedTypeOK
  <1>3. comp[r] > 0 BY Zenon DEF OpCb
  <1>4. r \in Ids /\ reqs[r] \in Shapes BY <1>0, ReqAttributes, Zenon
  <1>5. RanFrom(r, reqs[r], done) BY <1>0, <1>2, ParkedFrom, Zenon
  <1>6. Unawaited(r) BY <1>3, NotAwaited, Zenon
  <1>7. Counts(reqs[r], ctx1[r], comp[r]) BY <1>4, Zenon DEF QuietInv, Completions
  <1>8. r \notin rndv BY <1>6, Zenon DEF Unawaited
  <1>9. QuietStep(r, reqs[r], done) /\ TypedStep(r)
    BY <1>0, <1>1, <1>3, <1>4, <1>7, <1>8, ProgressCbQuiet, Zenon
  <1> QED BY <1>4, <1>5, <1>6, <1>9, RanQuiet, Zenon

LEMMA CheckPausedQuiet ==
    ASSUME QuietInv, GateInv, CheckPaused, SchedTypeOK', ctx0' \in [Ids -> 0 .. 3]
    PROVE  QuietInv'
  <1> DEFINE c == Client(cur)
             h == Head(paused[c])
  <1>0. SchedInv /\ SchedTypeOK /\ Parked BY Zenon DEF GateInv, SchedInv
  <1>1. cur \in Arrived /\ c \in Clients
    <2>1. at = "check_paused"
      BY Zenon DEF CheckPaused, CheckPausedFence, CheckPausedEnd, CheckPausedStart
    <2> QED BY <1>0, <2>1, CurArrived, Zenon
  <1>2. CASE CheckPausedEnd /\ UNCHANGED dataVars
    <2>1. UNCHANGED <<reqs, where>> BY <1>2, Zenon DEF CheckPausedEnd
    <2> QED BY <1>0, <1>2, <2>1, StillQuiet
  <1>3. CASE CheckPausedFence /\ UNCHANGED dataVars
    <2>1. UNCHANGED reqs /\ MovesTo(h, "fenced") /\ paused[c] # <<>>
      BY <1>3, Zenon DEF CheckPausedFence, PausedMore, MovesTo
    <2>2. h \in Arrived /\ where[h] = "paused" BY <1>0, <1>1, <2>1, PausedHead, ZenonT(20)
    <2>3. /\ Arrived' = Arrived /\ h \in Ids /\ where'[h] = "fenced"
          /\ \A x \in Ids : x # h => where'[x] = where[x]
      BY <1>0, <2>1, <2>2, MoveFrame, ReqAttributes, Zenon DEF Places
    <2>4. \A x \in Ids : \/ where'[x] = where[x]
                         \/ ~ Started(x) /\ where'[x] \notin {"active", "freed"}
      BY <2>2, <2>3, Zenon DEF Started
    <2> QED BY <1>0, <1>3, <2>1, <2>3, <2>4, ParkQuiet, Zenon
  <1>4. ASSUME NEW r \in Arrived, NEW done \in BOOLEAN, NEW p \in BOOLEAN,
               CheckPausedStart(r, done, p), Progress(r, reqs[r], 0, done, p)
        PROVE  QuietInv'
    <2>1. /\ UNCHANGED reqs /\ MovesTo(r, IF done THEN "freed" ELSE "active")
          /\ paused[c] # <<>> /\ r = h
      BY <1>4, Zenon DEF CheckPausedStart, PausedMore, Launch, MovesTo
    <2>2. where[r] = "paused" BY <1>0, <1>1, <2>1, PausedHead, ZenonT(20)
    <2>3. r \in Ids /\ reqs[r] \in Shapes /\ ~ Started(r) BY <1>0, <2>2, ReqAttributes, Zenon DEF Started
    <2>4. RanFrom(r, reqs[r], done) BY <1>0, <2>1, ParkedFrom, Zenon
    <2> QED BY <1>4, <2>3, <2>4, StartQuiet, Zenon
  <1> QED BY <1>2, <1>3, <1>4, Zenon DEF CheckPaused

LEMMA CheckFencedQuiet ==
    ASSUME QuietInv, GateInv, CheckFenced, SchedTypeOK', ctx0' \in [Ids -> 0 .. 3]
    PROVE  QuietInv'
  <1>0. SchedInv /\ SchedTypeOK /\ Parked BY Zenon DEF GateInv, SchedInv
  <1>1. CASE (CheckFencedEnter \/ CheckFencedEnd) /\ UNCHANGED dataVars
    <2>1. UNCHANGED <<reqs, where>> BY <1>1, Zenon DEF CheckFencedEnter, CheckFencedEnd
    <2> QED BY <1>0, <1>1, <2>1, StillQuiet, Zenon
  <1>2. ASSUME NEW r \in Arrived, NEW done \in BOOLEAN, NEW p \in BOOLEAN,
               CheckFencedStart(r, done, p), Progress(r, reqs[r], 0, done, p)
        PROVE  QuietInv'
    <2>1. /\ UNCHANGED reqs /\ MovesTo(r, IF done THEN "freed" ELSE "active")
          /\ at = "fenced_loop" /\ fenced[Ep(cur)] # <<>> /\ r = Head(fenced[Ep(cur)])
      BY <1>2, Zenon DEF CheckFencedStart, FencedMore, Launch, MovesTo
    <2>2. cur \in Arrived /\ Ep(cur) \in Eps
      BY <1>0, <2>1, CurArrived, Zenon
    <2>3. where[r] = "fenced" BY <1>0, <2>1, <2>2, FencedHead, ZenonT(20)
    <2>4. r \in Ids /\ reqs[r] \in Shapes /\ ~ Started(r) BY <1>0, <2>3, ReqAttributes, Zenon DEF Started
    <2>5. RanFrom(r, reqs[r], done) BY <1>0, <2>1, ParkedFrom, Zenon
    <2> QED BY <1>2, <2>4, <2>5, StartQuiet, Zenon
  <1> QED BY <1>1, <1>2, Zenon DEF CheckFenced

LEMMA QuietInit == ASSUME WorkerInit PROVE QuietInv
  <1>1. SchedTypeOK BY TypeInit, Zenon DEF WorkerInit
  <1>2. reqs = <<>> /\ where = [r \in Ids |-> "none"] BY Zenon DEF WorkerInit, SchedInit
  <1>3. Arrived = {} BY <1>2 DEF Arrived
  <1>4. WorkerTypeOK BY <1>1 DEF WorkerInit, WorkerTypeOK, NotCached
  <1>5. \A c \in Clients : DOMAIN rma[c] = {} BY DEF WorkerInit
  <1>6. PostedArrived /\ OneAwaited BY <1>5, Zenon DEF PostedArrived, OneAwaited
  <1>7. OneFetch BY Zenon DEF WorkerInit, OneFetch
  <1>8. Completions BY <1>2, <1>3, Zenon DEF WorkerInit, Completions
  <1> QED BY <1>4, <1>6, <1>7, <1>8, Zenon DEF QuietInv

(* The completions of the worker, whichever call fails: each one that is to *)
(* come belongs to a request that is outstanding and waits for it.          *)
THEOREM WorkerQuiet ==
    ASSUME DedicatedEps
    PROVE  WorkerSpec => []QuietInv
  <1>1. WorkerInit => QuietInv BY QuietInit, Zenon
  <1>2. QuietInv /\ GateInv /\ GateInv' /\ [WorkerNext]_vars => QuietInv'
    <2> SUFFICES ASSUME QuietInv, GateInv, GateInv', [WorkerNext]_vars PROVE QuietInv' BY Zenon
    <2>1. SchedTypeOK' /\ ctx0' \in [Ids -> 0 .. 3] BY Zenon DEF GateInv, SchedInv, Ids
    <2>2. CASE \E q \in Shapes : AmCb(q) BY <2>1, <2>2, AmCbQuiet, Zenon
    <2>3. CASE \E r \in Arrived : OpCb(r) BY <2>1, <2>3, OpCbQuiet, Zenon
    <2>4. CASE CheckPaused BY <2>1, <2>4, CheckPausedQuiet, Zenon
    <2>5. CASE CheckFenced BY <2>1, <2>5, CheckFencedQuiet, Zenon
    <2>6. CASE NicStep BY <2>6, RmaQuiet, RndvQuiet, Zenon DEF NicStep
    <2>7. CASE UNCHANGED vars
      <3>1. UNCHANGED <<reqs, where>> /\ UNCHANGED dataVars BY <2>7, Zenon DEF vars, schedVars
      <3> QED BY <2>1, <3>1, StillQuiet, Zenon DEF GateInv, SchedInv
    <2> QED BY <2>2, <2>3, <2>4, <2>5, <2>6, <2>7, ZenonT(20) DEF WorkerNext, WorkerStep
  <1> QED BY <1>1, <1>2, WorkerGates, PTL DEF WorkerSpec

(* The type invariant of the worker's handlers. *)
THEOREM WorkerTypeCorrect ==
    ASSUME DedicatedEps
    PROVE  WorkerSpec => []WorkerTypeOK
  <1>1. QuietInv => WorkerTypeOK BY Zenon DEF QuietInv
  <1> QED BY <1>1, WorkerQuiet, PTL

(* "Stage 3: Wait for all completions": urom_worker_rdmo_op_cb frees no     *)
(* request that UCX will still report a completion to, as long as no scatter *)
(* names an unregistered region.                                            *)
THEOREM WorkerFreedIsQuiet ==
    ASSUME DedicatedEps, \A q \in Shapes : ~ Cut(q)
    PROVE  WorkerSpec => []FreedIsQuiet
  <1>1. QuietInv => FreedIsQuiet
    <2> SUFFICES ASSUME QuietInv, NEW r \in Arrived, where[r] = "freed" PROVE comp[r] = 0
      BY Zenon DEF FreedIsQuiet
    <2>1. r \in Ids /\ reqs[r] \in Shapes BY ReqAttributes, Zenon DEF QuietInv, WorkerTypeOK
    <2> QED BY <2>1, Zenon DEF QuietInv, Completions
  <1> QED BY <1>1, WorkerQuiet, PTL
=============================================================================
