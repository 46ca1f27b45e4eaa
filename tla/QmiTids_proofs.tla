---------------------------- MODULE QmiTids_proofs -----------------------------
(* Proofs about the transaction ids of uqmid's requests, for any width of    *)
(* the counters: a request has its id exactly once it is transmitted, and no *)
(* id is shared before its service has used them all.                        *)
EXTENDS QmiClosing_proofs

-----------------------------------------------------------------------------
(* What a step transmits.                                                    *)

(* Phases that no request reaches but by transmission.                      *)
PhasesKept(U) ==
    \A q \in Request \ U :
        /\ phase'[q] \in {"new", "queued"} => phase[q] \in {"new", "queued"}
        /\ phase'[q] = "pending" => phase[q] = "pending"

(* The requests of service s in U are transmitted, in the order of rank.    *)
Sending(s, U, rank) ==
    /\ s \in AllServices /\ U \in SUBSET Request /\ rank \in [U -> 1 .. Cardinality(U)]
    /\ \A p, q \in U : rank[p] = rank[q] => p = q
    /\ \A q \in U : To(q) = s /\ phase[q] \in {"new", "queued"} /\ phase'[q] = "pending"
    /\ tid' = [tid EXCEPT ![s] = TidAfter(s, @, Cardinality(U))]
    /\ reqTid' = [q \in Request |-> IF q \in U THEN TidAfter(s, tid[s], rank[q]) ELSE reqTid[q]]
    /\ lapped' = (lapped \/ TidCollision')
    /\ PhasesKept(U)

(* Nothing is transmitted; a service is created with its counter at 0       *)
(* before any request was issued on it.                                     *)
Silent ==
    /\ UNCHANGED <<reqTid, lapped>>
    /\ \A s \in AllServices : \/ tid'[s] = tid[s]
                              \/ /\ tid'[s] = 0
                                 /\ \A q \in Request : To(q) = s => phase[q] = "new"
    /\ PhasesKept({})

(* Requests on a list are transmitted one by one.                           *)
LEMMA WalkRanks ==
  ASSUME NEW list, NEW U, \A q \in U : Contains(list, q),
         NEW rank \in WalkOrders(list, U), Len(list) \in Nat
  PROVE  /\ rank \in [U -> 1 .. Cardinality(U)]
         /\ \A p, q \in U : rank[p] = rank[q] => p = q
<1>1. rank \in [U -> 1 .. Cardinality(U)]
  BY DEF WalkOrders
<1>2. \A p, q \in U : Ahead(list, p, q) => rank[p] < rank[q]
  BY DEF WalkOrders
<1>3. ASSUME NEW p \in U, NEW q \in U, p # q PROVE Ahead(list, p, q) \/ Ahead(list, q, p)
  <2>1. PICK i \in 1 .. Len(list), j \in 1 .. Len(list) : list[i] = p /\ list[j] = q
    BY DEF Contains
  <2>2. i < j \/ j < i
    BY <1>3, <2>1
  <2>3. QED
    BY <2>1, <2>2 DEF Ahead, Positions
<1>4. ASSUME NEW p \in U, NEW q \in U, rank[p] = rank[q], p # q PROVE FALSE
  <2>1. rank[p] \in Int /\ rank[q] \in Int
    BY <1>1
  <2>2. rank[p] < rank[q] \/ rank[q] < rank[p]
    BY <1>2, <1>3, <1>4
  <2>3. QED
    BY <1>4, <2>1, <2>2
<1>5. QED
  BY <1>1, <1>4

(* Pushing gives every request a rank of its own.                           *)
LEMMA PushRanks ==
  ASSUME NEW U, NEW rank \in PushOrders(U)
  PROVE  /\ rank \in [U -> 1 .. Cardinality(U)]
         /\ \A p, q \in U : rank[p] = rank[q] => p = q
  BY DEF PushOrders, Bijection, Injection, IsInjective

(* A single request has rank 1.                                             *)
LEMMA AloneRanks ==
  ASSUME NEW q
  PROVE  /\ Alone(q) \in [{q} -> 1 .. Cardinality({q})]
         /\ \A p, r \in {q} : Alone(q)[p] = Alone(q)[r] => p = r
<1>1. Cardinality({q}) = 1
  BY FS_Singleton
<1>2. QED
  BY <1>1 DEF Alone

(* A transmission with ranks of its own is one of the kind above.           *)
LEMMA TransmitSends ==
  ASSUME TypeOK, NEW s \in AllServices, NEW U \in SUBSET Request,
         NEW rank \in [U -> 1 .. Cardinality(U)],
         \A p, q \in U : rank[p] = rank[q] => p = q,
         \A q \in U : To(q) = s /\ phase[q] \in {"new", "queued"},
         NEW c, NEW ph, Transmit(s, rank, c, ph),
         \A q \in Request \ U : /\ ph[q] \in {"new", "queued"} => phase[q] \in {"new", "queued"}
                                /\ ph[q] = "pending" => phase[q] = "pending"
  PROVE  Sending(s, U, rank)
<1>1. DOMAIN rank = U
  OBVIOUS
<1>2. /\ phase' = [q \in Request |-> IF q \in U THEN "pending" ELSE ph[q]]
      /\ reqTid' = [q \in Request |-> IF q \in U THEN TidAfter(s, tid[s], rank[q]) ELSE reqTid[q]]
      /\ tid' = [tid EXCEPT ![s] = TidAfter(s, @, Cardinality(U))]
      /\ lapped' = (lapped \/ TidCollision')
  BY <1>1 DEF Transmit
<1>3. PhasesKept(U)
  BY <1>2 DEF PhasesKept
<1>4. \A q \in U : phase'[q] = "pending"
  BY <1>2
<1>5. QED
  BY <1>2, <1>3, <1>4 DEF Sending

(* Every step transmits requests of one service, or none.                   *)
LEMMA StepSends ==
  ASSUME TypeOK, ListsAreExact, LifeStages, NoneStranded, [Next]_vars
  PROVE  Silent \/ \E s, U, rank : Sending(s, U, rank)
<1> USE DEF svcVars, reqVars, devVars, modemVars
<1>1. ASSUME NEW c \in Calls, SendCall(c) PROVE \E s, U, rank : Sending(s, U, rank)
  <2> DEFINE s == Target[c]
             q == Call(c)
             queued == [phase EXCEPT ![q] = "queued"]
  <2>1. /\ s \in AllServices /\ q \in Request /\ phase[q] = "new" /\ To(q) = s
        /\ CTL \in AllServices
    BY <1>1, RequestFacts DEF AllServices, SendCall
  <2>2. \A p \in Request : queued[p] = IF p = q THEN "queued" ELSE phase[p]
    BY <2>1 DEF TypeOK
  <2>3. CASE state[s] = "IDLE"
    <3>1. /\ Transmit(CTL, Alone(Alloc(s)), NoCid, queued)
          /\ Alloc(s) \in Request /\ phase[Alloc(s)] = "new" /\ To(Alloc(s)) = CTL
      BY <1>1, <2>1, <2>3, RequestFacts DEF SendCall, NoneStranded, TypeOK, AllServices
    <3>2. Sending(CTL, {Alloc(s)}, Alone(Alloc(s)))
      <4> HIDE DEF s, q, queued
      <4>1. QED
        BY <2>1, <2>2, <3>1, AloneRanks, TransmitSends
    <3>3. QED
      BY <3>2
  <2>4. CASE state[s] # "IDLE"
    <3>1. PICK rank \in WalkOrders(Cons(q, reqs[s]), Unsent(s) \cup {q}) :
             Transmit(s, rank, IF s = CTL THEN NoCid ELSE client[s], queued)
      BY <1>1, <2>4 DEF SendCall
    <3>2. reqs[s] \in Seq(Request) /\ ListsExactly(reqs[s], Waiting(s)) /\ q \notin Waiting(s)
          /\ Waiting(s) \in SUBSET Request
      BY <2>1 DEF TypeOK, ListsAreExact, Waiting
    <3>3. /\ Cons(q, reqs[s]) \in Seq(Request)
          /\ ListsExactly(Cons(q, reqs[s]), Waiting(s) \cup {q})
      <4> HIDE DEF q, Waiting
      <4>1. QED
        BY <2>1, <3>2, ConsLists
    <3>4. /\ Unsent(s) \cup {q} \in SUBSET Request
          /\ \A p \in Unsent(s) \cup {q} : To(p) = s /\ phase[p] \in {"new", "queued"}
          /\ Unsent(s) \subseteq Waiting(s)
      BY <2>1, UnsentQueued DEF Waiting
    <3>5. \A p \in Unsent(s) \cup {q} : Contains(Cons(q, reqs[s]), p)
      BY <3>3, <3>4 DEF ListsExactly
    <3>6. /\ rank \in [Unsent(s) \cup {q} -> 1 .. Cardinality(Unsent(s) \cup {q})]
          /\ \A p, r \in Unsent(s) \cup {q} : rank[p] = rank[r] => p = r
      <4>1. Len(Cons(q, reqs[s])) \in Nat
        BY <3>3
      <4> HIDE DEF q, s
      <4>2. QED
        BY <3>1, <3>5, <4>1, WalkRanks
    <3>7. \A p \in Request \ (Unsent(s) \cup {q}) : queued[p] = phase[p]
      BY <2>2
    <3>8. Sending(s, Unsent(s) \cup {q}, rank)
      <4> HIDE DEF s, q, queued
      <4>1. QED
        BY <2>1, <3>1, <3>4, <3>6, <3>7, TransmitSends
    <3>9. QED
      BY <3>8
  <2>5. QED
    BY <2>3, <2>4
<1>2. ASSUME SendVersion PROVE \E s, U, rank : Sending(s, U, rank)
  <2>1. /\ Transmit(CTL, Alone(Version), NoCid, phase) /\ phase[Version] = "new"
        /\ Version \in Request /\ To(Version) = CTL /\ CTL \in AllServices
    BY <1>2, RequestFacts DEF SendVersion, AllServices
  <2>2. Sending(CTL, {Version}, Alone(Version))
    BY <2>1, AloneRanks, TransmitSends
  <2>3. QED
    BY <2>2
<1>3. ASSUME NEW m \in down, NEW i \in Positions(reqs[m.svc]), NEW op, Receive(m, i, op)
      PROVE  /\ \A p \in Request : Completed(m, i)[p] \in {phase[p], "complete"}
             /\ reqs[m.svc][i] \in Request /\ phase[reqs[m.svc][i]] = "pending"
  <2>1. ReceivedOne(m, i)
    BY <1>3, CompletedLists
  <2>2. QED
    BY <2>1 DEF ReceivedOne
<1>4. ASSUME NEW m \in down, NEW i \in Positions(reqs[m.svc]), ReceiveCall(m, i) PROVE Silent
  <2>1. Receive(m, i, "call") /\ phase' = Completed(m, i)
    BY <1>4 DEF ReceiveCall
  <2>2. PhasesKept({})
    BY <1>3, <2>1 DEF PhasesKept
  <2>3. QED
    BY <1>4, <2>2 DEF ReceiveCall, Silent
<1>5. ASSUME NEW m \in down, NEW i \in Positions(reqs[m.svc]), ReceiveVersion(m, i) PROVE Silent
  <2>1. Receive(m, i, "version") /\ phase' = Completed(m, i) /\ m.offered \in SUBSET Services
    BY <1>5, ReceiveType DEF ReceiveVersion
  <2>2. PhasesKept({})
    BY <1>3, <2>1 DEF PhasesKept
  <2>3. phase[Version] = "pending"
    BY <1>3, <2>1, RequestKinds DEF Receive
  <2>4. \A s \in AllServices : \/ tid'[s] = tid[s]
                               \/ tid'[s] = 0 /\ s \in m.offered
    BY <1>5 DEF ReceiveVersion
  <2>5. \A s \in Services : \A q \in Request : To(q) = s => phase[q] = "new"
    BY <2>3 DEF LifeStages
  <2>6. QED
    BY <1>5, <2>1, <2>2, <2>4, <2>5 DEF ReceiveVersion, Silent
<1>6. ASSUME NEW m \in down, NEW i \in Positions(reqs[m.svc]), ReceiveAlloc(m, i)
      PROVE  Silent \/ \E s, U, rank : Sending(s, U, rank)
  <2>1. Receive(m, i, "alloc")
    BY <1>6 DEF ReceiveAlloc
  <2>2. CASE m.info = NoInfo \/ state[m.info.svc] = "NONE"
    <3>1. phase' = Completed(m, i) /\ UNCHANGED <<tid, reqTid, lapped>>
      BY <1>6, <2>2 DEF ReceiveAlloc
    <3>2. PhasesKept({})
      BY <1>3, <2>1, <3>1 DEF PhasesKept
    <3>3. QED
      BY <3>1, <3>2 DEF Silent
  <2>3. CASE ~(m.info = NoInfo \/ state[m.info.svc] = "NONE")
    <3> DEFINE s == m.info.svc
    <3>1. s \in Services /\ s \in AllServices
      BY <2>1, <2>3, ReceiveType DEF Info, AllServices
    <3>2. PICK rank \in WalkOrders(reqs[s], Unsent(s)) :
             Transmit(s, rank, m.info.cid, Completed(m, i))
      BY <1>6, <2>3 DEF ReceiveAlloc
    <3>3. /\ Unsent(s) \in SUBSET Request
          /\ \A q \in Unsent(s) : To(q) = s /\ phase[q] \in {"new", "queued"}
      BY <3>1, UnsentQueued
    <3>4. /\ rank \in [Unsent(s) -> 1 .. Cardinality(Unsent(s))]
          /\ \A p, q \in Unsent(s) : rank[p] = rank[q] => p = q
      <4>1. Len(reqs[s]) \in Nat /\ \A q \in Unsent(s) : Contains(reqs[s], q)
        BY <3>1 DEF TypeOK, Unsent
      <4> HIDE DEF s
      <4>2. QED
        BY <3>2, <4>1, WalkRanks
    <3>5. Sending(s, Unsent(s), rank)
      <4>1. \A p \in Request : /\ Completed(m, i)[p] \in {"new", "queued"} => phase[p] \in {"new", "queued"}
                               /\ Completed(m, i)[p] = "pending" => phase[p] = "pending"
        BY <1>3, <2>1
      <4> HIDE DEF s
      <4>2. QED
        BY <3>1, <3>2, <3>3, <3>4, <4>1, TransmitSends
    <3>6. QED
      BY <3>5
  <2>4. QED
    BY <2>2, <2>3
<1>7. ASSUME NEW m \in down, NEW i \in Positions(reqs[m.svc]), ReceiveRelease(m, i) PROVE Silent
  <2>1. Receive(m, i, "release") /\ UNCHANGED <<tid, reqTid, lapped>>
    BY <1>7 DEF ReceiveRelease
  <2>2. PhasesKept({})
    BY <1>3, <1>7, <2>1, ReceiveReleaseEffect DEF ReleaseTaken, PhasesKept
  <2>3. QED
    BY <2>1, <2>2 DEF Silent
<1>8. ASSUME DeviceClose PROVE \E s, U, rank : Sending(s, U, rank)
  <2> DEFINE unready == {s \in Services : state[s] \in {"IDLE", "WAIT_CID"}}
             batch == {Release(s) : s \in {t \in Services : state[t] = "READY"}}
             ph == FreedPhase(unready, phase)
  <2>1. PICK rank \in PushOrders(batch) : Transmit(CTL, rank, NoCid, ph)
    BY <1>8 DEF DeviceClose
  <2>2. \A p \in batch : p \in Request /\ phase[p] = "new" /\ To(p) = CTL
    BY <1>8, RequestFacts DEF DeviceClose, LifeStages
  <2>3. \A p \in Request : ph[p] \in {phase[p], "freed"}
    BY DEF FreedPhase
  <2>4. Sending(CTL, batch, rank)
    <3>1. CTL \in AllServices
      BY DEF AllServices
    <3> HIDE DEF batch, ph
    <3>2. batch \in SUBSET Request
      BY <2>2
    <3>3. QED
      BY <2>1, <2>2, <2>3, <3>1, <3>2, PushRanks, TransmitSends
  <2>5. QED
    BY <2>4
<1>9. ASSUME CloseCallback, UNCHANGED <<tid, reqTid, lapped>> PROVE Silent
  BY <1>9, CloseCallbackEffect DEF Silent, PhasesKept
<1>10. ASSUME UNCHANGED <<phase, tid, reqTid, lapped>> PROVE Silent
  BY <1>10 DEF Silent, PhasesKept
<1>11. ASSUME ShutdownFires \/ ConnectionDies PROVE Silent
  BY <1>9, <1>10, <1>11 DEF ShutdownFires, ConnectionDies
<1>12. ASSUME Modem PROVE Silent
  BY <1>10, <1>12 DEF Modem, ModemAnswersCall, ModemListsServices, ModemAllocates,
       ModemReleases, ModemRefuses, ModemIgnores, Answer
<1>13. ASSUME NEW m \in down, DiscardMessage(m) PROVE Silent
  BY <1>10, <1>13 DEF DiscardMessage
<1>14. CASE UNCHANGED vars
  BY <1>10, <1>14 DEF vars
<1>15. QED
  BY <1>1, <1>2, <1>4, <1>5, <1>6, <1>7, <1>8, <1>11, <1>12, <1>13, <1>14 DEF Next, Receiving


-----------------------------------------------------------------------------
(* A request has a transaction id once it is transmitted.                    *)

TidsGiven ==
    \A q \in Request :
        /\ phase[q] \in {"new", "queued"} => reqTid[q] = 0
        /\ phase[q] = "pending" => reqTid[q] > 0

(* Transmission gives the requests it is of their ids, and no others.       *)
LEMMA TidsGivenStep ==
  ASSUME TypeOK, ListsAreExact, LifeStages, NoneStranded, TidsGiven, [Next]_vars
  PROVE  TidsGiven'
<1>1. CASE Silent
  BY <1>1 DEF Silent, PhasesKept, TidsGiven
<1>2. ASSUME NEW s, NEW U, NEW rank, Sending(s, U, rank) PROVE TidsGiven'
  <2>1. ASSUME NEW q \in U PROVE q \in Request /\ phase'[q] = "pending" /\ reqTid'[q] > 0
    <3>1. /\ s \in AllServices /\ tid[s] \in Nat /\ q \in Request /\ IsFiniteSet(U)
          /\ Cardinality(U) \in Nat
      BY <1>2, RequestCount DEF Sending, TypeOK
    <3>2. rank[q] \in 1 .. Cardinality(U)
      BY <1>2, <2>1 DEF Sending
    <3>3. rank[q] \in Nat /\ rank[q] > 0
      BY <3>1, <3>2
    <3>4. TidAfter(s, tid[s], rank[q]) > 0
      BY <3>1, <3>3, TidAfterType
    <3>5. QED
      BY <1>2, <2>1, <3>1, <3>4 DEF Sending
  <2>2. ASSUME NEW q \in Request \ U
        PROVE  /\ reqTid'[q] = reqTid[q]
               /\ phase'[q] \in {"new", "queued"} => phase[q] \in {"new", "queued"}
               /\ phase'[q] = "pending" => phase[q] = "pending"
    BY <1>2 DEF Sending, PhasesKept
  <2>3. QED
    BY <2>1, <2>2 DEF TidsGiven
<1>3. QED
  BY <1>1, <1>2, StepSends

-----------------------------------------------------------------------------
(* No id is used again before all have been.                                 *)

Transmitted(s) == {q \in Request : To(q) = s /\ reqTid[q] # 0}

(* Until a service has transmitted more requests than it has ids, it        *)
(* numbers them from 1.                                                     *)
Numbered(s) ==
    Cardinality(Transmitted(s)) <= TidMax[s] =>
        /\ tid[s] = Cardinality(Transmitted(s))
        /\ \A q \in Transmitted(s) : reqTid[q] <= tid[s]
        /\ \A p, q \in Transmitted(s) : reqTid[p] = reqTid[q] => p = q

(* Transmission numbers on.                                                 *)
LEMMA NumberedSends ==
  ASSUME TypeOK, TidsGiven, TidsGiven', NEW s \in AllServices, NEW U, NEW rank,
         Sending(s, U, rank), Numbered(s)
  PROVE  Numbered(s)' /\ Transmitted(s) \subseteq Transmitted(s)'
<1> DEFINE T == Transmitted(s)
           n == Cardinality(T)
           k == Cardinality(U)
<1>1. /\ U \in SUBSET Request /\ T \in SUBSET Request
      /\ IsFiniteSet(U) /\ k \in Nat /\ IsFiniteSet(T) /\ n \in Nat
  BY RequestCount DEF Sending, Transmitted
<1>2. \A q \in U : q \notin T /\ To(q) = s /\ phase'[q] = "pending" /\ reqTid'[q] # 0
  BY <1>1 DEF Sending, TidsGiven, Transmitted
<1>3. \A q \in Request \ U : reqTid'[q] = reqTid[q]
  BY DEF Sending
<1>4. Transmitted(s)' = T \cup U
  BY <1>1, <1>2, <1>3 DEF Transmitted
<1>5. Cardinality(T \cup U) = n + k
  <2>1. T \cap U = {}
    BY <1>2
  <2> HIDE DEF T
  <2>2. Cardinality(T \cup U) = n + k - Cardinality({})
    BY <1>1, <2>1, FS_Union
  <2>3. QED
    BY <1>1, <2>2, FS_EmptySet
<1>6. ASSUME n + k <= TidMax[s]
      PROVE  /\ tid'[s] = n + k
             /\ \A q \in T : reqTid'[q] = reqTid[q] /\ reqTid[q] \in Nat /\ reqTid[q] <= n
             /\ \A q \in U : /\ rank[q] \in 1 .. k /\ reqTid'[q] = n + rank[q]
             /\ \A p, q \in T : reqTid[p] = reqTid[q] => p = q
             /\ \A p, q \in U : rank[p] = rank[q] => p = q
  <2>0. TidMax[s] \in Nat
    BY TidAssumption DEF AllServices
  <2>1. n <= TidMax[s]
    BY <1>1, <1>6, <2>0
  <2>2. /\ tid[s] = n /\ \A q \in T : reqTid[q] <= n
        /\ \A p, q \in T : reqTid[p] = reqTid[q] => p = q
    BY <2>1 DEF Numbered
  <2>3. \A q \in U : rank[q] \in 1 .. k
    BY DEF Sending
  <2>4. \A j \in 0 .. k : TidAfter(s, n, j) = n + j
    BY <1>1, <1>6, <2>0 DEF TidAfter
  <2>5. tid'[s] = TidAfter(s, n, k)
    BY <2>2 DEF Sending, TypeOK
  <2>6. \A q \in U : reqTid'[q] = TidAfter(s, n, rank[q])
    BY <1>1, <2>2 DEF Sending
  <2>7. \A q \in T : q \notin U /\ q \in Request /\ reqTid[q] \in Nat
    BY <1>1, <1>2 DEF TypeOK
  <2> HIDE DEF T, n, k
  <2>8. tid'[s] = n + k
    BY <1>1, <2>4, <2>5
  <2>9. \A q \in U : reqTid'[q] = n + rank[q]
    <3>1. \A j \in 1 .. k : j \in 0 .. k
      BY <1>1
    <3>2. QED
      BY <2>3, <2>4, <2>6, <3>1
  <2>10. QED
    BY <1>3, <2>2, <2>3, <2>7, <2>8, <2>9 DEF Sending
<1>7. ASSUME n + k <= TidMax[s]
      PROVE  /\ tid'[s] = n + k
             /\ \A q \in T \cup U : reqTid'[q] <= n + k
             /\ \A p, q \in T \cup U : reqTid'[p] = reqTid'[q] => p = q
  <2> HIDE DEF T, n, k
  <2>1. \A q \in T : reqTid'[q] \in Nat /\ reqTid'[q] <= n
    BY <1>6, <1>7
  <2>2. \A q \in U : rank[q] \in Nat /\ 0 < rank[q] /\ rank[q] <= k /\ reqTid'[q] = n + rank[q]
    BY <1>1, <1>6, <1>7
  <2>3. \A q \in T \cup U : reqTid'[q] <= n + k
    BY <1>1, <2>1, <2>2
  <2>4. \A p, q \in T : reqTid'[p] = reqTid'[q] => p = q
    BY <1>6, <1>7
  <2>5. \A p, q \in U : reqTid'[p] = reqTid'[q] => p = q
    BY <1>1, <1>6, <1>7, <2>2
  <2>6. \A p \in T, q \in U : reqTid'[p] # reqTid'[q]
    BY <1>1, <2>1, <2>2
  <2>7. QED
    BY <1>6, <1>7, <2>3, <2>4, <2>5, <2>6
<1>8. QED
  <2>1. T \subseteq Transmitted(s)'
    BY <1>4
  <2>2. (Cardinality(Transmitted(s)))' = n + k
    BY <1>4, <1>5
  <2> HIDE DEF T, n, k
  <2>3. Numbered(s)'
    BY <1>4, <1>7, <2>2 DEF Numbered
  <2>4. QED
    BY <2>1, <2>3 DEF T

(* Every step keeps the numbering of every service.                         *)
LEMMA NumberedStep ==
  ASSUME TypeOK, ListsAreExact, LifeStages, NoneStranded, TidsGiven, TidsGiven',
         [Next]_vars, NEW t \in AllServices, Numbered(t)
  PROVE  Numbered(t)' /\ Transmitted(t) \subseteq Transmitted(t)'
<1>1. ASSUME tid'[t] = tid[t], \A q \in Request : To(q) = t => reqTid'[q] = reqTid[q]
      PROVE  Numbered(t)' /\ Transmitted(t)' = Transmitted(t)
  <2>1. Transmitted(t)' = Transmitted(t)
    BY <1>1 DEF Transmitted
  <2>2. \A q \in Transmitted(t) : reqTid'[q] = reqTid[q]
    BY <1>1 DEF Transmitted
  <2>3. (Cardinality(Transmitted(t)))' = Cardinality(Transmitted(t))
    BY <2>1
  <2> HIDE DEF Transmitted
  <2>4. QED
    BY <1>1, <2>1, <2>2, <2>3 DEF Numbered
<1>2. CASE Silent
  <2>1. CASE tid'[t] = tid[t]
    BY <1>1, <1>2, <2>1 DEF Silent
  <2>2. CASE tid'[t] # tid[t]
    <3>1. tid'[t] = 0 /\ \A q \in Request : To(q) = t => reqTid[q] = 0 /\ reqTid'[q] = 0
      BY <1>2, <2>2 DEF Silent, TidsGiven
    <3>2. Transmitted(t) = {} /\ Transmitted(t)' = {}
      BY <3>1 DEF Transmitted
    <3>3. (Cardinality(Transmitted(t)))' = 0
      BY <3>2, FS_EmptySet
    <3> HIDE DEF Transmitted
    <3>4. QED
      BY <3>1, <3>2, <3>3 DEF Numbered
  <2>3. QED
    BY <2>1, <2>2
<1>3. ASSUME NEW s, NEW U, NEW rank, Sending(s, U, rank)
      PROVE  Numbered(t)' /\ Transmitted(t) \subseteq Transmitted(t)'
  <2>1. CASE s = t
    BY <1>3, <2>1, NumberedSends
  <2>2. CASE s # t
    <3>1. tid'[t] = tid[t] /\ \A q \in Request : To(q) = t => reqTid'[q] = reqTid[q]
      BY <1>3, <2>2 DEF Sending, TypeOK
    <3>2. QED
      BY <1>1, <3>1
  <2>3. QED
    BY <2>1, <2>2
<1>4. QED
  BY <1>2, <1>3, StepSends

(* Two unanswered requests share an id only on a service past its last.     *)
LEMMA WrapStep ==
  ASSUME TypeOK, ListsAreExact, LifeStages, NoneStranded, TidsGiven, TidsGiven',
         \A s \in AllServices : Numbered(s), TidsSharedOnlyAfterWrap, [Next]_vars
  PROVE  TidsSharedOnlyAfterWrap'
<1> DEFINE Wrapped(s) == Cardinality(Transmitted(s)) > TidMax[s]
<1>1. \A s \in AllServices : Numbered(s)' /\ Transmitted(s) \subseteq Transmitted(s)'
  BY NumberedStep
<1>2. TidsSharedOnlyAfterWrap' <=> (lapped' => \E s \in AllServices : Wrapped(s)')
  BY DEF TidsSharedOnlyAfterWrap, Transmitted
<1>3. \A s \in AllServices : TidMax[s] \in Nat
  BY TidAssumption DEF AllServices
<1>4. ASSUME lapped PROVE \E s \in AllServices : Wrapped(s)'
  <2>1. PICK s \in AllServices : Wrapped(s)
    BY <1>4 DEF TidsSharedOnlyAfterWrap, Transmitted
  <2>2. Transmitted(s)' \in SUBSET Request
    BY DEF Transmitted
  <2>3. /\ Transmitted(s) \in SUBSET Request
        /\ Cardinality(Transmitted(s)) \in Nat /\ (Cardinality(Transmitted(s)))' \in Nat
        /\ IsFiniteSet(Transmitted(s))'
    <3>1. Transmitted(s) \in SUBSET Request
      BY DEF Transmitted
    <3> HIDE DEF Transmitted
    <3>2. QED
      BY <2>2, <3>1, RequestCount
  <2>4. Cardinality(Transmitted(s)) <= (Cardinality(Transmitted(s)))'
    <3> HIDE DEF Transmitted
    <3>1. QED
      BY <1>1, <2>3, FS_Subset
  <2>5. QED
    BY <1>3, <2>1, <2>3, <2>4
<1>5. ASSUME TidCollision' PROVE \E s \in AllServices : Wrapped(s)'
  <2>1. PICK p \in Request, q \in Request :
           /\ p # q /\ To(p) = To(q)
           /\ phase'[p] = "pending" /\ phase'[q] = "pending"
           /\ reqTid'[p] = reqTid'[q]
    BY <1>5 DEF TidCollision
  <2>2. To(p) \in AllServices
    BY RequestFacts
  <2>3. p \in Transmitted(To(p))' /\ q \in Transmitted(To(p))'
    BY <2>1 DEF TidsGiven, Transmitted
  <2>4. ~(Cardinality(Transmitted(To(p))) <= TidMax[To(p)])'
    BY <1>1, <2>1, <2>2, <2>3 DEF Numbered
  <2>5. (Cardinality(Transmitted(To(p))))' \in Nat
    <3>1. Transmitted(To(p))' \in SUBSET Request
      BY DEF Transmitted
    <3> HIDE DEF Transmitted
    <3>2. QED
      BY <3>1, RequestCount
  <2>6. Wrapped(To(p))'
    BY <1>3, <2>2, <2>4, <2>5
  <2>7. QED
    BY <2>2, <2>6
<1>6. lapped' => lapped \/ TidCollision'
  BY StepSends DEF Silent, Sending
<1>7. QED
  BY <1>2, <1>4, <1>5, <1>6

(* The counter of a service uses every id before any comes back             *)
(* (services.c:75-86).                                                      *)
THEOREM SharedOnlyAfterWrap == Spec => []TidsSharedOnlyAfterWrap
<1> DEFINE Inv == /\ Inductive /\ TidsGiven
                  /\ \A s \in AllServices : Numbered(s)
                  /\ TidsSharedOnlyAfterWrap
<1>1. Init => Inv
  <2> SUFFICES ASSUME Init PROVE Inv
    OBVIOUS
  <2>1. Inductive
    BY InitInductive
  <2>2. TidsGiven /\ TidsSharedOnlyAfterWrap
    BY DEF Init, TidsGiven, TidsSharedOnlyAfterWrap
  <2>3. ASSUME NEW s \in AllServices PROVE Numbered(s)
    <3>1. Transmitted(s) = {} /\ tid[s] = 0
      BY DEF Init, Transmitted
    <3>2. QED
      BY <3>1, FS_EmptySet DEF Numbered
  <2>4. QED
    BY <2>1, <2>2, <2>3
<1>2. Inv /\ [Next]_vars => Inv'
  <2> SUFFICES ASSUME Inv, [Next]_vars PROVE Inv'
    OBVIOUS
  <2>1. Inductive'
    BY NextInductive
  <2>2. TidsGiven'
    BY TidsGivenStep DEF Inductive
  <2>3. \A s \in AllServices : Numbered(s)'
    BY <2>2, NumberedStep DEF Inductive
  <2>4. TidsSharedOnlyAfterWrap'
    BY <2>2, WrapStep DEF Inductive
  <2>5. QED
    BY <2>1, <2>2, <2>3, <2>4
<1>3. Inv => TidsSharedOnlyAfterWrap
  OBVIOUS
<1>4. QED
  BY <1>1, <1>2, <1>3, PTL DEF Spec


=============================================================================
