-------------------------- MODULE QmiServices_proofs --------------------------
(* Proofs about the request layer of uqmid, for any set of services, calls,  *)
(* client ids and transaction id widths: the types, and the invariant that   *)
(* the request lists are exact, that no request is stranded, and that        *)
(* answers and client ids reach the request and service they belong to.      *)
EXTENDS QmiServices, FiniteSetTheorems, SequenceTheorems, TLAPS

USE ServicesAssumption, CallsAssumption, CidsAssumption, TidAssumption, LossyAssumption

-----------------------------------------------------------------------------
(* Requests.                                                                 *)

(* The kinds of request, and the service each is queued on.                 *)
LEMMA RequestFacts ==
    /\ \A c \in Calls : Call(c) \in Request /\ To(Call(c)) = Target[c]
    /\ \A s \in Services : Alloc(s) \in Request /\ To(Alloc(s)) = CTL
    /\ \A s \in Services : Release(s) \in Request /\ To(Release(s)) = CTL
    /\ Version \in Request /\ To(Version) = CTL
    /\ \A q \in Request : To(q) \in AllServices
    /\ \A q \in Request : q.op = "release" => q.of \in Services
  BY DEF Request, Call, Alloc, Release, Version, To, AllServices

(* There are finitely many requests.                                        *)
LEMMA RequestFinite == IsFiniteSet(Request)
<1> DEFINE Q1 == {Call(c) : c \in Calls}
           Q2 == {Alloc(s) : s \in Services}
           Q3 == {Release(s) : s \in Services}
<1>1. IsFiniteSet(Q1)
  <2>1. [c \in Calls |-> Call(c)] \in Surjection(Calls, Q1)
    BY DEF Surjection
  <2>2. QED
    BY <2>1, FS_Surjection
<1>2. IsFiniteSet(Q2)
  <2>1. [s \in Services |-> Alloc(s)] \in Surjection(Services, Q2)
    BY DEF Surjection
  <2>2. QED
    BY <2>1, FS_Surjection
<1>3. IsFiniteSet(Q3)
  <2>1. [s \in Services |-> Release(s)] \in Surjection(Services, Q3)
    BY DEF Surjection
  <2>2. QED
    BY <2>1, FS_Surjection
<1>4. IsFiniteSet(((Q1 \cup Q2) \cup Q3) \cup {Version})
  <2> HIDE DEF Q1, Q2, Q3
  <2>1. QED
    BY <1>1, <1>2, <1>3, FS_Union, FS_Singleton
<1>5. Request \subseteq ((Q1 \cup Q2) \cup Q3) \cup {Version}
  BY DEF Request, Call, Alloc, Release
<1>6. QED
  BY <1>4, <1>5, FS_Subset

(* A set of requests has a natural number of elements.                      *)
LEMMA RequestCount ==
  ASSUME NEW U \in SUBSET Request
  PROVE  IsFiniteSet(U) /\ Cardinality(U) \in Nat
  BY RequestFinite, FS_Subset, FS_CardinalityType

(* The tid counter stays a natural number, and is at least 1 after a step.  *)
LEMMA TidAfterType ==
  ASSUME NEW s \in AllServices, NEW t \in Nat, NEW k \in Nat
  PROVE  TidAfter(s, t, k) \in Nat /\ (k > 0 => TidAfter(s, t, k) > 0)
<1>1. TidMax[s] \in Nat /\ TidMax[s] > 0
  BY DEF AllServices
<1> DEFINE M == TidMax[s]
<1>2. CASE t + k <= M
  BY <1>1, <1>2 DEF TidAfter
<1>3. CASE ~(t + k <= M)
  <2>1. t + k - 1 \in Nat
    BY <1>1, <1>3
  <2>2. (t + k - 1) % M \in 0 .. M - 1
    BY <2>1, <1>1
  <2>3. QED
    BY <2>2, <1>3, <1>1 DEF TidAfter
<1>4. QED
  BY <1>2, <1>3

-----------------------------------------------------------------------------
(* Type correctness.                                                         *)

(* Transmitting requests, whatever the order, keeps the types.              *)
LEMMA TransmitType ==
  ASSUME TypeOK,
         NEW s \in AllServices, NEW U \in SUBSET Request, NEW rank \in [U -> Nat],
         NEW c \in Cids \cup {NoCid}, NEW ph \in [Request -> Phases],
         Transmit(s, rank, c, ph)
  PROVE  /\ tid' \in [AllServices -> Nat]
         /\ phase' \in [Request -> Phases]
         /\ reqTid' \in [Request -> Nat]
         /\ up' \subseteq UpMessage
         /\ lapped' \in BOOLEAN
<1>0. DOMAIN rank = U /\ Cardinality(U) \in Nat /\ tid[s] \in Nat
  BY RequestCount DEF TypeOK
<1>1. TidAfter(s, tid[s], Cardinality(U)) \in Nat
  BY <1>0, TidAfterType
<1>2. \A q \in U : TidAfter(s, tid[s], rank[q]) \in Nat
  BY <1>0, TidAfterType
<1>3. tid' \in [AllServices -> Nat]
  BY <1>0, <1>1 DEF Transmit, TypeOK
<1>4. phase' \in [Request -> Phases]
  BY <1>0 DEF Transmit, Phases
<1>5. reqTid' \in [Request -> Nat]
  BY <1>0, <1>2 DEF Transmit, TypeOK
<1>6. up' \subseteq UpMessage
  <2>1. \A q \in U : [svc |-> s, tid |-> TidAfter(s, tid[s], rank[q]), req |-> q,
                      cid |-> IF q.op = "release" THEN client[q.of] ELSE c] \in UpMessage
    BY <1>2, RequestFacts DEF UpMessage, TypeOK
  <2>2. QED
    BY <2>1, <1>0 DEF Transmit, TypeOK
<1>7. lapped' \in BOOLEAN
  BY DEF Transmit, TypeOK
<1>8. QED
  BY <1>3, <1>4, <1>5, <1>6, <1>7

(* The orders of transmission are functions into the natural numbers.       *)
LEMMA OrderTypes ==
  /\ \A list, U : \A rank \in WalkOrders(list, U) : rank \in [U -> Nat]
  /\ \A U : \A rank \in PushOrders(U) : rank \in [U -> Nat]
  /\ \A q : Alone(q) \in [{q} -> Nat]
<1>1. ASSUME NEW U, NEW rank \in [U -> 1 .. Cardinality(U)]
      PROVE  rank \in [U -> Nat]
  <2>1. 1 .. Cardinality(U) \subseteq Nat
    OBVIOUS
  <2>2. QED
    BY <2>1
<1>2. QED
  BY <1>1 DEF WalkOrders, PushOrders, Alone, Bijection, Injection

(* Which requests an order ranks.                                            *)
LEMMA OrderDomains ==
  /\ \A list, U : \A rank \in WalkOrders(list, U) : DOMAIN rank = U
  /\ \A U : \A rank \in PushOrders(U) : DOMAIN rank = U
  /\ \A q : DOMAIN Alone(q) = {q}
  BY DEF WalkOrders, PushOrders, Alone, Bijection, Injection

(* Removing the i-th element of a sequence leaves a sequence.               *)
LEMMA RemoveAtType ==
  ASSUME NEW S, NEW list \in Seq(S), NEW i \in 1 .. Len(list)
  PROVE  RemoveAt(list, i) \in Seq(S)
  BY DEF RemoveAt

(* What the receipt of an answer makes of the request lists and phases.     *)
LEMMA ReceiveType ==
  ASSUME TypeOK, NEW m \in down, NEW i \in Positions(reqs[m.svc]), NEW op,
         Receive(m, i, op)
  PROVE  /\ m.svc \in AllServices /\ m.tid \in Nat /\ m.info \in Info
         /\ m.req \in Request /\ m.offered \in SUBSET Services
         /\ reqs[m.svc][i] \in Request
         /\ Completed(m, i) \in [Request -> Phases]
         /\ Unlinked(m, i) \in [AllServices -> Seq(Request)]
         /\ answer' \in [Request -> SUBSET Request]
         /\ down' \subseteq DownMessage
<1>1. /\ m.svc \in AllServices /\ m.tid \in Nat /\ m.info \in Info
      /\ m.req \in Request /\ m.offered \in SUBSET Services
  BY DEF TypeOK, DownMessage
<1>2. reqs[m.svc] \in Seq(Request) /\ i \in 1 .. Len(reqs[m.svc])
  BY <1>1 DEF TypeOK, Positions
<1>3. reqs[m.svc][i] \in Request
  BY <1>2
<1>4. Completed(m, i) \in [Request -> Phases]
  BY <1>3 DEF TypeOK, Completed, Phases
<1>5. Unlinked(m, i) \in [AllServices -> Seq(Request)]
  BY <1>1, <1>2, RemoveAtType DEF TypeOK, Unlinked
<1>6. answer' \in [Request -> SUBSET Request]
  BY <1>1, <1>3 DEF TypeOK, Receive
<1>7. down' \subseteq DownMessage
  BY DEF TypeOK, Receive
<1>8. QED
  BY <1>1, <1>3, <1>4, <1>5, <1>6, <1>7

(* The initial state has the declared types.                                *)
LEMMA InitType == Init => TypeOK
<1>1. <<>> \in Seq(Request) /\ CTL \in AllServices
  BY DEF AllServices
<1>2. ASSUME Init PROVE reqs \in [AllServices -> Seq(Request)]
  BY <1>1, <1>2 DEF Init
<1>3. ASSUME Init PROVE /\ state \in [AllServices -> States] /\ state[CTL] \in {"NONE", "READY"}
                        /\ phase \in [Request -> Phases]
  BY <1>1, <1>3 DEF Init, States, Phases
<1>4. ASSUME Init PROVE answer \in [Request -> SUBSET Request] /\ held \in [Services -> SUBSET Cids]
  BY <1>4 DEF Init
<1>5. ASSUME Init PROVE /\ client \in [Services -> Cids \cup {NoCid}]
                        /\ tid \in [AllServices -> Nat] /\ reqTid \in [Request -> Nat]
  BY <1>5 DEF Init
<1>6. ASSUME Init PROVE /\ dev \in {"RUNNING", "STOPPING"} /\ open \in BOOLEAN
                        /\ shutdown \in {"off", "later", "now"} /\ freed \in BOOLEAN
                        /\ up \subseteq UpMessage /\ down \subseteq DownMessage
                        /\ lapped \in BOOLEAN
  BY <1>6 DEF Init
<1>7. QED
  BY <1>2, <1>3, <1>4, <1>5, <1>6 DEF TypeOK

(* Every step keeps the declared types.                                     *)
LEMMA NextType == TypeOK /\ [Next]_vars => TypeOK'
<1> SUFFICES ASSUME TypeOK, [Next]_vars PROVE TypeOK'
  OBVIOUS
<1> USE DEF svcVars, reqVars, devVars, modemVars
<1>1. ASSUME NEW c \in Calls, SendCall(c) PROVE TypeOK'
  <2> DEFINE s == Target[c]
             q == Call(c)
             queued == [phase EXCEPT ![q] = "queued"]
  <2>1. s \in AllServices /\ q \in Request /\ CTL \in AllServices
    BY RequestFacts DEF AllServices
  <2>2. queued \in [Request -> Phases]
    BY <2>1 DEF TypeOK, Phases
  <2>3. reqs[s] \in Seq(Request) /\ Cons(q, reqs[s]) \in Seq(Request)
    BY <2>1 DEF TypeOK, Cons
  <2>4. CASE state[s] = "IDLE"
    <3>1. s \in Services
      BY <2>1, <2>4 DEF TypeOK, AllServices
    <3>2. Alloc(s) \in Request /\ {Alloc(s)} \in SUBSET Request
      BY <3>1, RequestFacts
    <3>3. Transmit(CTL, Alone(Alloc(s)), NoCid, queued)
      BY <1>1, <2>4 DEF SendCall
    <3>4. /\ tid' \in [AllServices -> Nat] /\ phase' \in [Request -> Phases]
          /\ reqTid' \in [Request -> Nat] /\ up' \subseteq UpMessage /\ lapped' \in BOOLEAN
      <4> HIDE DEF s, queued
      <4>1. Alone(Alloc(s)) \in [{Alloc(s)} -> Nat]
        BY OrderTypes
      <4>2. QED
        BY <3>2, <3>3, <2>1, <2>2, <4>1, TransmitType
    <3>5. reqs' \in [AllServices -> Seq(Request)]
      <4>1. Cons(Alloc(s), reqs[CTL]) \in Seq(Request)
        BY <2>1, <3>2 DEF TypeOK, Cons
      <4>2. reqs' = [reqs EXCEPT ![s] = Cons(q, @), ![CTL] = Cons(Alloc(s), @)]
        BY <1>1, <2>4 DEF SendCall
      <4>3. s # CTL /\ reqs \in [AllServices -> Seq(Request)]
        BY <2>1, <3>1, ServicesAssumption DEF TypeOK
      <4>4. QED
        <5> HIDE DEF s, q
        <5>1. QED
          BY <2>1, <2>3, <4>1, <4>2, <4>3
    <3>6. state' \in [AllServices -> States] /\ state'[CTL] \in {"NONE", "READY"}
      BY <1>1, <2>1, <2>4, <3>1 DEF SendCall, TypeOK, States
    <3>7. QED
      BY <1>1, <3>4, <3>5, <3>6 DEF SendCall, TypeOK
  <2>5. CASE state[s] # "IDLE"
    <3>1. PICK rank \in WalkOrders(Cons(q, reqs[s]), Unsent(s) \cup {q}) :
             Transmit(s, rank, IF s = CTL THEN NoCid ELSE client[s], queued)
      BY <1>1, <2>5 DEF SendCall
    <3>2. Unsent(s) \cup {q} \in SUBSET Request
      BY <2>1 DEF Unsent
    <3>3. rank \in [Unsent(s) \cup {q} -> Nat]
      BY <3>1, OrderTypes
    <3>4. (IF s = CTL THEN NoCid ELSE client[s]) \in Cids \cup {NoCid}
      BY <2>1 DEF TypeOK, AllServices
    <3>5. /\ tid' \in [AllServices -> Nat] /\ phase' \in [Request -> Phases]
          /\ reqTid' \in [Request -> Nat] /\ up' \subseteq UpMessage /\ lapped' \in BOOLEAN
      <4> HIDE DEF s, q, queued
      <4>1. QED
        BY <3>1, <3>2, <3>3, <3>4, <2>1, <2>2, TransmitType
    <3>6. reqs' = [reqs EXCEPT ![s] = Cons(q, @)] /\ UNCHANGED <<state, client, answer, devVars, down, held>>
      BY <1>1, <2>5 DEF SendCall
    <3>7. reqs' \in [AllServices -> Seq(Request)]
      BY <2>1, <2>3, <3>6 DEF TypeOK
    <3>8. QED
      BY <3>5, <3>6, <3>7 DEF TypeOK
  <2>6. QED
    BY <2>4, <2>5
<1>2. ASSUME SendVersion PROVE TypeOK'
  <2>1. Version \in Request /\ {Version} \in SUBSET Request /\ CTL \in AllServices
    BY RequestFacts DEF AllServices
  <2>2. Transmit(CTL, Alone(Version), NoCid, phase)
    BY <1>2 DEF SendVersion
  <2>3. /\ tid' \in [AllServices -> Nat] /\ phase' \in [Request -> Phases]
        /\ reqTid' \in [Request -> Nat] /\ up' \subseteq UpMessage /\ lapped' \in BOOLEAN
    <3>1. Alone(Version) \in [{Version} -> Nat] /\ phase \in [Request -> Phases]
      BY OrderTypes DEF TypeOK
    <3>2. QED
      BY <2>1, <2>2, <3>1, TransmitType
  <2>4. reqs' \in [AllServices -> Seq(Request)]
    <3>1. Cons(Version, reqs[CTL]) \in Seq(Request)
      BY <2>1 DEF TypeOK, Cons
    <3>2. QED
      BY <1>2, <2>1, <3>1 DEF SendVersion, TypeOK
  <2>5. QED
    BY <1>2, <2>3, <2>4 DEF SendVersion, TypeOK
<1>3. ASSUME NEW m \in down, DiscardMessage(m) PROVE TypeOK'
  BY <1>3 DEF DiscardMessage, TypeOK
<1>4. ASSUME NEW m \in down, NEW i \in Positions(reqs[m.svc]), ReceiveCall(m, i)
      PROVE  TypeOK'
  <2>1. Receive(m, i, "call")
    BY <1>4 DEF ReceiveCall
  <2>2. QED
    BY <1>4, <2>1, ReceiveType DEF ReceiveCall, TypeOK, Receive
<1>5. ASSUME NEW m \in down, NEW i \in Positions(reqs[m.svc]), ReceiveVersion(m, i)
      PROVE  TypeOK'
  <2>1. Receive(m, i, "version")
    BY <1>5 DEF ReceiveVersion
  <2>2. m.offered \in SUBSET Services
    BY <2>1, ReceiveType
  <2>3. /\ state' \in [AllServices -> States] /\ state'[CTL] \in {"NONE", "READY"}
        /\ client' \in [Services -> Cids \cup {NoCid}] /\ tid' \in [AllServices -> Nat]
    BY <1>5, <2>2 DEF ReceiveVersion, TypeOK, States, AllServices
  <2>4. QED
    BY <1>5, <2>1, <2>3, ReceiveType DEF ReceiveVersion, TypeOK, Receive
<1>6. ASSUME NEW m \in down, NEW i \in Positions(reqs[m.svc]), ReceiveAlloc(m, i)
      PROVE  TypeOK'
  <2> DEFINE s == m.info.svc
  <2>1. Receive(m, i, "alloc")
    BY <1>6 DEF ReceiveAlloc
  <2>2. /\ m.info \in Info /\ reqs' \in [AllServices -> Seq(Request)]
        /\ Completed(m, i) \in [Request -> Phases]
    BY <1>6, <2>1, ReceiveType DEF ReceiveAlloc
  <2>3. CASE m.info = NoInfo \/ state[s] = "NONE"
    BY <1>6, <2>1, <2>2, <2>3, ReceiveType DEF ReceiveAlloc, TypeOK, Receive
  <2>4. CASE ~(m.info = NoInfo \/ state[s] = "NONE")
    <3>1. s \in Services /\ s \in AllServices /\ s # CTL /\ m.info.cid \in Cids
      BY <2>2, <2>4 DEF Info, AllServices
    <3>2. PICK rank \in WalkOrders(reqs[s], Unsent(s)) :
             Transmit(s, rank, m.info.cid, Completed(m, i))
      BY <1>6, <2>4 DEF ReceiveAlloc
    <3>3. Unsent(s) \in SUBSET Request /\ rank \in [Unsent(s) -> Nat]
      BY <3>2, OrderTypes DEF Unsent
    <3>4. /\ tid' \in [AllServices -> Nat] /\ phase' \in [Request -> Phases]
          /\ reqTid' \in [Request -> Nat] /\ up' \subseteq UpMessage /\ lapped' \in BOOLEAN
      BY <2>2, <3>1, <3>2, <3>3, TransmitType
    <3>5. /\ state' \in [AllServices -> States] /\ state'[CTL] \in {"NONE", "READY"}
          /\ client' \in [Services -> Cids \cup {NoCid}]
      <4> HIDE DEF s
      <4>1. state' = [state EXCEPT ![s] = "READY"] /\ client' = [client EXCEPT ![s] = m.info.cid]
        BY <1>6, <2>4 DEF ReceiveAlloc, Assigned, s
      <4>2. QED
        BY <3>1, <4>1 DEF TypeOK, States
    <3>6. QED
      BY <1>6, <2>1, <2>2, <3>4, <3>5, ReceiveType DEF ReceiveAlloc, TypeOK, Receive
  <2>5. QED
    BY <2>3, <2>4
<1>7. ASSUME NEW m \in down, NEW i \in Positions(reqs[m.svc]), ReceiveRelease(m, i)
      PROVE  TypeOK'
  <2> DEFINE s == m.info.svc
  <2>1. Receive(m, i, "release")
    BY <1>7 DEF ReceiveRelease
  <2>2. /\ m.info \in Info /\ Unlinked(m, i) \in [AllServices -> Seq(Request)]
        /\ Completed(m, i) \in [Request -> Phases]
    BY <2>1, ReceiveType
  <2>3. CASE m.info = NoInfo \/ state[s] = "NONE"
    BY <1>7, <2>1, <2>2, <2>3, ReceiveType DEF ReceiveRelease, TypeOK, Receive
  <2>4. CASE ~(m.info = NoInfo \/ state[s] = "NONE")
    <3>1. FreedPhase({s}, Completed(m, i)) \in [Request -> Phases]
      BY <2>2 DEF FreedPhase, Phases
    <3>2. FreedState({s}) \in [AllServices -> States] /\ FreedState({s})[CTL] \in {"NONE", "READY"}
      BY DEF FreedState, TypeOK, States, AllServices
    <3>3. [Unlinked(m, i) EXCEPT ![s] = <<>>] \in [AllServices -> Seq(Request)]
      <4> HIDE DEF s
      <4>1. <<>> \in Seq(Request)
        OBVIOUS
      <4>2. QED
        BY <2>2, <4>1
    <3>4. QED
      BY <1>7, <2>1, <2>4, <3>1, <3>2, <3>3, ReceiveType DEF ReceiveRelease, TypeOK, Receive
  <2>5. QED
    BY <2>3, <2>4
<1>8. ASSUME DeviceClose PROVE TypeOK'
  <2> DEFINE unready == {s \in Services : state[s] \in {"IDLE", "WAIT_CID"}}
             batch == {Release(s) : s \in {t \in Services : state[t] = "READY"}}
             n == Cardinality(batch)
  <2>1. batch \in SUBSET Request /\ n \in Nat
    BY RequestFacts, RequestCount
  <2>2. PICK rank \in PushOrders(batch) :
          /\ reqs' = [s \in AllServices |->
                        IF s = CTL THEN Pushed(rank) \o reqs[CTL]
                        ELSE IF s \in unready THEN <<>> ELSE reqs[s]]
          /\ Transmit(CTL, rank, NoCid, FreedPhase(unready, phase))
    BY <1>8 DEF DeviceClose
  <2>3. FreedPhase(unready, phase) \in [Request -> Phases]
    BY DEF TypeOK, FreedPhase, Phases
  <2>4. /\ tid' \in [AllServices -> Nat] /\ phase' \in [Request -> Phases]
        /\ reqTid' \in [Request -> Nat] /\ up' \subseteq UpMessage /\ lapped' \in BOOLEAN
    <3> HIDE DEF batch, unready
    <3>1. CTL \in AllServices /\ NoCid \in Cids \cup {NoCid} /\ rank \in [batch -> Nat]
      BY <2>2, OrderTypes DEF AllServices
    <3>2. QED
      BY <2>1, <2>2, <2>3, <3>1, TransmitType
  <2>5. Pushed(rank) \in Seq(Request)
    <3>0. Pushed(rank) = [k \in 1 .. n |-> CHOOSE q \in batch : rank[q] = n + 1 - k]
      BY <2>2, OrderDomains DEF Pushed
    <3> HIDE DEF batch
    <3>1. \A j \in 1 .. n : \E q \in batch : rank[q] = j
      BY <2>2 DEF PushOrders, Bijection, Surjection
    <3>2. \A k \in 1 .. n : (CHOOSE q \in batch : rank[q] = n + 1 - k) \in Request
      <4> SUFFICES ASSUME NEW k \in 1 .. n
                   PROVE  (CHOOSE q \in batch : rank[q] = n + 1 - k) \in Request
        OBVIOUS
      <4>1. n + 1 - k \in 1 .. n
        BY <2>1
      <4>2. \E q \in batch : rank[q] = n + 1 - k
        BY <3>1, <4>1
      <4>3. QED
        BY <4>2, <2>1
    <3>3. QED
      BY <2>1, <3>0, <3>2
  <2>6. reqs' \in [AllServices -> Seq(Request)]
    <3> HIDE DEF unready
    <3>1. Pushed(rank) \o reqs[CTL] \in Seq(Request)
      BY <2>5 DEF TypeOK, AllServices
    <3>2. QED
      BY <2>2, <3>1 DEF TypeOK
  <2>7. state' \in [AllServices -> States] /\ state'[CTL] \in {"NONE", "READY"}
    BY <1>8 DEF DeviceClose, FreedState, TypeOK, States, AllServices
  <2>8. QED
    BY <1>8, <2>4, <2>6, <2>7 DEF DeviceClose, TypeOK
<1>9. ASSUME CloseCallback PROVE /\ state' \in [AllServices -> States] /\ state'[CTL] \in {"NONE", "READY"}
                                 /\ reqs' \in [AllServices -> Seq(Request)]
                                 /\ phase' \in [Request -> Phases]
  BY <1>9 DEF CloseCallback, FreedState, FreedPhase, TypeOK, States, Phases, AllServices
<1>10. ASSUME ShutdownFires PROVE TypeOK'
  BY <1>9, <1>10 DEF ShutdownFires, CloseCallback, TypeOK
<1>11. ASSUME ConnectionDies PROVE TypeOK'
  BY <1>9, <1>11 DEF ConnectionDies, CloseCallback, TypeOK
<1>12. ASSUME NEW m \in up, \/ ModemAnswersCall(m) \/ ModemListsServices(m)
                            \/ ModemAllocates(m) \/ ModemReleases(m)
                            \/ ModemRefuses(m) \/ ModemIgnores(m)
       PROVE  TypeOK'
  <2>1. /\ m.svc \in AllServices /\ m.tid \in Nat /\ m.req \in Request
        /\ m.cid \in Cids \cup {NoCid}
    BY DEF TypeOK, UpMessage
  <2>2. ASSUME NEW info \in Info, NEW offered \in SUBSET Services, Answer(m, info, offered)
        PROVE  /\ up' \subseteq UpMessage /\ down' \subseteq DownMessage
               /\ UNCHANGED <<svcVars, reqVars, devVars, lapped>>
    BY <2>1, <2>2 DEF TypeOK, Answer, DownMessage
  <2>3. m.req.op \in {"alloc", "release"} => m.req.of \in Services
    BY <2>1 DEF Request, Version
  <2>4. NoInfo \in Info /\ \A s \in Services, c \in Cids : [svc |-> s, cid |-> c] \in Info
    BY DEF Info
  <2>5. CASE ModemAnswersCall(m) \/ ModemRefuses(m)
    BY <2>2, <2>4, <2>5 DEF ModemAnswersCall, ModemRefuses, TypeOK
  <2>6. CASE ModemListsServices(m)
    BY <2>2, <2>4, <2>6 DEF ModemListsServices, TypeOK
  <2>7. CASE ModemAllocates(m)
    BY <2>2, <2>3, <2>4, <2>7 DEF ModemAllocates, TypeOK
  <2>8. CASE ModemReleases(m)
    BY <2>2, <2>3, <2>4, <2>8 DEF ModemReleases, TypeOK
  <2>9. CASE ModemIgnores(m)
    BY <2>9 DEF ModemIgnores, TypeOK
  <2>10. QED
    BY <1>12, <2>5, <2>6, <2>7, <2>8, <2>9
<1>13. CASE UNCHANGED vars
  BY <1>13 DEF vars, TypeOK
<1>14. QED
  BY <1>1, <1>2, <1>3, <1>4, <1>5, <1>6, <1>7, <1>8, <1>10, <1>11, <1>12, <1>13
  DEF Next, Receiving, Modem
(* Every reachable state of the request layer has the declared types, for    *)
(* any services, calls, client ids and transaction id widths.                *)
THEOREM TypeCorrect == Spec => []TypeOK
<1>1. Init => TypeOK
  BY InitType
<1>2. TypeOK /\ [Next]_vars => TypeOK'
  BY NextType
<1>3. QED
  BY <1>1, <1>2, PTL DEF Spec

-----------------------------------------------------------------------------
(* Request lists.                                                            *)

(* An empty list lists nothing.                                             *)
LEMMA EmptyLists == ListsExactly(<<>>, {})
  BY DEF ListsExactly, Positions, Contains, IsInjective

(* Pushing an element that is not in the list yet.                          *)
LEMMA ConsLists ==
  ASSUME NEW R, NEW list \in Seq(R), NEW S \in SUBSET R, ListsExactly(list, S),
         NEW q \in R, q \notin S
  PROVE  Cons(q, list) \in Seq(R) /\ ListsExactly(Cons(q, list), S \cup {q})
<1> DEFINE new == Cons(q, list)
<1>1. /\ new \in Seq(R) /\ Len(new) = Len(list) + 1 /\ new[1] = q
      /\ \A i \in 1 .. Len(list) : new[i + 1] = list[i]
      /\ \A j \in 1 .. Len(new) : j = 1 \/ (j - 1 \in 1 .. Len(list) /\ new[j] = list[j - 1])
  BY DEF Cons
<1>2. DOMAIN list = 1 .. Len(list) /\ DOMAIN new = 1 .. Len(new)
  BY <1>1
<1> HIDE DEF new
<1>3. \A i \in Positions(new) : new[i] \in S \cup {q}
  BY <1>1 DEF ListsExactly, Positions
<1>4. \A x \in S \cup {q} : Contains(new, x)
  <2>1. Contains(new, q)
    BY <1>1 DEF Contains
  <2>2. ASSUME NEW x \in S PROVE Contains(new, x)
    <3>1. PICK i \in 1 .. Len(list) : list[i] = x
      BY DEF ListsExactly, Contains
    <3>2. new[i + 1] = x /\ i + 1 \in 1 .. Len(new)
      BY <1>1, <3>1
    <3>3. QED
      BY <3>2 DEF Contains
  <2>3. QED
    BY <2>1, <2>2
<1>5. IsInjective(new)
  <2> SUFFICES ASSUME NEW a \in 1 .. Len(new), NEW b \in 1 .. Len(new), new[a] = new[b]
               PROVE  a = b
    BY <1>2 DEF IsInjective
  <2>1. CASE a = 1
    BY <1>1, <2>1 DEF ListsExactly, Positions
  <2>2. CASE b = 1
    BY <1>1, <2>2 DEF ListsExactly, Positions
  <2>3. CASE a # 1 /\ b # 1
    <3>1. list[a - 1] = list[b - 1] /\ a - 1 \in 1 .. Len(list) /\ b - 1 \in 1 .. Len(list)
      BY <1>1, <2>3
    <3>2. a - 1 = b - 1
      BY <3>1, <1>2 DEF ListsExactly, IsInjective
    <3>3. QED
      BY <3>2
  <2>4. QED
    BY <2>1, <2>2, <2>3
<1>6. QED
  BY <1>1, <1>3, <1>4, <1>5 DEF ListsExactly, new

(* Removing the i-th element.                                               *)
LEMMA RemoveLists ==
  ASSUME NEW R, NEW list \in Seq(R), NEW S \in SUBSET R, ListsExactly(list, S),
         NEW i \in 1 .. Len(list)
  PROVE  /\ RemoveAt(list, i) \in Seq(R)
         /\ list[i] \in S
         /\ ListsExactly(RemoveAt(list, i), S \ {list[i]})
<1> DEFINE new == RemoveAt(list, i)
<1>1. /\ new \in Seq(R) /\ Len(new) = Len(list) - 1
      /\ \A j \in 1 .. Len(new) : new[j] = IF j < i THEN list[j] ELSE list[j + 1]
  <2> DEFINE A == SubSeq(list, 1, i - 1)
             B == SubSeq(list, i + 1, Len(list))
  <2>1. A \in Seq(R) /\ Len(A) = i - 1 /\ \A j \in 1 .. i - 1 : A[j] = list[j]
    OBVIOUS
  <2>2. B \in Seq(R) /\ Len(B) = Len(list) - i /\ \A j \in 1 .. Len(list) - i : B[j] = list[i + j]
    OBVIOUS
  <2>3. new = A \o B
    BY DEF RemoveAt
  <2> HIDE DEF A, B, new
  <2>4. /\ new \in Seq(R) /\ Len(new) = Len(list) - 1
        /\ \A j \in 1 .. Len(new) : new[j] = IF j <= i - 1 THEN A[j] ELSE B[j - (i - 1)]
    <3>1. Len(list) \in Nat /\ i - 1 + (Len(list) - i) = Len(list) - 1
      OBVIOUS
    <3>2. i - 1 \in Nat /\ Len(list) - i \in Nat
      OBVIOUS
    <3>3. /\ A \o B \in Seq(R) /\ Len(A \o B) = (i - 1) + (Len(list) - i)
          /\ \A j \in 1 .. (i - 1) + (Len(list) - i) :
                (A \o B)[j] = IF j <= i - 1 THEN A[j] ELSE B[j - (i - 1)]
      <4>1. A \in Seq(R) /\ B \in Seq(R)
        BY <2>1, <2>2
      <4>2. PICK a \in Nat, b \in Nat : /\ a = i - 1 /\ b = Len(list) - i
                                       /\ Len(A) = a /\ Len(B) = b
        BY <2>1, <2>2, <3>2
      <4>3. /\ A \o B \in Seq(R) /\ Len(A \o B) = a + b
            /\ \A j \in 1 .. a + b : (A \o B)[j] = IF j <= a THEN A[j] ELSE B[j - a]
        BY <4>1, <4>2
      <4>4. QED
        BY <4>2, <4>3
    <3>4. QED
      BY <2>3, <3>1, <3>3
  <2>5. ASSUME NEW j \in 1 .. Len(new) PROVE new[j] = IF j < i THEN list[j] ELSE list[j + 1]
    <3>1. CASE j < i
      BY <2>1, <2>4, <3>1
    <3>2. CASE ~(j < i)
      <4>1. new[j] = B[j - (i - 1)] /\ j - (i - 1) \in 1 .. Len(list) - i
        BY <2>4, <3>2
      <4>2. i + (j - (i - 1)) = j + 1
        BY <3>2
      <4>3. QED
        BY <2>2, <4>1, <4>2, <3>2
    <3>3. QED
      BY <3>1, <3>2
  <2>6. QED
    BY <2>4, <2>5
<1>2. DOMAIN list = 1 .. Len(list) /\ DOMAIN new = 1 .. Len(new)
  BY <1>1
<1> HIDE DEF new
<1>3. list[i] \in S
  BY DEF ListsExactly, Positions
<1>4. \A a, b \in 1 .. Len(list) : list[a] = list[b] => a = b
  BY <1>2 DEF ListsExactly, IsInjective
<1>5. ASSUME NEW j \in Positions(new) PROVE new[j] \in S \ {list[i]}
  <2>1. j \in 1 .. Len(new) /\ Len(list) \in Nat /\ Len(new) = Len(list) - 1
    BY <1>1 DEF Positions
  <2>2. \A k \in 1 .. Len(list) : list[k] \in S
    BY DEF ListsExactly, Positions
  <2>3. PICK k \in 1 .. Len(list) : k # i /\ new[j] = list[k]
    <3>1. CASE j < i
      <4>1. j \in 1 .. Len(list) /\ j # i /\ new[j] = list[j]
        BY <1>1, <2>1, <3>1
      <4>2. QED
        BY <4>1
    <3>2. CASE ~(j < i)
      <4>1. j + 1 \in 1 .. Len(list) /\ j + 1 # i /\ new[j] = list[j + 1]
        BY <1>1, <2>1, <3>2
      <4>2. QED
        BY <4>1
    <3>3. QED
      BY <3>1, <3>2
  <2>4. QED
    BY <2>2, <2>3, <1>4
<1>6. ASSUME NEW x \in S \ {list[i]} PROVE Contains(new, x)
  <2>1. PICK k \in 1 .. Len(list) : list[k] = x
    BY DEF ListsExactly, Contains
  <2>2. CASE k < i
    <3>1. k \in 1 .. Len(new) /\ new[k] = x
      BY <1>1, <2>1, <2>2
    <3>2. QED
      BY <3>1 DEF Contains
  <2>3. CASE k > i
    <3>1. k - 1 \in 1 .. Len(new) /\ new[k - 1] = x
      BY <1>1, <2>1, <2>3
    <3>2. QED
      BY <3>1 DEF Contains
  <2>4. QED
    BY <2>1, <2>2, <2>3
<1>7. IsInjective(new)
  <2> SUFFICES ASSUME NEW a \in 1 .. Len(new), NEW b \in 1 .. Len(new), new[a] = new[b]
               PROVE  a = b
    BY <1>2 DEF IsInjective
  <2>1. QED
    BY <1>1, <1>4
<1>8. QED
  BY <1>1, <1>3, <1>5, <1>6, <1>7 DEF ListsExactly, new

(* A batch put in front of a list of other requests, each once.             *)
LEMMA FrontLists ==
  ASSUME NEW R, NEW list \in Seq(R), NEW S \in SUBSET R, ListsExactly(list, S),
         NEW batch \in SUBSET R, batch \cap S = {}, NEW n \in Nat,
         NEW rank \in Bijection(batch, 1 .. n),
         NEW front \in [1 .. n -> batch], \A k \in 1 .. n : rank[front[k]] = n + 1 - k
  PROVE  front \o list \in Seq(R) /\ ListsExactly(front \o list, S \cup batch)
<1> DEFINE new == front \o list
<1>1. /\ rank \in [batch -> 1 .. n]
      /\ \A j \in 1 .. n : \E q \in batch : rank[q] = j
      /\ \A p, q \in batch : rank[p] = rank[q] => p = q
  BY DEF Bijection, Injection, Surjection, IsInjective
<1>2. \A k \in 1 .. n : front[k] \in batch /\ rank[front[k]] = n + 1 - k
  OBVIOUS
<1>3. front \in Seq(R) /\ Len(front) = n /\ DOMAIN front = 1 .. n
  <2>1. front \in [1 .. n -> R]
    OBVIOUS
  <2>2. front \in UNION {[1 .. k -> R] : k \in Nat}
    BY <2>1
  <2>3. front \in Seq(R)
    BY <2>2, SeqDef
  <2>4. QED
    BY <2>1, <2>3
<1>4. /\ new \in Seq(R) /\ Len(new) = n + Len(list)
      /\ \A k \in 1 .. n : new[k] = front[k]
      /\ \A k \in 1 .. Len(list) : new[n + k] = list[k]
      /\ \A k \in 1 .. Len(new) : k \in 1 .. n \/ (k - n \in 1 .. Len(list) /\ new[k] = list[k - n])
  <2>1. Len(list) \in Nat
    OBVIOUS
  <2>2. /\ new \in Seq(R) /\ Len(new) = n + Len(list)
        /\ \A j \in 1 .. n + Len(list) : new[j] = IF j <= n THEN front[j] ELSE list[j - n]
    <3>1. \A f, g \in Seq(R) : /\ f \o g \in Seq(R) /\ Len(f \o g) = Len(f) + Len(g)
                               /\ \A j \in 1 .. Len(f) + Len(g) :
                                     (f \o g)[j] = IF j <= Len(f) THEN f[j] ELSE g[j - Len(f)]
      OBVIOUS
    <3>2. QED
      BY <1>3, <2>1, <3>1
  <2> HIDE DEF new
  <2>3. QED
    BY <2>1, <2>2
<1> HIDE DEF new
<1>5. DOMAIN list = 1 .. Len(list) /\ DOMAIN new = 1 .. Len(new)
  BY <1>4
<1>6. \A i \in Positions(new) : new[i] \in S \cup batch
  BY <1>2, <1>4 DEF ListsExactly, Positions
<1>7. ASSUME NEW x \in S PROVE Contains(new, x)
  <2>1. PICK k \in 1 .. Len(list) : list[k] = x
    BY DEF ListsExactly, Contains
  <2>2. n + k \in 1 .. Len(new) /\ new[n + k] = x
    BY <1>4, <2>1
  <2>3. QED
    BY <2>2 DEF Contains
<1>8. ASSUME NEW x \in batch PROVE Contains(new, x)
  <2>1. n + 1 - rank[x] \in 1 .. n
    BY <1>1
  <2>2. rank[front[n + 1 - rank[x]]] = rank[x]
    <3>1. rank[x] \in 1 .. n
      BY <1>1
    <3>2. n + 1 - (n + 1 - rank[x]) = rank[x]
      BY <3>1
    <3>3. QED
      BY <1>2, <2>1, <3>2
  <2>3. new[n + 1 - rank[x]] = x /\ n + 1 - rank[x] \in 1 .. Len(new)
    BY <1>1, <1>2, <1>4, <2>1, <2>2
  <2>4. QED
    BY <2>3 DEF Contains
<1>9. IsInjective(new)
  <2> SUFFICES ASSUME NEW a \in 1 .. Len(new), NEW b \in 1 .. Len(new), new[a] = new[b]
               PROVE  a = b
    BY <1>5 DEF IsInjective
  <2>1. CASE a \in 1 .. n /\ b \in 1 .. n
    <3>1. n + 1 - a = n + 1 - b
      BY <1>2, <1>4, <2>1
    <3>2. QED
      BY <3>1
  <2>2. CASE a \in 1 .. n /\ b \notin 1 .. n
    BY <1>2, <1>4, <2>2 DEF ListsExactly, Positions
  <2>3. CASE a \notin 1 .. n /\ b \in 1 .. n
    BY <1>2, <1>4, <2>3 DEF ListsExactly, Positions
  <2>4. CASE a \notin 1 .. n /\ b \notin 1 .. n
    <3>1. list[a - n] = list[b - n] /\ a - n \in 1 .. Len(list) /\ b - n \in 1 .. Len(list)
      BY <1>4, <2>4
    <3>2. a - n = b - n
      BY <3>1, <1>5 DEF ListsExactly, IsInjective
    <3>3. QED
      BY <3>2
  <2>5. QED
    BY <2>1, <2>2, <2>3, <2>4
<1>10. QED
  BY <1>4, <1>6, <1>7, <1>8, <1>9 DEF ListsExactly, new

(* Pushing the requests of a batch one after the other.                     *)
LEMMA PushLists ==
  ASSUME NEW R, NEW list \in Seq(R), NEW S \in SUBSET R, ListsExactly(list, S),
         NEW batch \in SUBSET R, batch \cap S = {}, Cardinality(batch) \in Nat,
         NEW rank \in PushOrders(batch)
  PROVE  ListsExactly(Pushed(rank) \o list, S \cup batch)
<1> DEFINE n == Cardinality(batch)
           front == Pushed(rank)
<1>1. n \in Nat /\ rank \in Bijection(batch, 1 .. n)
  BY DEF PushOrders
<1>2. front = [k \in 1 .. n |-> CHOOSE q \in batch : rank[q] = n + 1 - k]
  BY OrderDomains DEF Pushed
<1> HIDE DEF n, front
<1>3. \A j \in 1 .. n : \E q \in batch : rank[q] = j
  BY <1>1 DEF Bijection, Surjection
<1>4. ASSUME NEW k \in 1 .. n PROVE front[k] \in batch /\ rank[front[k]] = n + 1 - k
  <2>1. n + 1 - k \in 1 .. n
    BY <1>1
  <2>2. \E q \in batch : rank[q] = n + 1 - k
    BY <1>3, <2>1
  <2>3. QED
    BY <1>2, <2>2
<1>5. front \in [1 .. n -> batch]
  BY <1>2, <1>4
<1>6. \A k \in 1 .. n : rank[front[k]] = n + 1 - k
  BY <1>4
<1>7. ListsExactly(front \o list, S \cup batch)
  BY <1>1, <1>5, <1>6, FrontLists
<1>8. QED
  BY <1>7 DEF front

-----------------------------------------------------------------------------
(* The lists stay exact, and the requests follow the device's life.          *)

(* Transmission changes no phase but that of the requests transmitted.      *)
LEMMA TransmitPhase ==
  ASSUME NEW s, NEW U, NEW rank, DOMAIN rank = U, NEW c, NEW ph, Transmit(s, rank, c, ph)
  PROVE  phase' = [q \in Request |-> IF q \in U THEN "pending" ELSE ph[q]]
  BY DEF Transmit

(* Pushing a new request on the list of its service.                        *)
LEMMA PushStep ==
  ASSUME TypeOK, ListsAreExact, NEW s \in AllServices, NEW q \in Request,
         To(q) = s, phase[q] = "new",
         reqs'[s] = Cons(q, reqs[s]), Waiting(s)' = Waiting(s) \cup {q}
  PROVE  ListsExactly(reqs[s], Waiting(s))'
<1>1. q \notin Waiting(s) /\ Waiting(s) \in SUBSET Request
  BY DEF Waiting
<1>2. reqs[s] \in Seq(Request) /\ ListsExactly(reqs[s], Waiting(s))
  BY DEF TypeOK, ListsAreExact
<1> HIDE DEF Waiting
<1>3. ListsExactly(Cons(q, reqs[s]), Waiting(s) \cup {q})
  BY <1>1, <1>2, ConsLists
<1>4. QED
  BY <1>3 DEF ListsExactly

(* A service whose list and requests a step leaves alone.                   *)
LEMMA SameStep ==
  ASSUME ListsAreExact, NEW s \in AllServices,
         reqs'[s] = reqs[s], Waiting(s)' = Waiting(s)
  PROVE  ListsExactly(reqs[s], Waiting(s))'
<1>1. ListsExactly(reqs[s], Waiting(s))
  BY DEF ListsAreExact
<1> HIDE DEF Waiting
<1>2. QED
  BY <1>1 DEF ListsExactly

(* A call is queued once, on its own service, with its allocation on CTL.   *)
LEMMA SendCallLists ==
  ASSUME TypeOK, TypeOK', ListsAreExact, LifeStages, NoneStranded,
         NEW c \in Calls, SendCall(c)
  PROVE  ListsAreExact'
<1> DEFINE s == Target[c]
           q == Call(c)
           queued == [phase EXCEPT ![q] = "queued"]
<1>1. /\ s \in AllServices /\ q \in Request /\ CTL \in AllServices /\ To(q) = s
      /\ phase[q] = "new" /\ state[s] # "NONE" /\ open /\ state[CTL] = "READY"
  BY RequestFacts DEF AllServices, SendCall, LifeStages
<1>2. CASE state[s] = "IDLE"
  <2>1. s \in Services /\ s # CTL
    BY <1>1, <1>2 DEF TypeOK, AllServices
  <2>2. /\ Alloc(s) \in Request /\ To(Alloc(s)) = CTL /\ phase[Alloc(s)] = "new"
    BY <1>2, <2>1, RequestFacts DEF NoneStranded
  <2>3. phase' = [p \in Request |-> IF p \in {Alloc(s)} THEN "pending" ELSE queued[p]]
    <3>1. Transmit(CTL, Alone(Alloc(s)), NoCid, queued)
      BY <1>2 DEF SendCall
    <3> HIDE DEF s, q, queued
    <3>2. QED
      BY <3>1 DEF Transmit, Alone
  <2>4. \A p \in Request : phase'[p] = IF p = Alloc(s) THEN "pending"
                                       ELSE IF p = q THEN "queued" ELSE phase[p]
    BY <1>1, <2>3 DEF TypeOK
  <2>5. /\ reqs' = [reqs EXCEPT ![s] = Cons(q, @), ![CTL] = Cons(Alloc(s), @)]
        /\ state' = [state EXCEPT ![s] = "WAIT_CID"]
    BY <1>2 DEF SendCall
  <2> HIDE DEF s, q, queued
  <2>6. /\ reqs'[s] = Cons(q, reqs[s]) /\ reqs'[CTL] = Cons(Alloc(s), reqs[CTL])
        /\ \A t \in AllServices \ {s, CTL} : reqs'[t] = reqs[t]
        /\ \A t \in AllServices : state'[t] = IF t = s THEN "WAIT_CID" ELSE state[t]
    BY <1>1, <2>1, <2>5 DEF TypeOK
  <2>7. ListsExactly(reqs[s], Waiting(s))'
    <3>1. Waiting(s)' = Waiting(s) \cup {q}
      BY <1>1, <2>1, <2>2, <2>4 DEF Waiting
    <3>2. QED
      BY <1>1, <2>6, <3>1, PushStep
  <2>8. ListsExactly(reqs[CTL], Waiting(CTL))'
    <3>1. Waiting(CTL)' = Waiting(CTL) \cup {Alloc(s)}
      BY <1>1, <2>1, <2>2, <2>4 DEF Waiting
    <3>2. QED
      BY <1>1, <2>2, <2>6, <3>1, PushStep
  <2>9. ASSUME NEW t \in AllServices \ {s, CTL} PROVE ListsExactly(reqs[t], Waiting(t))'
    <3>1. Waiting(t)' = Waiting(t)
      BY <1>1, <2>1, <2>2, <2>4, <2>9 DEF Waiting
    <3>2. QED
      BY <2>6, <2>9, <3>1, SameStep
  <2>10. \A t \in AllServices : state'[t] = "NONE" => reqs'[t] = <<>>
    BY <1>1, <2>6 DEF ListsAreExact
  <2>11. QED
    BY <2>7, <2>8, <2>9, <2>10 DEF ListsAreExact
<1>3. CASE state[s] # "IDLE"
  <2>1. PICK rank \in WalkOrders(Cons(q, reqs[s]), Unsent(s) \cup {q}) :
           Transmit(s, rank, IF s = CTL THEN NoCid ELSE client[s], queued)
    BY <1>3 DEF SendCall
  <2>2. phase' = [p \in Request |-> IF p \in Unsent(s) \cup {q} THEN "pending" ELSE queued[p]]
    <3> HIDE DEF s, q, queued
    <3>1. QED
      BY <2>1, TransmitPhase, OrderDomains
  <2>3. \A p \in Request : phase'[p] = IF p \in Unsent(s) \cup {q} THEN "pending" ELSE phase[p]
    BY <1>1, <2>2 DEF TypeOK
  <2>4. reqs' = [reqs EXCEPT ![s] = Cons(q, @)] /\ state' = state
    BY <1>3 DEF SendCall
  <2> HIDE DEF s, q, queued
  <2>5. \A p \in Unsent(s) : p \in Request /\ phase[p] = "queued"
    BY DEF Unsent
  <2>6. ListsExactly(reqs[s], Waiting(s))'
    <3>1. Waiting(s)' = Waiting(s) \cup {q}
      BY <1>1, <2>3, <2>5 DEF Waiting
    <3>2. reqs'[s] = Cons(q, reqs[s])
      BY <1>1, <2>4 DEF TypeOK
    <3>3. QED
      BY <1>1, <3>1, <3>2, PushStep
  <2>7. ASSUME NEW t \in AllServices \ {s} PROVE ListsExactly(reqs[t], Waiting(t))'
    <3>1. Waiting(t)' = Waiting(t)
      BY <1>1, <2>3, <2>5, <2>7 DEF Waiting
    <3>2. reqs'[t] = reqs[t]
      BY <2>4 DEF TypeOK
    <3>3. QED
      BY <2>7, <3>1, <3>2, SameStep
  <2>8. \A t \in AllServices : state'[t] = "NONE" => reqs'[t] = <<>>
    BY <1>1, <2>4 DEF ListsAreExact, TypeOK
  <2>9. QED
    BY <2>6, <2>7, <2>8 DEF ListsAreExact
<1>4. QED
  BY <1>2, <1>3

(* The version request is queued once, on CTL.                              *)
LEMMA SendVersionLists ==
  ASSUME TypeOK, TypeOK', ListsAreExact, LifeStages, SendVersion
  PROVE  ListsAreExact'
<1>1. /\ Version \in Request /\ To(Version) = CTL /\ CTL \in AllServices
      /\ phase[Version] = "new" /\ open /\ state[CTL] = "READY"
  BY RequestFacts DEF AllServices, SendVersion, LifeStages
<1>2. phase' = [p \in Request |-> IF p \in {Version} THEN "pending" ELSE phase[p]]
  BY DEF SendVersion, Transmit, Alone
<1>3. reqs' = [reqs EXCEPT ![CTL] = Cons(Version, @)] /\ state' = state
  BY DEF SendVersion
<1>4. ListsExactly(reqs[CTL], Waiting(CTL))'
  <2>1. Waiting(CTL)' = Waiting(CTL) \cup {Version}
    BY <1>1, <1>2 DEF Waiting
  <2>2. reqs'[CTL] = Cons(Version, reqs[CTL])
    BY <1>1, <1>3 DEF TypeOK
  <2>3. QED
    BY <1>1, <2>1, <2>2, PushStep
<1>5. ASSUME NEW t \in AllServices \ {CTL} PROVE ListsExactly(reqs[t], Waiting(t))'
  <2>1. Waiting(t)' = Waiting(t)
    BY <1>1, <1>2, <1>5 DEF Waiting
  <2>2. reqs'[t] = reqs[t]
    BY <1>3, <1>5 DEF TypeOK
  <2>3. QED
    BY <1>5, <2>1, <2>2, SameStep
<1>6. \A t \in AllServices : state'[t] = "NONE" => reqs'[t] = <<>>
  BY <1>1, <1>3 DEF ListsAreExact, TypeOK
<1>7. QED
  BY <1>4, <1>5, <1>6 DEF ListsAreExact

(* Receiving an answer takes its request off the list and out of the        *)
(* requests that wait, whatever the callback then does.                     *)
ReceivedOne(m, i) ==
    LET q == reqs[m.svc][i] IN
    /\ m.svc \in AllServices /\ q \in Request /\ To(q) = m.svc /\ phase[q] = "pending"
    /\ \A p \in Request : Completed(m, i)[p] = IF p = q THEN "complete" ELSE phase[p]
    /\ ListsExactly(Unlinked(m, i)[m.svc], Waiting(m.svc) \ {q})
    /\ \A t \in AllServices \ {m.svc} : Unlinked(m, i)[t] = reqs[t]
    /\ state[m.svc] # "NONE"

(* The request an answer is read for leaves its list.                       *)
LEMMA CompletedLists ==
  ASSUME TypeOK, ListsAreExact, NEW m \in down, NEW i \in Positions(reqs[m.svc]),
         NEW op, Receive(m, i, op)
  PROVE  ReceivedOne(m, i)
<1> DEFINE s == m.svc
           q == reqs[m.svc][i]
<1>1. s \in AllServices /\ q \in Request
  BY ReceiveType
<1>2. reqs[s] \in Seq(Request) /\ i \in 1 .. Len(reqs[s]) /\ ListsExactly(reqs[s], Waiting(s))
      /\ Waiting(s) \in SUBSET Request
  BY <1>1 DEF TypeOK, Positions, ListsAreExact, Waiting
<1>3. To(q) = s
  BY <1>2 DEF ListsExactly, Positions, Waiting
<1>4. phase[q] = "pending"
  BY DEF Receive
<1>5. \A p \in Request : Completed(m, i)[p] = IF p = q THEN "complete" ELSE phase[p]
  BY <1>1 DEF Completed, TypeOK
<1>6. ListsExactly(RemoveAt(reqs[s], i), Waiting(s) \ {q})
  <2> HIDE DEF Waiting
  <2>1. QED
    BY <1>2, RemoveLists
<1>7. Unlinked(m, i)[s] = RemoveAt(reqs[s], i) /\ \A t \in AllServices \ {s} : Unlinked(m, i)[t] = reqs[t]
  BY <1>1 DEF Unlinked, TypeOK
<1>8. state[s] # "NONE"
  <2>1. reqs[s] # <<>>
    BY <1>2
  <2>2. QED
    BY <1>1, <2>1 DEF ListsAreExact
<1>9. QED
  BY <1>1, <1>3, <1>4, <1>5, <1>6, <1>7, <1>8 DEF ReceivedOne

(* A list that loses exactly the request completed.                         *)
LEMMA UnlinkStep ==
  ASSUME TypeOK, ListsAreExact, NEW m \in down, NEW i \in Positions(reqs[m.svc]),
         NEW op, Receive(m, i, op), reqs' = Unlinked(m, i),
         \A p \in Request : Completed(m, i)[p] \in {"queued", "pending"}
                               <=> phase'[p] \in {"queued", "pending"}
  PROVE  \A t \in AllServices : ListsExactly(reqs[t], Waiting(t))'
<1> DEFINE q == reqs[m.svc][i]
<1>0. ReceivedOne(m, i)
  BY CompletedLists
<1>1. Waiting(m.svc)' = Waiting(m.svc) \ {q}
  BY <1>0 DEF ReceivedOne, Waiting
<1>2. ListsExactly(reqs[m.svc], Waiting(m.svc))'
  <2>1. ListsExactly(Unlinked(m, i)[m.svc], Waiting(m.svc) \ {q})
    BY <1>0 DEF ReceivedOne
  <2> HIDE DEF Waiting
  <2>2. QED
    BY <2>1, <1>1 DEF ListsExactly
<1>3. ASSUME NEW t \in AllServices \ {m.svc} PROVE ListsExactly(reqs[t], Waiting(t))'
  <2>1. Waiting(t)' = Waiting(t)
    BY <1>0, <1>3 DEF ReceivedOne, Waiting
  <2>2. reqs'[t] = reqs[t]
    BY <1>0, <1>3 DEF ReceivedOne
  <2>3. QED
    BY <1>3, <2>1, <2>2, SameStep
<1>4. QED
  BY <1>2, <1>3

(* Answers to calls, version lists and allocations keep the lists exact.    *)
LEMMA ReceiveLists ==
  ASSUME TypeOK, TypeOK', ListsAreExact, LifeStages,
         NEW m \in down, NEW i \in Positions(reqs[m.svc]),
         ReceiveCall(m, i) \/ ReceiveVersion(m, i) \/ ReceiveAlloc(m, i)
  PROVE  ListsAreExact'
<1>0. ASSUME NEW op, Receive(m, i, op) PROVE ReceivedOne(m, i)
  BY <1>0, CompletedLists
<1>1. CASE ReceiveCall(m, i)
  <2>1. Receive(m, i, "call") /\ reqs' = Unlinked(m, i) /\ phase' = Completed(m, i) /\ state' = state
    BY <1>1 DEF ReceiveCall, svcVars
  <2>2. \A t \in AllServices : ListsExactly(reqs[t], Waiting(t))'
    BY <2>1, UnlinkStep
  <2>3. \A t \in AllServices : state'[t] = "NONE" => reqs'[t] = <<>>
    BY <2>1, <1>0 DEF ReceivedOne, ListsAreExact
  <2>4. QED
    BY <2>2, <2>3 DEF ListsAreExact
<1>2. CASE ReceiveVersion(m, i)
  <2>1. Receive(m, i, "version") /\ reqs' = Unlinked(m, i) /\ phase' = Completed(m, i)
    BY <1>2 DEF ReceiveVersion
  <2>2. \A t \in AllServices : ListsExactly(reqs[t], Waiting(t))'
    BY <2>1, UnlinkStep
  <2>3. \A t \in AllServices : state'[t] = "NONE" => state[t] = "NONE"
    BY <1>2 DEF ReceiveVersion
  <2>4. \A t \in AllServices : state'[t] = "NONE" => reqs'[t] = <<>>
    BY <2>1, <2>3, <1>0 DEF ReceivedOne, ListsAreExact
  <2>5. QED
    BY <2>2, <2>4 DEF ListsAreExact
<1>3. CASE ReceiveAlloc(m, i)
  <2> DEFINE s == m.info.svc
  <2>1. Receive(m, i, "alloc") /\ reqs' = Unlinked(m, i)
    BY <1>3 DEF ReceiveAlloc
  <2>2. CASE m.info = NoInfo \/ state[s] = "NONE"
    <3>1. phase' = Completed(m, i) /\ state' = state
      BY <1>3, <2>2 DEF ReceiveAlloc, svcVars
    <3>2. \A t \in AllServices : ListsExactly(reqs[t], Waiting(t))'
      BY <2>1, <3>1, UnlinkStep
    <3>3. \A t \in AllServices : state'[t] = "NONE" => reqs'[t] = <<>>
      BY <2>1, <3>1, <1>0 DEF ReceivedOne, ListsAreExact
    <3>4. QED
      BY <3>2, <3>3 DEF ListsAreExact
  <2>3. CASE ~(m.info = NoInfo \/ state[s] = "NONE")
    <3>1. s \in Services /\ s # CTL /\ s \in AllServices
      BY <2>1, <2>3, ReceiveType DEF Info, AllServices
    <3>2. PICK rank \in WalkOrders(reqs[s], Unsent(s)) :
             Transmit(s, rank, m.info.cid, Completed(m, i))
      BY <1>3, <2>3 DEF ReceiveAlloc
    <3>3. phase' = [p \in Request |-> IF p \in Unsent(s) THEN "pending" ELSE Completed(m, i)[p]]
      <4> HIDE DEF s
      <4>1. QED
        BY <3>2, TransmitPhase, OrderDomains
    <3>4. \A p \in Request : Completed(m, i)[p] \in {"queued", "pending"}
                                <=> phase'[p] \in {"queued", "pending"}
      <4>1. \A p \in Unsent(s) : p # reqs[m.svc][i] /\ phase[p] = "queued"
        BY <2>1, <1>0 DEF ReceivedOne, Unsent
      <4>2. QED
        BY <2>1, <3>3, <4>1, <1>0 DEF ReceivedOne
    <3>5. \A t \in AllServices : ListsExactly(reqs[t], Waiting(t))'
      BY <2>1, <3>4, UnlinkStep
    <3>6. \A t \in AllServices : state'[t] = "NONE" => state[t] = "NONE"
      BY <1>3, <2>3, <3>1 DEF ReceiveAlloc, TypeOK
    <3>7. \A t \in AllServices : state'[t] = "NONE" => reqs'[t] = <<>>
      BY <2>1, <3>6, <1>0 DEF ReceivedOne, ListsAreExact
    <3>8. QED
      BY <3>5, <3>7 DEF ListsAreExact
  <2>4. QED
    BY <2>2, <2>3
<1>4. QED
  BY <1>1, <1>2, <1>3

(* The answer to a release empties the list of the service it frees.        *)
LEMMA ReleaseLists ==
  ASSUME TypeOK, TypeOK', ListsAreExact, LifeStages,
         NEW m \in down, NEW i \in Positions(reqs[m.svc]), ReceiveRelease(m, i)
  PROVE  ListsAreExact'
<1> DEFINE s == m.info.svc
           q == reqs[m.svc][i]
<1>1. Receive(m, i, "release")
  BY DEF ReceiveRelease
<1>2. ReceivedOne(m, i)
  BY <1>1, CompletedLists
<1>3. CASE m.info = NoInfo \/ state[s] = "NONE"
  <2>1. phase' = Completed(m, i) /\ state' = state /\ reqs' = Unlinked(m, i)
    BY <1>3 DEF ReceiveRelease
  <2>2. \A t \in AllServices : ListsExactly(reqs[t], Waiting(t))'
    BY <1>1, <2>1, UnlinkStep
  <2>3. \A t \in AllServices : state'[t] = "NONE" => reqs'[t] = <<>>
    BY <2>1, <1>2 DEF ReceivedOne, ListsAreExact
  <2>4. QED
    BY <2>2, <2>3 DEF ListsAreExact
<1>4. CASE ~(m.info = NoInfo \/ state[s] = "NONE")
  <2>1. s \in Services /\ s # CTL /\ s \in AllServices
    BY <1>1, <1>4, ReceiveType DEF Info, AllServices
  <2>2. /\ phase' = FreedPhase({s}, Completed(m, i))
        /\ reqs' = [Unlinked(m, i) EXCEPT ![s] = <<>>]
        /\ state' = FreedState({s})
    BY <1>4 DEF ReceiveRelease
  <2> HIDE DEF s
  <2>3. q \in Request /\ To(q) = CTL /\ m.svc = CTL
    <3>1. q \in Request /\ To(q) = m.svc /\ q.op = "release"
      BY <1>1, <1>2 DEF ReceivedOne, Receive
    <3>2. QED
      BY <3>1 DEF To
  <2>4. \A p \in Request : phase'[p] = IF To(p) = s /\ Completed(m, i)[p] \in {"queued", "pending"}
                                       THEN "freed" ELSE Completed(m, i)[p]
    BY <2>2 DEF FreedPhase
  <2>5. /\ reqs'[s] = <<>>
        /\ \A t \in AllServices \ {s} : reqs'[t] = Unlinked(m, i)[t]
        /\ \A t \in AllServices : state'[t] = IF t = s THEN "NONE" ELSE state[t]
    <3>1. Unlinked(m, i) \in [AllServices -> Seq(Request)]
      BY <1>1, ReceiveType
    <3>2. QED
      BY <2>1, <2>2, <3>1 DEF FreedState
  <2>6. ListsExactly(reqs[s], Waiting(s))'
    <3>1. Waiting(s)' = {}
      BY <2>4 DEF Waiting
    <3>2. QED
      BY <2>5, <3>1, EmptyLists DEF ListsExactly
  <2>7. ListsExactly(reqs[CTL], Waiting(CTL))'
    <3>1. Waiting(CTL)' = Waiting(CTL) \ {q}
      BY <1>2, <2>1, <2>3, <2>4 DEF ReceivedOne, Waiting
    <3>2. reqs'[CTL] = Unlinked(m, i)[CTL] /\ ListsExactly(Unlinked(m, i)[CTL], Waiting(CTL) \ {q})
      BY <1>2, <2>1, <2>3, <2>5 DEF ReceivedOne
    <3> HIDE DEF Waiting
    <3>3. QED
      BY <3>1, <3>2 DEF ListsExactly
  <2>8. ASSUME NEW t \in AllServices \ {s, CTL} PROVE ListsExactly(reqs[t], Waiting(t))'
    <3>1. Waiting(t)' = Waiting(t)
      BY <1>2, <2>3, <2>4, <2>8 DEF ReceivedOne, Waiting
    <3>2. reqs'[t] = reqs[t]
      BY <1>2, <2>3, <2>5, <2>8 DEF ReceivedOne
    <3>3. QED
      BY <2>8, <3>1, <3>2, SameStep
  <2>9. \A t \in AllServices : state'[t] = "NONE" => reqs'[t] = <<>>
    BY <1>2, <2>3, <2>5 DEF ReceivedOne, ListsAreExact
  <2>10. QED
    BY <2>6, <2>7, <2>8, <2>9 DEF ListsAreExact
<1>5. QED
  BY <1>3, <1>4

(* Closing the device pushes the releases and empties the freed lists.      *)
LEMMA DeviceCloseLists ==
  ASSUME TypeOK, TypeOK', ListsAreExact, LifeStages, DeviceClose
  PROVE  ListsAreExact'
<1> DEFINE unready == {s \in Services : state[s] \in {"IDLE", "WAIT_CID"}}
           batch == {Release(s) : s \in {t \in Services : state[t] = "READY"}}
           n == Cardinality(batch)
<1>1. /\ batch \in SUBSET Request /\ n \in Nat /\ CTL \in AllServices /\ CTL \notin unready
      /\ \A p \in batch : To(p) = CTL /\ phase[p] = "new"
      /\ open /\ state[CTL] = "READY"
  BY RequestFacts, RequestCount DEF AllServices, LifeStages, DeviceClose
<1>2. PICK rank \in PushOrders(batch) :
        /\ reqs' = [s \in AllServices |->
                      IF s = CTL THEN Pushed(rank) \o reqs[CTL]
                      ELSE IF s \in unready THEN <<>> ELSE reqs[s]]
        /\ Transmit(CTL, rank, NoCid, FreedPhase(unready, phase))
  BY DEF DeviceClose
<1>3. phase' = [p \in Request |-> IF p \in batch THEN "pending" ELSE FreedPhase(unready, phase)[p]]
  <2> HIDE DEF batch, unready
  <2>1. QED
    BY <1>2, TransmitPhase, OrderDomains
<1>4. /\ \A t \in AllServices : state'[t] = IF t \in unready THEN "NONE" ELSE state[t]
      /\ \A t \in unready : t \in Services
  BY DEF DeviceClose, FreedState
<1> HIDE DEF batch, unready
<1>5. \A p \in Request : phase'[p] = IF p \in batch THEN "pending"
                                     ELSE IF To(p) \in unready /\ phase[p] \in {"queued", "pending"}
                                     THEN "freed" ELSE phase[p]
  BY <1>1, <1>3 DEF FreedPhase
<1>6. ListsExactly(reqs[CTL], Waiting(CTL))'
  <2>1. Waiting(CTL)' = Waiting(CTL) \cup batch
    BY <1>1, <1>5 DEF Waiting
  <2>2. Waiting(CTL) \in SUBSET Request /\ batch \cap Waiting(CTL) = {}
    BY <1>1 DEF Waiting
  <2>3. reqs'[CTL] = Pushed(rank) \o reqs[CTL]
    BY <1>1, <1>2
  <2>4. reqs[CTL] \in Seq(Request) /\ ListsExactly(reqs[CTL], Waiting(CTL))
    BY <1>1 DEF TypeOK, ListsAreExact
  <2>5. ListsExactly(reqs'[CTL], Waiting(CTL) \cup batch)
    <3>1. batch \in SUBSET Request /\ Cardinality(batch) \in Nat
      BY <1>1
    <3>2. DEFINE S == Waiting(CTL)
                 list == reqs[CTL]
    <3>3. /\ S \in SUBSET Request /\ batch \cap S = {}
          /\ list \in Seq(Request) /\ ListsExactly(list, S)
      BY <2>2, <2>4
    <3> HIDE DEF S, list
    <3>4. ListsExactly(Pushed(rank) \o list, S \cup batch)
      BY <1>2, <3>1, <3>3, PushLists
    <3>5. QED
      BY <2>3, <3>4 DEF S, list
  <2>6. QED
    BY <2>1, <2>5 DEF ListsExactly
<1>7. ASSUME NEW t \in AllServices \ {CTL}, t \in unready PROVE ListsExactly(reqs[t], Waiting(t))'
  <2>1. reqs'[t] = <<>>
    BY <1>2, <1>7
  <2>2. Waiting(t)' = {}
    BY <1>1, <1>5, <1>7 DEF Waiting
  <2>3. QED
    BY <2>1, <2>2, EmptyLists DEF ListsExactly
<1>8. ASSUME NEW t \in AllServices \ {CTL}, t \notin unready PROVE ListsExactly(reqs[t], Waiting(t))'
  <2>1. reqs'[t] = reqs[t]
    BY <1>2, <1>8
  <2>2. Waiting(t)' = Waiting(t)
    BY <1>1, <1>5, <1>8 DEF Waiting
  <2>3. QED
    BY <1>8, <2>1, <2>2, SameStep
<1>9. \A t \in AllServices : state'[t] = "NONE" => reqs'[t] = <<>>
  BY <1>1, <1>2, <1>4 DEF ListsAreExact
<1>10. QED
  BY <1>6, <1>7, <1>8, <1>9 DEF ListsAreExact

(* Closing for good empties every list.                                     *)
LEMMA CloseCallbackLists ==
  ASSUME TypeOK, CloseCallback
  PROVE  ListsAreExact'
<1>1. \A t \in AllServices : reqs'[t] = <<>>
  BY DEF CloseCallback
<1>2. \A p \in Request : phase'[p] \notin {"queued", "pending"}
  BY RequestFacts DEF CloseCallback, FreedPhase
<1>3. \A t \in AllServices : Waiting(t)' = {}
  BY <1>2 DEF Waiting
<1>4. QED
  BY <1>1, <1>3, EmptyLists DEF ListsAreExact, ListsExactly

(* A step that touches neither lists nor phases nor service states.         *)
LEMMA QuietLists ==
  ASSUME ListsAreExact, reqs' = reqs, phase' = phase, state' = state
  PROVE  ListsAreExact'
  BY DEF ListsAreExact, ListsExactly, Waiting

(* Every step keeps the lists exact.                                        *)
LEMMA ListsStep ==
  ASSUME TypeOK, TypeOK', ListsAreExact, LifeStages, NoneStranded, [Next]_vars
  PROVE  ListsAreExact'
<1> USE DEF svcVars, reqVars, devVars, modemVars
<1>1. ASSUME NEW c \in Calls, SendCall(c) PROVE ListsAreExact'
  BY <1>1, SendCallLists
<1>2. ASSUME SendVersion PROVE ListsAreExact'
  BY <1>2, SendVersionLists
<1>3. ASSUME NEW m \in down, DiscardMessage(m) PROVE ListsAreExact'
  BY <1>3, QuietLists DEF DiscardMessage
<1>4. ASSUME NEW m \in down, NEW i \in Positions(reqs[m.svc]),
             ReceiveCall(m, i) \/ ReceiveVersion(m, i) \/ ReceiveAlloc(m, i)
      PROVE  ListsAreExact'
  BY <1>4, ReceiveLists
<1>5. ASSUME NEW m \in down, NEW i \in Positions(reqs[m.svc]), ReceiveRelease(m, i)
      PROVE  ListsAreExact'
  BY <1>5, ReleaseLists
<1>6. ASSUME DeviceClose PROVE ListsAreExact'
  BY <1>6, DeviceCloseLists
<1>7. ASSUME ShutdownFires PROVE ListsAreExact'
  BY <1>7, CloseCallbackLists DEF ShutdownFires
<1>8. ASSUME ConnectionDies PROVE ListsAreExact'
  BY <1>8, CloseCallbackLists, QuietLists DEF ConnectionDies
<1>9. ASSUME Modem PROVE ListsAreExact'
  BY <1>9, QuietLists DEF Modem, ModemAnswersCall, ModemListsServices, ModemAllocates,
       ModemReleases, ModemRefuses, ModemIgnores, Answer
<1>10. CASE UNCHANGED vars
  BY <1>10, QuietLists DEF vars
<1>11. QED
  BY <1>1, <1>2, <1>3, <1>4, <1>5, <1>6, <1>7, <1>8, <1>9, <1>10 DEF Next, Receiving

-----------------------------------------------------------------------------
(* What each action does to the phases of the requests and the states of     *)
(* the services, request by request.                                        *)

(* A request is determined by its kind and its service or call.             *)
LEMMA RequestKinds ==
  /\ \A q \in Request : q.op \in {"call", "alloc", "release", "version"}
  /\ \A q \in Request : q.op = "call" => q.of \in Calls /\ q = Call(q.of)
  /\ \A q \in Request : q.op = "alloc" => q.of \in Services /\ q = Alloc(q.of)
  /\ \A q \in Request : q.op = "release" => q.of \in Services /\ q = Release(q.of)
  /\ \A q \in Request : q.op = "version" => q = Version
  /\ \A c : Call(c).op = "call" /\ Call(c).of = c
  /\ \A s : Alloc(s).op = "alloc" /\ Alloc(s).of = s
  /\ \A s : Release(s).op = "release" /\ Release(s).of = s
  /\ Version.op = "version"
  BY DEF Request, Call, Alloc, Release, Version

SentIdle(c) ==
    LET s == Target[c] IN
    /\ s \in Services /\ phase[Alloc(s)] = "new" /\ state[s] = "IDLE"
    /\ \A p \in Request : phase'[p] = IF p = Alloc(s) THEN "pending"
                                      ELSE IF p = Call(c) THEN "queued" ELSE phase[p]
    /\ \A t \in AllServices : state'[t] = IF t = s THEN "WAIT_CID" ELSE state[t]

SentNow(c) ==
    LET s == Target[c] IN
    /\ s \in AllServices /\ state[s] \in {"WAIT_CID", "READY"}
    /\ \A p \in Request : phase'[p] = IF p \in Unsent(s) \cup {Call(c)} THEN "pending"
                                      ELSE phase[p]
    /\ state' = state

(* A call starts an allocation, or transmits what its service has queued.   *)
LEMMA SendCallEffect ==
  ASSUME TypeOK, NoneStranded, NEW c \in Calls, SendCall(c)
  PROVE  SentIdle(c) \/ SentNow(c)
<1> DEFINE s == Target[c]
           q == Call(c)
           queued == [phase EXCEPT ![q] = "queued"]
<1>1. s \in AllServices /\ q \in Request /\ phase[q] = "new" /\ state[s] # "NONE"
  BY RequestFacts DEF AllServices, SendCall
<1>2. CASE state[s] = "IDLE"
  <2>1. s \in Services /\ phase[Alloc(s)] = "new" /\ Alloc(s) \in Request
    BY <1>1, <1>2, RequestFacts DEF TypeOK, AllServices, NoneStranded
  <2>2. /\ Transmit(CTL, Alone(Alloc(s)), NoCid, queued)
        /\ state' = [state EXCEPT ![s] = "WAIT_CID"]
    BY <1>2 DEF SendCall
  <2>3. phase' = [p \in Request |-> IF p \in {Alloc(s)} THEN "pending" ELSE queued[p]]
    <3> HIDE DEF s, q, queued
    <3>1. QED
      BY <2>2 DEF Transmit, Alone
  <2>4. \A p \in Request : phase'[p] = IF p = Alloc(s) THEN "pending"
                                       ELSE IF p = q THEN "queued" ELSE phase[p]
    BY <1>1, <2>3 DEF TypeOK
  <2>5. \A t \in AllServices : state'[t] = IF t = s THEN "WAIT_CID" ELSE state[t]
    BY <2>2 DEF TypeOK
  <2>6. QED
    BY <1>2, <2>1, <2>4, <2>5 DEF SentIdle
<1>3. CASE state[s] # "IDLE"
  <2>1. PICK rank \in WalkOrders(Cons(q, reqs[s]), Unsent(s) \cup {q}) :
           Transmit(s, rank, IF s = CTL THEN NoCid ELSE client[s], queued)
    BY <1>3 DEF SendCall
  <2>2. phase' = [p \in Request |-> IF p \in Unsent(s) \cup {q} THEN "pending" ELSE queued[p]]
    <3> HIDE DEF s, q, queued
    <3>1. QED
      BY <2>1, TransmitPhase, OrderDomains
  <2>3. \A p \in Request : phase'[p] = IF p \in Unsent(s) \cup {q} THEN "pending" ELSE phase[p]
    BY <1>1, <2>2 DEF TypeOK
  <2>4. state' = state
    BY <1>3 DEF SendCall
  <2>5. state[s] \in {"WAIT_CID", "READY"}
    BY <1>1, <1>3 DEF TypeOK, States
  <2>6. QED
    BY <1>1, <2>3, <2>4, <2>5 DEF SentNow
<1>4. QED
  BY <1>2, <1>3

AllocIgnored(m, i) ==
    /\ phase' = Completed(m, i)
    /\ UNCHANGED <<state, client, tid, reqTid, up, lapped>>

AllocTaken(m, i) ==
    LET s == m.info.svc IN
    /\ s \in Services /\ state[s] # "NONE"
    /\ \A p \in Request : phase'[p] = IF p \in Unsent(s) THEN "pending" ELSE Completed(m, i)[p]
    /\ \A t \in AllServices : state'[t] = IF t = s THEN "READY" ELSE state[t]
    /\ \A t \in Services : client'[t] = IF t = s THEN m.info.cid ELSE client[t]

(* The answer to an allocation is ignored, or makes its service ready and   *)
(* transmits what was held back.                                            *)
LEMMA ReceiveAllocEffect ==
  ASSUME TypeOK, NEW m \in down, NEW i \in Positions(reqs[m.svc]), ReceiveAlloc(m, i)
  PROVE  \/ AllocIgnored(m, i) /\ (m.info = NoInfo \/ state[m.info.svc] = "NONE")
         \/ AllocTaken(m, i)
<1> DEFINE s == m.info.svc
<1>1. CASE m.info = NoInfo \/ state[s] = "NONE"
  BY <1>1 DEF ReceiveAlloc, AllocIgnored, svcVars
<1>2. CASE ~(m.info = NoInfo \/ state[s] = "NONE")
  <2>1. s \in Services /\ state[s] # "NONE"
    BY <1>2, ReceiveType DEF Info, ReceiveAlloc
  <2>2. PICK rank \in WalkOrders(reqs[s], Unsent(s)) :
           Transmit(s, rank, m.info.cid, Completed(m, i))
    BY <1>2 DEF ReceiveAlloc
  <2>3. phase' = [p \in Request |-> IF p \in Unsent(s) THEN "pending" ELSE Completed(m, i)[p]]
    <3> HIDE DEF s
    <3>1. QED
      BY <2>2, TransmitPhase, OrderDomains
  <2>4. state' = [state EXCEPT ![s] = "READY"] /\ client' = [client EXCEPT ![s] = m.info.cid]
    BY <1>2 DEF ReceiveAlloc, Assigned
  <2>5. QED
    BY <2>1, <2>3, <2>4 DEF AllocTaken, TypeOK
<1>3. QED
  BY <1>1, <1>2

ReleaseTaken(m, i) ==
    LET s == m.info.svc IN
    /\ s \in Services /\ state[s] # "NONE"
    /\ \A p \in Request : phase'[p] = IF To(p) = s /\ Completed(m, i)[p] \in {"queued", "pending"}
                                      THEN "freed" ELSE Completed(m, i)[p]
    /\ \A t \in AllServices : state'[t] = IF t = s THEN "NONE" ELSE state[t]

(* The answer to a release is ignored, or frees its service.                *)
LEMMA ReceiveReleaseEffect ==
  ASSUME TypeOK, NEW m \in down, NEW i \in Positions(reqs[m.svc]), ReceiveRelease(m, i)
  PROVE  \/ phase' = Completed(m, i) /\ state' = state
         \/ ReleaseTaken(m, i)
<1> DEFINE s == m.info.svc
<1>1. CASE m.info = NoInfo \/ state[s] = "NONE"
  BY <1>1 DEF ReceiveRelease
<1>2. CASE ~(m.info = NoInfo \/ state[s] = "NONE")
  <2>1. s \in Services /\ state[s] # "NONE"
    BY <1>2, ReceiveType DEF Info, ReceiveRelease
  <2>2. /\ phase' = FreedPhase({s}, Completed(m, i))
        /\ state' = FreedState({s})
    BY <1>2 DEF ReceiveRelease
  <2>3. QED
    BY <2>1, <2>2 DEF ReleaseTaken, FreedPhase, FreedState
<1>3. QED
  BY <1>1, <1>2

DeviceClosed ==
    LET ready == {s \in Services : state[s] = "READY"}
        unready == {s \in Services : state[s] \in {"IDLE", "WAIT_CID"}}
    IN  /\ \A p \in Request : phase'[p] =
              IF \E s \in ready : p = Release(s) THEN "pending"
              ELSE IF To(p) \in unready /\ phase[p] \in {"queued", "pending"}
              THEN "freed" ELSE phase[p]
        /\ \A t \in AllServices : state'[t] = IF t \in unready THEN "NONE" ELSE state[t]

(* Closing the device sends a release per ready service and frees the rest. *)
LEMMA DeviceCloseEffect ==
  ASSUME TypeOK, DeviceClose
  PROVE  DeviceClosed
<1> DEFINE unready == {s \in Services : state[s] \in {"IDLE", "WAIT_CID"}}
           batch == {Release(s) : s \in {t \in Services : state[t] = "READY"}}
<1>1. PICK rank \in PushOrders(batch) : Transmit(CTL, rank, NoCid, FreedPhase(unready, phase))
  BY DEF DeviceClose
<1>2. phase' = [p \in Request |-> IF p \in batch THEN "pending" ELSE FreedPhase(unready, phase)[p]]
  <2> HIDE DEF batch, unready
  <2>1. QED
    BY <1>1, TransmitPhase, OrderDomains
<1>3. \A t \in AllServices : state'[t] = IF t \in unready THEN "NONE" ELSE state[t]
  BY DEF DeviceClose, FreedState
<1>4. QED
  BY <1>2, <1>3 DEF DeviceClosed, FreedPhase

(* Closing for good frees every service and every request.                  *)
LEMMA CloseCallbackEffect ==
  ASSUME TypeOK, CloseCallback
  PROVE  /\ \A p \in Request : phase'[p] = IF phase[p] \in {"queued", "pending"} THEN "freed"
                                           ELSE phase[p]
         /\ \A t \in AllServices : state'[t] = "NONE"
         /\ open' = FALSE
  BY RequestFacts DEF CloseCallback, FreedPhase, FreedState

-----------------------------------------------------------------------------
(* The stages of the device's life.                                          *)

(* Only calls are ever held back, and the control service holds none.       *)
LEMMA UnsentFacts ==
  ASSUME LifeStages, TypeOK, NEW s \in AllServices
  PROVE  /\ \A q \in Unsent(s) : q \in Request /\ phase[q] = "queued" /\ q.op = "call"
         /\ state[s] # "WAIT_CID" => \A q \in Unsent(s) : To(q) # s
  BY DEF Unsent, LifeStages

(* The stages survive a call, whatever the state of its service.            *)
LEMMA SendCallLife ==
  ASSUME TypeOK, LifeStages, NoneStranded, NEW c \in Calls, SendCall(c)
  PROVE  LifeStages'
<1>1. SentIdle(c) \/ SentNow(c)
  BY SendCallEffect
<1>2. /\ open' = open /\ dev' = dev /\ open /\ Target[c] \in AllServices /\ Call(c) \in Request
      /\ phase[Call(c)] = "new" /\ To(Call(c)) = Target[c]
  BY RequestFacts DEF SendCall, devVars, AllServices
<1>3. CASE SentIdle(c)
  <2>1. phase[Version] \notin {"new", "pending"} /\ Version \in Request /\ Target[c] # CTL
    BY <1>3, RequestFacts DEF SentIdle, LifeStages
  <2>2. phase'[Version] = phase[Version]
    BY <1>3, <2>1, RequestKinds DEF SentIdle
  <2>3. \A s \in Services : phase'[Release(s)] = phase[Release(s)]
    BY <1>3, RequestKinds, RequestFacts DEF SentIdle
  <2>4. \A q \in Request : phase'[q] = "freed" => state'[To(q)] = "NONE"
    BY <1>3, RequestFacts DEF SentIdle, LifeStages
  <2>5. \A q \in Request : phase'[q] = "queued" => q.op = "call" /\ state'[To(q)] = "WAIT_CID"
    BY <1>2, <1>3, RequestFacts, RequestKinds DEF SentIdle, LifeStages
  <2>6. state'[CTL] = state[CTL]
    BY <1>3, <2>1 DEF SentIdle, AllServices
  <2>7. QED
    BY <1>2, <2>1, <2>2, <2>3, <2>4, <2>5, <2>6 DEF LifeStages
<1>4. CASE SentNow(c)
  <2>1. \A q \in Request : q.op # "call" => phase'[q] = phase[q]
    BY <1>2, <1>4, RequestKinds, UnsentFacts DEF SentNow
  <2>2. \A s \in Services : phase'[Release(s)] = phase[Release(s)]
    BY <2>1, RequestKinds, RequestFacts
  <2>3. ASSUME phase'[Version] \in {"new", "pending"}, NEW s \in Services
        PROVE  /\ state'[s] = "NONE" /\ phase'[Alloc(s)] = "new"
               /\ \A q \in Request : To(q) = s => phase'[q] = "new"
    <3>1. phase[Version] = phase'[Version] /\ phase'[Alloc(s)] = phase[Alloc(s)]
      BY <2>1, RequestKinds, RequestFacts
    <3>2. /\ \A t \in Services : state[t] = "NONE" /\ phase[Alloc(t)] = "new"
          /\ \A t \in Services : \A q \in Request : To(q) = t => phase[q] = "new"
      BY <2>3, <3>1 DEF LifeStages
    <3>3. Target[c] = CTL /\ To(Call(c)) = CTL
      BY <1>2, <1>4, <3>2 DEF SentNow, AllServices
    <3>4. \A q \in Request : To(q) = s => q \notin Unsent(Target[c]) \cup {Call(c)}
      BY <1>2, <3>2, <3>3, UnsentFacts
    <3>5. QED
      BY <1>4, <3>1, <3>2, <3>4 DEF SentNow
  <2>4. \A q \in Request : /\ phase'[q] = "freed" => state'[To(q)] = "NONE"
                           /\ phase'[q] = "queued" => q.op = "call" /\ state'[To(q)] = "WAIT_CID"
    BY <1>4, RequestFacts DEF SentNow, LifeStages
  <2>5. QED
    BY <1>2, <1>4, <2>2, <2>3, <2>4 DEF LifeStages, SentNow
<1>5. QED
  BY <1>1, <1>3, <1>4

(* The stages survive every answer.                                         *)
LEMMA ReceiveLife ==
  ASSUME TypeOK, ListsAreExact, LifeStages, NEW m \in down, NEW i \in Positions(reqs[m.svc]),
         \/ ReceiveCall(m, i) \/ ReceiveVersion(m, i)
         \/ ReceiveAlloc(m, i) \/ ReceiveRelease(m, i)
  PROVE  LifeStages'
<1> DEFINE q == reqs[m.svc][i]
           s == m.info.svc
<1>1. ASSUME NEW op, Receive(m, i, op)
      PROVE  /\ q \in Request /\ phase[q] = "pending" /\ q.op = op /\ open
             /\ \A p \in Request : Completed(m, i)[p] = IF p = q THEN "complete" ELSE phase[p]
  <2>1. ReceivedOne(m, i)
    BY <1>1, CompletedLists
  <2>2. QED
    BY <1>1, <2>1 DEF ReceivedOne, Receive
<1>2. open' = open /\ dev' = dev
  BY DEF ReceiveCall, ReceiveVersion, ReceiveAlloc, ReceiveRelease, devVars
<1> HIDE DEF q
<1>3. ASSUME phase' = Completed(m, i), state' = state, NEW op, Receive(m, i, op) PROVE LifeStages'
  <2>1. /\ q \in Request /\ phase[q] = "pending" /\ open
        /\ \A p \in Request : phase'[p] = IF p = q THEN "complete" ELSE phase[p]
    BY <1>1, <1>3
  <2>2. QED
    BY <1>2, <1>3, <2>1, RequestFacts DEF LifeStages
<1>4. CASE ReceiveCall(m, i)
  BY <1>3, <1>4 DEF ReceiveCall, svcVars
<1>5. CASE ReceiveVersion(m, i)
  <2>1. /\ q = Version /\ phase[q] = "pending" /\ open /\ q \in Request
        /\ \A p \in Request : phase'[p] = IF p = q THEN "complete" ELSE phase[p]
    BY <1>1, <1>5, RequestKinds DEF ReceiveVersion
  <2>2. /\ \A t \in Services : state[t] = "NONE"
        /\ \A t \in Services : \A p \in Request : To(p) = t => phase[p] = "new"
    BY <2>1 DEF LifeStages
  <2>3. state'[CTL] = state[CTL] /\ \A t \in AllServices : state'[t] # state[t] => t \in Services
    <3>1. m.offered \in SUBSET Services
      BY DEF TypeOK, DownMessage
    <3>2. QED
      BY <1>5, <3>1 DEF ReceiveVersion, AllServices
  <2>4. \A p \in Request : /\ phase'[p] = "freed" => state'[To(p)] = "NONE"
                           /\ phase'[p] = "queued" => p.op = "call" /\ state'[To(p)] = "WAIT_CID"
    BY <2>1, <2>2, <2>3, RequestFacts DEF LifeStages
  <2>5. \A t \in Services : phase'[Release(t)] = phase[Release(t)]
    BY <2>1, RequestFacts, RequestKinds
  <2>6. QED
    BY <1>2, <2>1, <2>3, <2>4, <2>5 DEF LifeStages
<1>6. CASE ReceiveAlloc(m, i)
  <2>1. Receive(m, i, "alloc")
    BY <1>6 DEF ReceiveAlloc
  <2>2. CASE AllocIgnored(m, i)
    BY <1>3, <2>1, <2>2 DEF AllocIgnored
  <2>3. CASE AllocTaken(m, i)
    <3>1. /\ q \in Request /\ phase[q] = "pending" /\ open /\ q.op = "alloc"
          /\ \A p \in Request : Completed(m, i)[p] = IF p = q THEN "complete" ELSE phase[p]
      BY <1>1, <2>1
    <3>2. /\ q.of \in Services /\ q = Alloc(q.of) /\ Version \in Request
          /\ \A t \in Services : Release(t) \in Request /\ Release(t) # q
          /\ Version # q
      BY <3>1, RequestKinds, RequestFacts
    <3>3. phase[Version] \notin {"new", "pending"}
      BY <3>1, <3>2 DEF LifeStages
    <3>4. /\ s \in Services /\ state[s] # "NONE"
          /\ \A p \in Request : phase'[p] = IF p \in Unsent(s) THEN "pending" ELSE Completed(m, i)[p]
          /\ \A t \in AllServices : state'[t] = IF t = s THEN "READY" ELSE state[t]
      BY <2>3 DEF AllocTaken
    <3>5. /\ s \in AllServices /\ CTL \in AllServices /\ CTL # s
          /\ \A p \in Unsent(s) : p \in Request /\ phase[p] = "queued" /\ p.op = "call"
          /\ \A p \in Request : To(p) = s /\ phase[p] = "queued" => p \in Unsent(s)
      <4>1. s \in AllServices /\ CTL \in AllServices /\ CTL # s
        BY <3>4 DEF AllServices
      <4>2. \A p \in Waiting(s) : Contains(reqs[s], p)
        BY <4>1 DEF ListsAreExact, ListsExactly
      <4>3. QED
        BY <4>1, <4>2, UnsentFacts DEF Waiting, Unsent
    <3> HIDE DEF s
    <3>6. \A p \in Request : p.op # "call" /\ p # q => phase'[p] = phase[p]
      BY <3>1, <3>4, <3>5
    <3>7. phase'[Version] = phase[Version] /\ \A t \in Services : phase'[Release(t)] = phase[Release(t)]
      BY <3>2, <3>6, RequestKinds
    <3>8. \A p \in Request : /\ phase'[p] = "freed" => state'[To(p)] = "NONE"
                             /\ phase'[p] = "queued" => p.op = "call" /\ state'[To(p)] = "WAIT_CID"
      <4> SUFFICES ASSUME NEW p \in Request, phase'[p] \in {"freed", "queued"}
                   PROVE  /\ phase'[p] = "freed" => state'[To(p)] = "NONE"
                          /\ phase'[p] = "queued" => p.op = "call" /\ state'[To(p)] = "WAIT_CID"
        OBVIOUS
      <4>1. phase'[p] = phase[p] /\ p \notin Unsent(s) /\ To(p) \in AllServices
        BY <3>1, <3>4, RequestFacts
      <4>2. phase[p] = "freed" => state[To(p)] = "NONE"
        BY DEF LifeStages
      <4>3. phase[p] = "queued" => p.op = "call" /\ state[To(p)] = "WAIT_CID" /\ To(p) # s
        BY <3>5, <4>1 DEF LifeStages
      <4>4. QED
        BY <3>4, <4>1, <4>2, <4>3
    <3>9. QED
      BY <1>2, <3>1, <3>3, <3>4, <3>5, <3>7, <3>8 DEF LifeStages
  <2>4. QED
    BY <1>6, <2>2, <2>3, ReceiveAllocEffect
<1>7. CASE ReceiveRelease(m, i)
  <2>1. Receive(m, i, "release")
    BY <1>7 DEF ReceiveRelease
  <2>2. CASE ReleaseTaken(m, i)
    <3>1. /\ q \in Request /\ phase[q] = "pending" /\ open /\ q.op = "release"
          /\ \A p \in Request : Completed(m, i)[p] = IF p = q THEN "complete" ELSE phase[p]
      BY <1>1, <2>1
    <3>2. q.of \in Services /\ q = Release(q.of) /\ Version \in Request /\ CTL \in AllServices
      BY <3>1, RequestKinds, RequestFacts DEF AllServices
    <3>3. dev # "RUNNING"
      BY <3>1, <3>2 DEF LifeStages
    <3>4. /\ s \in Services /\ state[s] # "NONE" /\ s # CTL
          /\ \A p \in Request : phase'[p] = IF To(p) = s /\ Completed(m, i)[p] \in {"queued", "pending"}
                                            THEN "freed" ELSE Completed(m, i)[p]
          /\ \A t \in AllServices : state'[t] = IF t = s THEN "NONE" ELSE state[t]
      BY <2>2 DEF ReleaseTaken
    <3>5. phase[Version] \notin {"new", "pending"}
      BY <3>4 DEF LifeStages
    <3> HIDE DEF s
    <3>6. phase'[Version] \notin {"new", "pending"}
      BY <3>1, <3>2, <3>4, <3>5
    <3>7. \A p \in Request : /\ phase'[p] = "freed" => state'[To(p)] = "NONE"
                             /\ phase'[p] = "queued" => p.op = "call" /\ state'[To(p)] = "WAIT_CID"
      BY <3>1, <3>4, RequestFacts DEF LifeStages
    <3>8. QED
      BY <1>2, <3>1, <3>2, <3>3, <3>4, <3>6, <3>7 DEF LifeStages
  <2>3. QED
    BY <1>3, <1>7, <2>1, <2>2, ReceiveReleaseEffect
<1>8. QED
  BY <1>4, <1>5, <1>6, <1>7

(* The stages survive the closing of the device.                            *)
LEMMA DeviceCloseLife ==
  ASSUME TypeOK, LifeStages, DeviceClose
  PROVE  LifeStages'
<1> DEFINE ready == {s \in Services : state[s] = "READY"}
           unready == {s \in Services : state[s] \in {"IDLE", "WAIT_CID"}}
<1>1. /\ \A p \in Request : phase'[p] =
            IF \E s \in ready : p = Release(s) THEN "pending"
            ELSE IF To(p) \in unready /\ phase[p] \in {"queued", "pending"}
            THEN "freed" ELSE phase[p]
      /\ \A t \in AllServices : state'[t] = IF t \in unready THEN "NONE" ELSE state[t]
  BY DeviceCloseEffect DEF DeviceClosed
<1>2. open /\ open' = open /\ dev' = "STOPPING" /\ CTL \in AllServices /\ state[CTL] = "READY"
  BY DEF DeviceClose, LifeStages, AllServices
<1>3. \A p \in Request : /\ phase'[p] = "freed" => state'[To(p)] = "NONE"
                         /\ phase'[p] = "queued" => p.op = "call" /\ state'[To(p)] = "WAIT_CID"
  BY <1>1, RequestFacts DEF LifeStages
<1>4. ASSUME phase'[Version] \in {"new", "pending"}, NEW s \in Services
      PROVE  /\ state'[s] = "NONE" /\ phase'[Alloc(s)] = "new"
             /\ \A q \in Request : To(q) = s => phase'[q] = "new"
  <2>1. phase'[Version] = phase[Version]
    BY <1>1, <1>4, RequestFacts, RequestKinds
  <2>2. \A t \in Services : /\ state[t] = "NONE" /\ phase[Alloc(t)] = "new"
                            /\ \A q \in Request : To(q) = t => phase[q] = "new"
    BY <1>4, <2>1 DEF LifeStages
  <2>3. ready = {} /\ unready = {}
    BY <2>2
  <2>4. QED
    BY <1>1, <2>2, <2>3, RequestFacts DEF AllServices
<1>5. QED
  BY <1>1, <1>2, <1>3, <1>4 DEF LifeStages

(* The stages end with the services.                                        *)
LEMMA CloseCallbackLife ==
  ASSUME TypeOK, LifeStages, CloseCallback, dev' \in {dev, "STOPPING"}
  PROVE  LifeStages'
<1>1. /\ \A p \in Request : phase'[p] = IF phase[p] \in {"queued", "pending"} THEN "freed"
                                         ELSE phase[p]
      /\ \A t \in AllServices : state'[t] = "NONE"
      /\ open' = FALSE
  BY CloseCallbackEffect
<1>2. \A p \in Request : phase[p] = "new" => phase'[p] = "new"
  BY <1>1
<1>3. phase'[Version] \in {"new", "pending"} => phase[Version] = "new"
  BY <1>1, RequestFacts
<1>4. QED
  BY <1>1, <1>2, <1>3, RequestFacts DEF LifeStages, AllServices

(* Every step keeps the stages.                                             *)
LEMMA LifeStep ==
  ASSUME TypeOK, ListsAreExact, LifeStages, NoneStranded, [Next]_vars
  PROVE  LifeStages'
<1> USE DEF svcVars, reqVars, devVars, modemVars
<1>1. ASSUME NEW c \in Calls, SendCall(c) PROVE LifeStages'
  BY <1>1, SendCallLife
<1>2. ASSUME SendVersion PROVE LifeStages'
  <2>1. /\ phase' = [p \in Request |-> IF p \in {Version} THEN "pending" ELSE phase[p]]
        /\ phase[Version] = "new" /\ open /\ state' = state /\ dev' = dev /\ open' = open
    BY <1>2 DEF SendVersion, Transmit, Alone
  <2>2. QED
    BY <2>1, RequestFacts, RequestKinds DEF LifeStages
<1>3. ASSUME phase' = phase, state' = state, dev' = dev, open' = open PROVE LifeStages'
  BY <1>3 DEF LifeStages
<1>4. ASSUME NEW m \in down, DiscardMessage(m) PROVE LifeStages'
  BY <1>3, <1>4 DEF DiscardMessage
<1>5. ASSUME NEW m \in down, NEW i \in Positions(reqs[m.svc]),
             \/ ReceiveCall(m, i) \/ ReceiveVersion(m, i)
             \/ ReceiveAlloc(m, i) \/ ReceiveRelease(m, i)
      PROVE  LifeStages'
  BY <1>5, ReceiveLife
<1>6. ASSUME DeviceClose PROVE LifeStages'
  BY <1>6, DeviceCloseLife
<1>7. ASSUME ShutdownFires PROVE LifeStages'
  BY <1>7, CloseCallbackLife DEF ShutdownFires
<1>8. ASSUME ConnectionDies PROVE LifeStages'
  BY <1>3, <1>8, CloseCallbackLife DEF ConnectionDies
<1>9. ASSUME Modem PROVE LifeStages'
  BY <1>3, <1>9 DEF Modem, ModemAnswersCall, ModemListsServices, ModemAllocates,
       ModemReleases, ModemRefuses, ModemIgnores, Answer
<1>10. CASE UNCHANGED vars
  BY <1>3, <1>10 DEF vars
<1>11. QED
  BY <1>1, <1>2, <1>4, <1>5, <1>6, <1>7, <1>8, <1>9, <1>10 DEF Next, Receiving

-----------------------------------------------------------------------------
(* The messages in flight.                                                   *)

(* A message to the modem is not a message from it.                         *)
LEMMA DirectionsDiffer == \A m \in UpMessage, n \in DownMessage : m # n
<1> SUFFICES ASSUME NEW m \in UpMessage, NEW n \in DownMessage PROVE m # n
  OBVIOUS
<1>1. "cid" \in DOMAIN m
  BY DEF UpMessage
<1>2. "cid" \notin DOMAIN n
  BY DEF DownMessage
<1>3. QED
  BY <1>1, <1>2

(* Every message names a request.                                           *)
LEMMA MessageTypes ==
  ASSUME TypeOK
  PROVE  /\ \A m \in up \cup down : m.req \in Request /\ m.svc \in AllServices /\ m.tid \in Nat
         /\ \A m \in down : m.info \in Info
         /\ \A m \in up, n \in down : m # n
  BY DirectionsDiffer DEF TypeOK, UpMessage, DownMessage

(* The answer a callback is given is the answer to its own request, as long *)
(* as no transaction id was ever shared.                                    *)
LEMMA RightAnswer ==
  ASSUME TypeOK, ListsAreExact, LifeStages, MessagesMatch,
         NEW m \in down, NEW i \in Positions(reqs[m.svc]), NEW op, Receive(m, i, op)
  PROVE  /\ m.req = reqs[m.svc][i] /\ m.req \in Request /\ m.req.op = op
         /\ \A n \in up \cup (down \ {m}) : n.req # m.req
<1> DEFINE q == reqs[m.svc][i]
<1>1. /\ q \in Request /\ To(q) = m.svc /\ phase[q] = "pending" /\ state[m.svc] # "NONE"
      /\ reqTid[q] = m.tid /\ q.op = op
  BY CompletedLists DEF ReceivedOne, Receive, Matches
<1>2. /\ m.req \in Request /\ m.svc = To(m.req)
      /\ (phase[m.req] = "pending" /\ reqTid[m.req] = m.tid) \/ phase[m.req] = "freed"
  BY MessageTypes DEF MessagesMatch
<1>3. phase[m.req] # "freed"
  BY <1>1, <1>2 DEF LifeStages
<1>4. m.req = q
  BY <1>1, <1>2, <1>3 DEF MessagesMatch, TidCollision
<1>5. \A n \in up \cup (down \ {m}) : n.req # m.req
  BY MessageTypes DEF MessagesMatch
<1>6. QED
  BY <1>1, <1>4, <1>5

(* Transmission adds one message per request transmitted.                   *)
LEMMA TransmitMatch ==
  ASSUME TypeOK, MessagesMatch, ~lapped', NEW s \in AllServices, NEW U \in SUBSET Request,
         NEW rank, DOMAIN rank = U, NEW c, NEW ph, Transmit(s, rank, c, ph),
         \A q \in U : To(q) = s /\ phase[q] \in {"new", "queued"},
         down' \subseteq down,
         \A m \in up \cup down' : ph[m.req] \in {phase[m.req], "freed"}
  PROVE  MessagesMatch'
<1> DEFINE tidOf(q) == TidAfter(s, tid[s], rank[q])
           written == {[svc |-> s, tid |-> tidOf(q), req |-> q,
                        cid |-> IF q.op = "release" THEN client[q.of] ELSE c] : q \in U}
<1>1. /\ phase' = [q \in Request |-> IF q \in U THEN "pending" ELSE ph[q]]
      /\ reqTid' = [q \in Request |-> IF q \in U THEN tidOf(q) ELSE reqTid[q]]
      /\ up' = up \cup written
      /\ ~TidCollision'
  BY DEF Transmit
<1>2. \A m \in written : /\ m.req \in U /\ m.svc = s /\ m.tid = tidOf(m.req)
                         /\ \A n \in written : m.req = n.req => m = n
  OBVIOUS
<1> HIDE DEF tidOf, written
<1>3. \A m \in up \cup down' : /\ m.req \in Request /\ m.req \notin U
                               /\ phase'[m.req] \in {phase[m.req], "freed"}
                               /\ reqTid'[m.req] = reqTid[m.req]
  BY <1>1, MessageTypes DEF MessagesMatch
<1>4. \A m \in written : phase'[m.req] = "pending" /\ reqTid'[m.req] = m.tid /\ m.svc = To(m.req)
  BY <1>1, <1>2
<1>5. \A m \in up' \cup down' : m \in written \/ m \in up \cup down'
  BY <1>1
<1>6. \A m \in up \cup down' : m \in up \cup down
  OBVIOUS
<1>7. \A m \in up' \cup down' :
          /\ m.svc = To(m.req)
          /\ \/ phase'[m.req] = "pending" /\ reqTid'[m.req] = m.tid
             \/ phase'[m.req] = "freed"
  BY <1>3, <1>4, <1>5, <1>6 DEF MessagesMatch
<1>8. \A m, n \in up' \cup down' : m.req = n.req => m = n
  BY <1>2, <1>3, <1>5, <1>6 DEF MessagesMatch
<1>9. QED
  BY <1>1, <1>7, <1>8 DEF MessagesMatch

(* A step that writes nothing and makes no request pending.                 *)
LEMMA KeepMatch ==
  ASSUME TypeOK, MessagesMatch, up' \subseteq up, down' \subseteq down, reqTid' = reqTid,
         \A q \in Request : phase'[q] = "pending" => phase[q] = "pending",
         \A m \in up' \cup down' : phase'[m.req] \in {phase[m.req], "freed"}
  PROVE  MessagesMatch'
<1>1. ~TidCollision'
  BY DEF MessagesMatch, TidCollision
<1>2. \A m \in up' \cup down' : m \in up \cup down
  OBVIOUS
<1>3. QED
  BY <1>1, <1>2 DEF MessagesMatch

(* The modem answers a request it has, once.                                *)
LEMMA ModemMatch ==
  ASSUME TypeOK, MessagesMatch, NEW m \in up, NEW info, NEW offered, Answer(m, info, offered)
  PROVE  MessagesMatch'
<1> DEFINE a == [svc |-> m.svc, tid |-> m.tid, req |-> m.req, info |-> info, offered |-> offered]
<1>1. /\ up' = up \ {m} /\ down' = down \cup {a} /\ phase' = phase /\ reqTid' = reqTid
  BY DEF Answer, reqVars
<1>2. a.svc = m.svc /\ a.tid = m.tid /\ a.req = m.req
  OBVIOUS
<1> HIDE DEF a
<1>3. ~TidCollision'
  BY <1>1 DEF MessagesMatch, TidCollision
<1>4. \A n \in up' \cup down' : n = a \/ (n \in up \cup down /\ n.req # m.req)
  BY <1>1, MessageTypes DEF MessagesMatch
<1>5. QED
  BY <1>1, <1>2, <1>3, <1>4 DEF MessagesMatch

(* What is held back for a service is queued on it.                         *)
LEMMA UnsentQueued ==
  ASSUME TypeOK, ListsAreExact, NEW s \in AllServices
  PROVE  /\ Unsent(s) \in SUBSET Request
         /\ \A q \in Request : q \in Unsent(s) <=> To(q) = s /\ phase[q] = "queued"
<1>1. \A q \in Waiting(s) : Contains(reqs[s], q)
  BY DEF ListsAreExact, ListsExactly
<1>2. \A q \in Request : Contains(reqs[s], q) => To(q) = s
  BY DEF ListsAreExact, ListsExactly, Contains, Positions, Waiting, TypeOK
<1>3. QED
  BY <1>1, <1>2 DEF Unsent, Waiting

(* A call writes the messages of the requests it transmits, and no other.   *)
LEMMA SendCallMatch ==
  ASSUME TypeOK, ListsAreExact, LifeStages, NoneStranded, MessagesMatch, ~lapped',
         NEW c \in Calls, SendCall(c)
  PROVE  MessagesMatch'
<1> DEFINE s == Target[c]
           q == Call(c)
           queued == [phase EXCEPT ![q] = "queued"]
<1>1. /\ s \in AllServices /\ q \in Request /\ CTL \in AllServices /\ To(q) = s
      /\ phase[q] = "new" /\ down' = down
  BY RequestFacts DEF AllServices, SendCall
<1>2. \A m \in up \cup down' : queued[m.req] \in {phase[m.req], "freed"}
  BY <1>1, MessageTypes DEF MessagesMatch, TypeOK
<1>3. CASE state[s] = "IDLE"
  <2>1. s \in Services
    BY <1>1, <1>3 DEF TypeOK, AllServices
  <2>2. Alloc(s) \in Request /\ To(Alloc(s)) = CTL /\ phase[Alloc(s)] = "new"
    BY <1>3, <2>1, RequestFacts DEF NoneStranded
  <2>3. Transmit(CTL, Alone(Alloc(s)), NoCid, queued)
    BY <1>3 DEF SendCall
  <2> HIDE DEF s, q, queued
  <2>4. DEFINE U == {Alloc(s)}
               rank == Alone(Alloc(s))
  <2>5. /\ U \in SUBSET Request /\ DOMAIN rank = U /\ Transmit(CTL, rank, NoCid, queued)
        /\ \A p \in U : To(p) = CTL /\ phase[p] \in {"new", "queued"}
    BY <2>2, <2>3, OrderDomains
  <2> HIDE DEF U, rank
  <2>6. QED
    BY <1>1, <1>2, <2>5, TransmitMatch
<1>4. CASE state[s] # "IDLE"
  <2>1. PICK rank \in WalkOrders(Cons(q, reqs[s]), Unsent(s) \cup {q}) :
           Transmit(s, rank, IF s = CTL THEN NoCid ELSE client[s], queued)
    BY <1>4 DEF SendCall
  <2>2. DEFINE U == Unsent(s) \cup {q}
               id == IF s = CTL THEN NoCid ELSE client[s]
  <2>3. /\ U \in SUBSET Request /\ DOMAIN rank = U /\ Transmit(s, rank, id, queued)
        /\ \A p \in U : To(p) = s /\ phase[p] \in {"new", "queued"}
    <3> HIDE DEF s, q, queued
    <3>1. \A p \in U : To(p) = s /\ phase[p] \in {"new", "queued"}
      BY <1>1, UnsentQueued
    <3>2. DOMAIN rank = U
      BY <2>1, OrderDomains
    <3>3. QED
      BY <1>1, <2>1, <3>1, <3>2, UnsentQueued
  <2> HIDE DEF s, q, queued, U, id
  <2>4. QED
    BY <1>1, <1>2, <2>3, TransmitMatch
<1>5. QED
  BY <1>3, <1>4

(* The messages in flight after an answer is received.                      *)
LEMMA ReceiveMatch ==
  ASSUME TypeOK, ListsAreExact, LifeStages, MessagesMatch, ~lapped',
         NEW m \in down, NEW i \in Positions(reqs[m.svc]),
         \/ ReceiveCall(m, i) \/ ReceiveVersion(m, i)
         \/ ReceiveAlloc(m, i) \/ ReceiveRelease(m, i)
  PROVE  MessagesMatch'
<1> DEFINE q == reqs[m.svc][i]
<1>1. ASSUME NEW op, Receive(m, i, op)
      PROVE  /\ q \in Request /\ phase[q] = "pending" /\ down' = down \ {m} /\ m.req = q
             /\ \A p \in Request : Completed(m, i)[p] = IF p = q THEN "complete" ELSE phase[p]
             /\ \A n \in up \cup (down \ {m}) : n.req \in Request /\ n.req # q
                                                /\ Completed(m, i)[n.req] = phase[n.req]
  <2>1. ReceivedOne(m, i)
    BY <1>1, CompletedLists
  <2>2. m.req = q /\ \A n \in up \cup (down \ {m}) : n.req # q
    BY <1>1, RightAnswer
  <2>3. down' = down \ {m}
    BY <1>1 DEF Receive
  <2>4. QED
    BY <2>1, <2>2, <2>3, MessageTypes DEF ReceivedOne
<1> HIDE DEF q
<1>2. ASSUME NEW op, Receive(m, i, op), up' = up, reqTid' = reqTid, phase' = Completed(m, i)
      PROVE  MessagesMatch'
  <2>1. /\ q \in Request /\ down' = down \ {m}
        /\ \A p \in Request : phase'[p] = "pending" => phase[p] = "pending"
        /\ \A n \in up' \cup down' : phase'[n.req] \in {phase[n.req], "freed"}
    BY <1>1, <1>2
  <2>2. QED
    BY <1>2, <2>1, KeepMatch
<1>3. CASE ReceiveCall(m, i)
  BY <1>2, <1>3 DEF ReceiveCall
<1>4. CASE ReceiveVersion(m, i)
  BY <1>2, <1>4 DEF ReceiveVersion
<1>5. CASE ReceiveAlloc(m, i)
  <2>1. Receive(m, i, "alloc")
    BY <1>5 DEF ReceiveAlloc
  <2>2. CASE m.info = NoInfo \/ state[m.info.svc] = "NONE"
    BY <1>2, <1>5, <2>1, <2>2 DEF ReceiveAlloc
  <2>3. CASE ~(m.info = NoInfo \/ state[m.info.svc] = "NONE")
    <3>1. PICK rank \in WalkOrders(reqs[m.info.svc], Unsent(m.info.svc)) :
             Transmit(m.info.svc, rank, m.info.cid, Completed(m, i))
      BY <1>5, <2>3 DEF ReceiveAlloc
    <3>2. m.info.svc \in AllServices
      BY <2>1, <2>3, ReceiveType DEF Info, AllServices
    <3>3. DEFINE s == m.info.svc
                 U == Unsent(s)
                 ph == Completed(m, i)
                 id == m.info.cid
    <3>4. /\ s \in AllServices /\ U \in SUBSET Request /\ DOMAIN rank = U /\ Transmit(s, rank, id, ph)
          /\ \A p \in U : To(p) = s /\ phase[p] \in {"new", "queued"}
      <4>1. DOMAIN rank = U
        BY <3>1, OrderDomains
      <4>2. QED
        BY <3>1, <3>2, <4>1, UnsentQueued
    <3>5. down' \subseteq down /\ \A n \in up \cup down' : ph[n.req] \in {phase[n.req], "freed"}
      BY <1>1, <2>1
    <3> HIDE DEF s, U, ph, id
    <3>6. QED
      BY <3>4, <3>5, TransmitMatch
  <2>4. QED
    BY <2>2, <2>3
<1>6. CASE ReceiveRelease(m, i)
  <2>1. Receive(m, i, "release") /\ up' = up /\ reqTid' = reqTid
    BY <1>6 DEF ReceiveRelease
  <2>2. CASE ReleaseTaken(m, i)
    <3>1. \A p \in Request : phase'[p] \in {Completed(m, i)[p], "freed"}
      BY <2>2 DEF ReleaseTaken
    <3>2. /\ q \in Request /\ down' = down \ {m}
          /\ \A p \in Request : phase'[p] = "pending" => phase[p] = "pending"
          /\ \A n \in up' \cup down' : phase'[n.req] \in {phase[n.req], "freed"}
      BY <1>1, <2>1, <3>1
    <3>3. QED
      BY <2>1, <3>2, KeepMatch
  <2>3. QED
    BY <1>2, <1>6, <2>1, <2>2, ReceiveReleaseEffect
<1>7. QED
  BY <1>3, <1>4, <1>5, <1>6

(* Closing the device writes one release per ready service.                 *)
LEMMA DeviceCloseMatch ==
  ASSUME TypeOK, LifeStages, MessagesMatch, ~lapped', DeviceClose
  PROVE  MessagesMatch'
<1> DEFINE unready == {s \in Services : state[s] \in {"IDLE", "WAIT_CID"}}
           batch == {Release(s) : s \in {t \in Services : state[t] = "READY"}}
           ph == FreedPhase(unready, phase)
<1>1. PICK rank \in PushOrders(batch) : Transmit(CTL, rank, NoCid, ph)
  BY DEF DeviceClose
<1>2. /\ batch \in SUBSET Request /\ CTL \in AllServices /\ down' = down
      /\ \A p \in batch : To(p) = CTL /\ phase[p] = "new"
  BY RequestFacts DEF AllServices, LifeStages, DeviceClose
<1>3. \A m \in up \cup down' : ph[m.req] \in {phase[m.req], "freed"}
  BY <1>2, MessageTypes DEF FreedPhase
<1> HIDE DEF batch, ph
<1>4. DOMAIN rank = batch
  BY OrderDomains
<1>5. QED
  BY <1>1, <1>2, <1>3, <1>4, TransmitMatch

(* Every step keeps the messages matched to their requests, unless a        *)
(* transaction id comes to be shared.                                       *)
LEMMA MatchStep ==
  ASSUME TypeOK, ListsAreExact, LifeStages, NoneStranded, MessagesMatch, ~lapped', [Next]_vars
  PROVE  MessagesMatch'
<1> USE DEF svcVars, reqVars, devVars, modemVars
<1>1. ASSUME NEW c \in Calls, SendCall(c) PROVE MessagesMatch'
  BY <1>1, SendCallMatch
<1>2. ASSUME SendVersion PROVE MessagesMatch'
  <2>1. /\ Transmit(CTL, Alone(Version), NoCid, phase) /\ phase[Version] = "new" /\ down' = down
    BY <1>2 DEF SendVersion
  <2>2. DEFINE U == {Version}
               rank == Alone(Version)
  <2>3. /\ U \in SUBSET Request /\ DOMAIN rank = U /\ CTL \in AllServices
        /\ \A p \in U : To(p) = CTL /\ phase[p] \in {"new", "queued"}
    BY <2>1, RequestFacts, OrderDomains DEF AllServices
  <2>4. Transmit(CTL, rank, NoCid, phase)
    BY <2>1
  <2> HIDE DEF U, rank
  <2>5. QED
    BY <2>1, <2>3, <2>4, TransmitMatch
<1>3. ASSUME up' \subseteq up, down' \subseteq down, phase' = phase, reqTid' = reqTid
      PROVE  MessagesMatch'
  BY <1>3, KeepMatch
<1>4. ASSUME NEW m \in down, DiscardMessage(m) PROVE MessagesMatch'
  BY <1>3, <1>4 DEF DiscardMessage
<1>5. ASSUME NEW m \in down, NEW i \in Positions(reqs[m.svc]),
             \/ ReceiveCall(m, i) \/ ReceiveVersion(m, i)
             \/ ReceiveAlloc(m, i) \/ ReceiveRelease(m, i)
      PROVE  MessagesMatch'
  BY <1>5, ReceiveMatch
<1>6. ASSUME DeviceClose PROVE MessagesMatch'
  BY <1>6, DeviceCloseMatch
<1>7. ASSUME CloseCallback, up' = up, down' = down, reqTid' = reqTid PROVE MessagesMatch'
  <2>1. \A p \in Request : phase'[p] = IF phase[p] \in {"queued", "pending"} THEN "freed" ELSE phase[p]
    BY <1>7, CloseCallbackEffect
  <2>2. /\ \A q \in Request : phase'[q] = "pending" => phase[q] = "pending"
        /\ \A m \in up' \cup down' : phase'[m.req] \in {phase[m.req], "freed"}
    BY <1>7, <2>1, MessageTypes
  <2>3. QED
    BY <1>7, <2>2, KeepMatch
<1>8. ASSUME ShutdownFires PROVE MessagesMatch'
  BY <1>7, <1>8 DEF ShutdownFires
<1>9. ASSUME ConnectionDies PROVE MessagesMatch'
  BY <1>3, <1>7, <1>9 DEF ConnectionDies
<1>10. ASSUME Modem PROVE MessagesMatch'
  <2>1. ASSUME NEW m \in up, NEW info, NEW offered, Answer(m, info, offered) PROVE MessagesMatch'
    BY <2>1, ModemMatch
  <2>2. ASSUME NEW m \in up, ModemIgnores(m) PROVE MessagesMatch'
    BY <1>3, <2>2 DEF ModemIgnores
  <2>3. QED
    BY <1>10, <2>1, <2>2 DEF Modem, ModemAnswersCall, ModemListsServices, ModemAllocates,
         ModemReleases, ModemRefuses
<1>11. CASE UNCHANGED vars
  BY <1>3, <1>11 DEF vars
<1>12. QED
  BY <1>1, <1>2, <1>4, <1>5, <1>6, <1>8, <1>9, <1>10, <1>11 DEF Next, Receiving

-----------------------------------------------------------------------------
(* Client ids.                                                               *)

(* A request issued is never taken back.                                    *)
LEMMA NewStays ==
  ASSUME TypeOK, ListsAreExact, LifeStages, NoneStranded, [Next]_vars
  PROVE  \A p \in Request : phase'[p] = "new" => phase[p] = "new"
<1> USE DEF svcVars, reqVars, devVars, modemVars
<1>1. ASSUME NEW c \in Calls, SendCall(c) PROVE \A p \in Request : phase'[p] = "new" => phase[p] = "new"
  BY <1>1, SendCallEffect DEF SentIdle, SentNow
<1>2. ASSUME SendVersion PROVE \A p \in Request : phase'[p] = "new" => phase[p] = "new"
  BY <1>2 DEF SendVersion, Transmit
<1>3. ASSUME NEW m \in down, NEW i \in Positions(reqs[m.svc]),
             \/ ReceiveCall(m, i) \/ ReceiveVersion(m, i)
             \/ ReceiveAlloc(m, i) \/ ReceiveRelease(m, i)
      PROVE  \A p \in Request : phase'[p] = "new" => phase[p] = "new"
  <2>1. \A p \in Request : Completed(m, i)[p] \in {phase[p], "complete"}
    BY DEF Completed, TypeOK
  <2>2. ASSUME ReceiveCall(m, i) \/ ReceiveVersion(m, i)
        PROVE  \A p \in Request : phase'[p] = "new" => phase[p] = "new"
    BY <2>1, <2>2 DEF ReceiveCall, ReceiveVersion
  <2>3. ASSUME ReceiveAlloc(m, i) PROVE \A p \in Request : phase'[p] = "new" => phase[p] = "new"
    BY <2>1, <2>3, ReceiveAllocEffect DEF AllocIgnored, AllocTaken
  <2>4. ASSUME ReceiveRelease(m, i) PROVE \A p \in Request : phase'[p] = "new" => phase[p] = "new"
    BY <2>1, <2>4, ReceiveReleaseEffect DEF ReleaseTaken
  <2>5. QED
    BY <1>3, <2>2, <2>3, <2>4
<1>4. ASSUME DeviceClose PROVE \A p \in Request : phase'[p] = "new" => phase[p] = "new"
  BY <1>4, DeviceCloseEffect DEF DeviceClosed
<1>5. ASSUME CloseCallback PROVE \A p \in Request : phase'[p] = "new" => phase[p] = "new"
  BY <1>5, CloseCallbackEffect
<1>6. ASSUME ShutdownFires \/ ConnectionDies
      PROVE  \A p \in Request : phase'[p] = "new" => phase[p] = "new"
  BY <1>5, <1>6 DEF ShutdownFires, ConnectionDies
<1>7. ASSUME Modem PROVE phase' = phase
  BY <1>7 DEF Modem, ModemAnswersCall, ModemListsServices, ModemAllocates,
       ModemReleases, ModemRefuses, ModemIgnores, Answer
<1>8. ASSUME NEW m \in down, DiscardMessage(m) PROVE phase' = phase
  BY <1>8 DEF DiscardMessage
<1>9. CASE UNCHANGED vars
  BY <1>9 DEF vars
<1>10. QED
  BY <1>1, <1>2, <1>3, <1>4, <1>6, <1>7, <1>8, <1>9 DEF Next, Receiving

(* Only the modem changes what it holds, and a step of the daemon takes     *)
(* messages of the modem and writes none in its name.                       *)
LEMMA DaemonLeavesModem ==
  ASSUME [Next]_vars, ~Modem
  PROVE  held' = held /\ down' \subseteq down
<1> USE DEF svcVars, reqVars, devVars, modemVars
<1>1. ASSUME NEW c \in Calls, SendCall(c) PROVE held' = held /\ down' \subseteq down
  BY <1>1 DEF SendCall
<1>2. ASSUME NEW m \in down, NEW i \in Positions(reqs[m.svc]),
             \/ ReceiveCall(m, i) \/ ReceiveVersion(m, i)
             \/ ReceiveAlloc(m, i) \/ ReceiveRelease(m, i)
      PROVE  held' = held /\ down' \subseteq down
  <2>1. held' = held
    BY <1>2 DEF ReceiveCall, ReceiveVersion, ReceiveAlloc, ReceiveRelease
  <2>2. \E op : Receive(m, i, op)
    BY <1>2 DEF ReceiveCall, ReceiveVersion, ReceiveAlloc, ReceiveRelease
  <2>3. QED
    BY <2>1, <2>2 DEF Receive
<1>3. ASSUME NEW m \in down, DiscardMessage(m) PROVE held' = held /\ down' \subseteq down
  BY <1>3 DEF DiscardMessage
<1>4. ASSUME SendVersion \/ DeviceClose \/ ShutdownFires \/ ConnectionDies
      PROVE  held' = held /\ down' \subseteq down
  BY <1>4 DEF SendVersion, DeviceClose, ShutdownFires, ConnectionDies
<1>5. CASE UNCHANGED vars
  BY <1>5 DEF vars
<1>6. QED
  BY <1>1, <1>2, <1>3, <1>4, <1>5 DEF Next, Receiving

(* The answers to allocations in flight stay true.                          *)
LEMMA TrueStep ==
  ASSUME TypeOK, ListsAreExact, LifeStages, NoneStranded, MessagesMatch, AnswersAreTrue, [Next]_vars
  PROVE  AnswersAreTrue'
<1> USE DEF svcVars, reqVars, devVars, modemVars
<1>1. \A s \in Services : phase'[Release(s)] = "new" => phase[Release(s)] = "new"
  BY NewStays, RequestFacts
<1>2. \A m \in down : m.req \in Request /\ (m.req.op = "alloc" => m.req.of \in Services)
  BY MessageTypes, RequestKinds
<1>3. CASE ~Modem
  <2>1. held' = held /\ down' \subseteq down
    BY <1>3, DaemonLeavesModem
  <2>2. QED
    BY <1>1, <1>2, <2>1 DEF AnswersAreTrue
<1>4. CASE Modem
  <2>1. PICK m \in up : \/ ModemAnswersCall(m) \/ ModemListsServices(m) \/ ModemAllocates(m)
                        \/ ModemReleases(m) \/ ModemRefuses(m) \/ ModemIgnores(m)
    BY <1>4 DEF Modem
  <2>2. m.req \in Request /\ phase[m.req] \in {"pending", "freed"}
    BY MessageTypes DEF MessagesMatch
  <2>3. ASSUME NEW info, NEW offered, Answer(m, info, offered), held' = held,
               m.req.op = "alloc" => Lossy /\ info = NoInfo
        PROVE  AnswersAreTrue'
    <3>1. \A n \in down' : n \in down \/ (n.req = m.req /\ n.info = info)
      <4>1. down' = down \cup {[svc |-> m.svc, tid |-> m.tid, req |-> m.req,
                                info |-> info, offered |-> offered]}
        BY <2>3 DEF Answer
      <4>2. QED
        BY <4>1
    <3>2. QED
      BY <1>1, <1>2, <2>3, <3>1 DEF AnswersAreTrue
  <2>4. CASE ModemAnswersCall(m) \/ ModemListsServices(m)
    BY <2>3, <2>4 DEF ModemAnswersCall, ModemListsServices
  <2>5. CASE ModemRefuses(m)
    BY <2>3, <2>5 DEF ModemRefuses
  <2>6. CASE ModemIgnores(m)
    <3>1. down' = down /\ held' = held
      BY <2>6 DEF ModemIgnores
    <3>2. QED
      BY <1>1, <1>2, <3>1 DEF AnswersAreTrue
  <2>7. CASE ModemAllocates(m)
    <3>1. PICK c \in Cids \ held[m.req.of] :
             /\ held' = [held EXCEPT ![m.req.of] = @ \cup {c}]
             /\ Answer(m, [svc |-> m.req.of, cid |-> c], {})
      BY <2>7 DEF ModemAllocates
    <3>2. m.req.of \in Services
      BY <2>2, <2>7, RequestKinds DEF ModemAllocates
    <3>3. /\ \A s \in Services : held[s] \subseteq held'[s]
          /\ c \in held'[m.req.of]
      BY <3>1, <3>2 DEF TypeOK
    <3>4. \A n \in down' : n \in down \/ /\ n.req = m.req
                                         /\ n.info.svc = m.req.of /\ n.info.cid = c
      BY <3>1 DEF Answer
    <3>5. ASSUME NEW n \in down', n.req.op = "alloc", n \in down
          PROVE  \/ Lossy /\ n.info = NoInfo
                 \/ /\ n.info.svc = n.req.of
                    /\ phase'[Release(n.req.of)] = "new" => n.info.cid \in held'[n.req.of]
      BY <1>1, <1>2, <3>3, <3>5 DEF AnswersAreTrue
    <3>6. QED
      BY <3>3, <3>4, <3>5 DEF AnswersAreTrue
  <2>8. CASE ModemReleases(m)
    <3>1. /\ held' = [held EXCEPT ![m.req.of] = @ \ {m.cid}]
          /\ Answer(m, [svc |-> m.req.of, cid |-> m.cid], {})
          /\ m.req.op = "release"
      BY <2>8 DEF ModemReleases
    <3>2. m.req.of \in Services /\ m.req = Release(m.req.of)
      BY <2>2, <3>1, RequestKinds
    <3>3. phase'[Release(m.req.of)] # "new"
      BY <1>1, <2>2, <3>2
    <3>4. \A s \in Services : s # m.req.of => held'[s] = held[s]
      BY <3>1 DEF TypeOK
    <3>5. \A n \in down' : n \in down \/ n.req = m.req
      BY <3>1 DEF Answer
    <3>6. ASSUME NEW n \in down', n.req.op = "alloc"
          PROVE  \/ Lossy /\ n.info = NoInfo
                 \/ /\ n.info.svc = n.req.of
                    /\ phase'[Release(n.req.of)] = "new" => n.info.cid \in held'[n.req.of]
      BY <1>1, <1>2, <3>1, <3>3, <3>4, <3>5, <3>6 DEF AnswersAreTrue
    <3>7. QED
      BY <3>6 DEF AnswersAreTrue
  <2>9. QED
    BY <2>1, <2>4, <2>5, <2>6, <2>7, <2>8
<1>5. QED
  BY <1>3, <1>4

(* A transaction id once shared stays on record.                            *)
LEMMA LappedStays ==
  ASSUME [Next]_vars, lapped
  PROVE  lapped'
<1> USE DEF svcVars, reqVars, devVars, modemVars
<1>1. ASSUME NEW s, NEW rank, NEW c, NEW ph, Transmit(s, rank, c, ph) PROVE lapped'
  BY <1>1 DEF Transmit
<1>2. ASSUME NEW c \in Calls, SendCall(c) PROVE lapped'
  BY <1>1, <1>2 DEF SendCall
<1>3. ASSUME SendVersion \/ DeviceClose PROVE lapped'
  BY <1>1, <1>3 DEF SendVersion, DeviceClose
<1>4. ASSUME NEW m \in down, NEW i \in Positions(reqs[m.svc]), ReceiveAlloc(m, i) PROVE lapped'
  BY <1>1, <1>4 DEF ReceiveAlloc
<1>5. ASSUME NEW m \in down, NEW i \in Positions(reqs[m.svc]),
             ReceiveCall(m, i) \/ ReceiveVersion(m, i) \/ ReceiveRelease(m, i)
      PROVE  lapped'
  BY <1>5 DEF ReceiveCall, ReceiveVersion, ReceiveRelease
<1>6. ASSUME NEW m \in down, DiscardMessage(m) PROVE lapped'
  BY <1>6 DEF DiscardMessage
<1>7. ASSUME ShutdownFires \/ ConnectionDies PROVE lapped'
  BY <1>7 DEF ShutdownFires, ConnectionDies
<1>8. ASSUME Modem PROVE lapped'
  BY <1>8 DEF Modem, ModemAnswersCall, ModemListsServices, ModemAllocates,
       ModemReleases, ModemRefuses, ModemIgnores, Answer
<1>9. CASE UNCHANGED vars
  BY <1>9 DEF vars
<1>10. QED
  BY <1>2, <1>3, <1>4, <1>5, <1>6, <1>7, <1>8, <1>9 DEF Next, Receiving

(* A service becomes ready only by the answer to its own allocation, with   *)
(* the client id the answer carries.                                        *)
LEMMA BecomesReady ==
  ASSUME TypeOK, ListsAreExact, LifeStages, NoneStranded, MessagesMatch, AnswersAreTrue,
         ~lapped', [Next]_vars, NEW s \in Services, state'[s] = "READY"
  PROVE  \/ state[s] = "READY" /\ client'[s] = client[s]
         \/ \E m \in down : m.req = Alloc(s) /\ m.info.svc = s /\ client'[s] = m.info.cid
<1> USE DEF svcVars, reqVars, devVars, modemVars
<1>0. s \in AllServices
  BY DEF AllServices
<1>1. ASSUME NEW c \in Calls, SendCall(c) PROVE state[s] = "READY" /\ client'[s] = client[s]
  BY <1>0, <1>1, SendCallEffect DEF SentIdle, SentNow, SendCall
<1>2. ASSUME NEW m \in down, NEW i \in Positions(reqs[m.svc]), ReceiveAlloc(m, i)
      PROVE  \/ state[s] = "READY" /\ client'[s] = client[s]
             \/ m.req = Alloc(s) /\ m.info.svc = s /\ client'[s] = m.info.cid
  <2>1. CASE AllocIgnored(m, i)
    BY <2>1 DEF AllocIgnored
  <2>2. CASE AllocTaken(m, i)
    <3>1. /\ m.info.svc \in Services
          /\ state'[s] = IF s = m.info.svc THEN "READY" ELSE state[s]
          /\ client'[s] = IF s = m.info.svc THEN m.info.cid ELSE client[s]
      BY <1>0, <2>2 DEF AllocTaken
    <3>2. Receive(m, i, "alloc")
      BY <1>2 DEF ReceiveAlloc
    <3>3. m.req \in Request /\ m.req.op = "alloc"
      BY <3>2, RightAnswer
    <3>4. m.info.svc = m.req.of /\ m.req = Alloc(m.req.of)
      BY <3>1, <3>3, RequestKinds DEF AnswersAreTrue, NoInfo
    <3>5. QED
      BY <3>1, <3>4
  <2>3. QED
    BY <1>2, <2>1, <2>2, ReceiveAllocEffect
<1>3. ASSUME NEW m \in down, NEW i \in Positions(reqs[m.svc]), ReceiveCall(m, i)
      PROVE  state[s] = "READY" /\ client'[s] = client[s]
  BY <1>3 DEF ReceiveCall
<1>4. ASSUME NEW m \in down, NEW i \in Positions(reqs[m.svc]), ReceiveVersion(m, i)
      PROVE  state[s] = "READY" /\ client'[s] = client[s]
  BY <1>0, <1>4 DEF ReceiveVersion
<1>5. ASSUME NEW m \in down, NEW i \in Positions(reqs[m.svc]), ReceiveRelease(m, i)
      PROVE  state[s] = "READY" /\ client'[s] = client[s]
  BY <1>0, <1>5, ReceiveReleaseEffect DEF ReleaseTaken, ReceiveRelease
<1>6. ASSUME DeviceClose PROVE state[s] = "READY" /\ client'[s] = client[s]
  BY <1>0, <1>6, DeviceCloseEffect DEF DeviceClosed, DeviceClose
<1>7. ASSUME ShutdownFires PROVE FALSE
  BY <1>0, <1>7, CloseCallbackEffect DEF ShutdownFires
<1>8. ASSUME ConnectionDies PROVE state[s] = "READY" /\ client'[s] = client[s]
  BY <1>0, <1>8, CloseCallbackEffect DEF ConnectionDies
<1>9. ASSUME Modem PROVE state[s] = "READY" /\ client'[s] = client[s]
  BY <1>9 DEF Modem, ModemAnswersCall, ModemListsServices, ModemAllocates,
       ModemReleases, ModemRefuses, ModemIgnores, Answer
<1>10. ASSUME NEW m \in down, DiscardMessage(m) PROVE state[s] = "READY" /\ client'[s] = client[s]
  BY <1>10 DEF DiscardMessage
<1>11. ASSUME SendVersion PROVE state[s] = "READY" /\ client'[s] = client[s]
  BY <1>11 DEF SendVersion
<1>12. CASE UNCHANGED vars
  BY <1>12 DEF vars
<1>13. QED
  BY <1>1, <1>2, <1>3, <1>4, <1>5, <1>6, <1>7, <1>8, <1>9, <1>10, <1>11, <1>12 DEF Next, Receiving

(* The modem gives up a client id only when its release has been sent.      *)
LEMMA HeldStays ==
  ASSUME TypeOK, MessagesMatch, [Next]_vars, NEW s \in Services, phase[Release(s)] = "new"
  PROVE  held[s] \subseteq held'[s]
<1>1. CASE ~Modem
  BY <1>1, DaemonLeavesModem
<1>2. CASE Modem
  <2>1. PICK m \in up : \/ ModemAnswersCall(m) \/ ModemListsServices(m) \/ ModemAllocates(m)
                        \/ ModemReleases(m) \/ ModemRefuses(m) \/ ModemIgnores(m)
    BY <1>2 DEF Modem
  <2>2. m.req \in Request /\ phase[m.req] \in {"pending", "freed"}
    BY MessageTypes DEF MessagesMatch
  <2>3. CASE ModemAllocates(m)
    <3>1. PICK c : held' = [held EXCEPT ![m.req.of] = @ \cup {c}]
      BY <2>3 DEF ModemAllocates
    <3>2. QED
      BY <3>1 DEF TypeOK
  <2>4. CASE ModemReleases(m)
    <3>1. held' = [held EXCEPT ![m.req.of] = @ \ {m.cid}] /\ m.req.op = "release"
      BY <2>4 DEF ModemReleases
    <3>2. m.req.of # s
      BY <2>2, <3>1, RequestKinds
    <3>3. QED
      BY <3>1, <3>2 DEF TypeOK
  <2>5. CASE \/ ModemAnswersCall(m) \/ ModemListsServices(m) \/ ModemRefuses(m) \/ ModemIgnores(m)
    BY <2>5 DEF ModemAnswersCall, ModemListsServices, ModemRefuses, ModemIgnores
  <2>6. QED
    BY <2>1, <2>3, <2>4, <2>5
<1>3. QED
  BY <1>1, <1>2

(* A ready service keeps a client id the modem holds for it.                *)
LEMMA OwnsCidStep ==
  ASSUME TypeOK, ListsAreExact, LifeStages, NoneStranded,
         lapped \/ (MessagesMatch /\ AnswersAreTrue), ReadyServiceOwnsItsCid, [Next]_vars
  PROVE  ReadyServiceOwnsItsCid'
<1> SUFFICES ASSUME NEW s \in Services, state'[s] = "READY", phase'[Release(s)] = "new", ~lapped'
             PROVE  client'[s] \in held'[s]
  BY DEF ReadyServiceOwnsItsCid
<1>1. ~lapped /\ MessagesMatch /\ AnswersAreTrue
  BY LappedStays
<1>2. phase[Release(s)] = "new" /\ Release(s) \in Request
  BY NewStays, RequestFacts
<1>3. held[s] \subseteq held'[s]
  BY <1>1, <1>2, HeldStays
<1>4. CASE state[s] = "READY" /\ client'[s] = client[s]
  BY <1>1, <1>2, <1>3, <1>4 DEF ReadyServiceOwnsItsCid
<1>5. CASE \E m \in down : m.req = Alloc(s) /\ m.info.svc = s /\ client'[s] = m.info.cid
  <2>1. PICK m \in down : m.req = Alloc(s) /\ m.info.svc = s /\ client'[s] = m.info.cid
    BY <1>5
  <2>2. m.req.op = "alloc" /\ m.req.of = s /\ m.info # NoInfo
    BY <2>1, RequestKinds DEF NoInfo
  <2>3. m.info.cid \in held[s]
    BY <1>1, <1>2, <2>2 DEF AnswersAreTrue
  <2>4. QED
    BY <1>3, <2>1, <2>3
<1>6. QED
  BY <1>1, <1>4, <1>5, BecomesReady

-----------------------------------------------------------------------------
(* Answers and stranded requests.                                            *)

(* Callbacks are called with the answer to their own request.               *)
LEMMA AnswersStep ==
  ASSUME TypeOK, ListsAreExact, LifeStages, lapped \/ (MessagesMatch /\ AnswersAreTrue),
         AnswersReachTheirRequest, [Next]_vars
  PROVE  AnswersReachTheirRequest'
<1> USE DEF svcVars, reqVars, devVars, modemVars
<1> SUFFICES ASSUME ~lapped' PROVE \A q \in Request : answer'[q] \subseteq {q}
  BY DEF AnswersReachTheirRequest
<1>1. MessagesMatch /\ \A q \in Request : answer[q] \subseteq {q}
  BY LappedStays DEF AnswersReachTheirRequest
<1>2. ASSUME NEW m \in down, NEW i \in Positions(reqs[m.svc]), NEW op, Receive(m, i, op)
      PROVE  \A q \in Request : answer'[q] \subseteq {q}
  <2>1. m.req = reqs[m.svc][i] /\ m.req \in Request
    BY <1>1, <1>2, RightAnswer
  <2>2. answer' = [answer EXCEPT ![m.req] = @ \cup {m.req}]
    BY <1>2, <2>1 DEF Receive
  <2>3. QED
    BY <1>1, <2>1, <2>2 DEF TypeOK
<1>3. ASSUME NEW m \in down, NEW i \in Positions(reqs[m.svc]),
             \/ ReceiveCall(m, i) \/ ReceiveVersion(m, i)
             \/ ReceiveAlloc(m, i) \/ ReceiveRelease(m, i)
      PROVE  \A q \in Request : answer'[q] \subseteq {q}
  BY <1>2, <1>3 DEF ReceiveCall, ReceiveVersion, ReceiveAlloc, ReceiveRelease
<1>4. ASSUME NEW c \in Calls, SendCall(c) PROVE answer' = answer
  BY <1>4 DEF SendCall
<1>5. ASSUME NEW m \in down, DiscardMessage(m) PROVE answer' = answer
  BY <1>5 DEF DiscardMessage
<1>6. ASSUME SendVersion \/ DeviceClose \/ ShutdownFires \/ ConnectionDies PROVE answer' = answer
  BY <1>6 DEF SendVersion, DeviceClose, ShutdownFires, ConnectionDies
<1>7. ASSUME Modem PROVE answer' = answer
  BY <1>7 DEF Modem, ModemAnswersCall, ModemListsServices, ModemAllocates,
       ModemReleases, ModemRefuses, ModemIgnores, Answer
<1>8. ASSUME UNCHANGED vars PROVE answer' = answer
  BY <1>8 DEF vars
<1>9. CASE answer' = answer
  BY <1>1, <1>9
<1>10. CASE answer' # answer
  <2>1. PICK m \in down : \E i \in Positions(reqs[m.svc]) :
                             \/ ReceiveCall(m, i) \/ ReceiveVersion(m, i)
                             \/ ReceiveAlloc(m, i) \/ ReceiveRelease(m, i)
    <3>1. Next
      BY <1>8, <1>10
    <3>2. Receiving
      BY <1>4, <1>6, <1>7, <1>10, <3>1 DEF Next
    <3>3. QED
      BY <1>5, <1>10, <3>2 DEF Receiving
  <2>2. QED
    BY <1>3, <2>1
<1>11. QED
  BY <1>9, <1>10

(* An idle service stays untouched: nothing is queued on it, and nothing    *)
(* has been allocated for it.                                               *)
LEMMA IdleStep ==
  ASSUME TypeOK, ListsAreExact, ListsAreExact', LifeStages, NoneStranded, [Next]_vars,
         NEW s \in Services, state'[s] = "IDLE"
  PROVE  reqs'[s] = <<>> /\ phase'[Alloc(s)] = "new"
<1> USE DEF svcVars, reqVars, devVars, modemVars
<1>0. /\ s \in AllServices /\ s # CTL /\ Alloc(s) \in Request /\ Alloc(s).op = "alloc"
      /\ state[s] = "IDLE" => reqs[s] = <<>> /\ phase[Alloc(s)] = "new"
      /\ state[s] = "NONE" => reqs[s] = <<>>
  BY RequestFacts, RequestKinds DEF AllServices, NoneStranded, ListsAreExact
<1>1. ASSUME NEW c \in Calls, SendCall(c) PROVE reqs'[s] = <<>> /\ phase'[Alloc(s)] = "new"
  <2>1. state[s] = "IDLE" /\ s # Target[c]
    BY <1>0, <1>1, SendCallEffect DEF SentIdle, SentNow
  <2>2. reqs'[s] = reqs[s]
    BY <1>0, <1>1, <2>1 DEF SendCall, TypeOK
  <2>3. phase'[Alloc(s)] = phase[Alloc(s)]
    <3>1. Alloc(s) # Call(c) /\ Alloc(s) # Alloc(Target[c])
      BY <2>1, RequestKinds
    <3>2. Target[c] \in AllServices => Alloc(s) \notin Unsent(Target[c])
      BY <1>0, UnsentFacts
    <3>3. QED
      BY <1>0, <1>1, <3>1, <3>2, SendCallEffect DEF SentIdle, SentNow
  <2>4. QED
    BY <1>0, <2>1, <2>2, <2>3
<1>2. ASSUME NEW m \in down, NEW i \in Positions(reqs[m.svc]), NEW op, Receive(m, i, op)
      PROVE  /\ state[s] \in {"IDLE", "NONE"} => Unlinked(m, i)[s] = <<>>
             /\ phase[Alloc(s)] = "new" => Completed(m, i)[Alloc(s)] = "new"
  <2>1. ReceivedOne(m, i)
    BY <1>2, CompletedLists
  <2>2. state[s] \in {"IDLE", "NONE"} => s # m.svc
    BY <1>0, <1>2 DEF Receive, Positions
  <2>3. QED
    BY <1>0, <2>1, <2>2 DEF ReceivedOne
<1>3. ASSUME NEW m \in down, NEW i \in Positions(reqs[m.svc]), ReceiveCall(m, i)
      PROVE  reqs'[s] = <<>> /\ phase'[Alloc(s)] = "new"
  BY <1>0, <1>2, <1>3 DEF ReceiveCall
<1>4. ASSUME NEW m \in down, NEW i \in Positions(reqs[m.svc]), ReceiveVersion(m, i)
      PROVE  reqs'[s] = <<>> /\ phase'[Alloc(s)] = "new"
  <2>1. Receive(m, i, "version") /\ reqs' = Unlinked(m, i) /\ phase' = Completed(m, i)
    BY <1>4 DEF ReceiveVersion
  <2>2. state[s] \in {"IDLE", "NONE"}
    BY <1>0, <1>4 DEF ReceiveVersion
  <2>3. phase[Version] = "pending"
    <3>1. ReceivedOne(m, i) /\ reqs[m.svc][i].op = "version"
      BY <2>1, CompletedLists DEF Receive
    <3>2. QED
      BY <3>1, RequestKinds DEF ReceivedOne
  <2>4. phase[Alloc(s)] = "new"
    BY <2>3 DEF LifeStages
  <2>5. QED
    BY <1>2, <2>1, <2>2, <2>4
<1>5. ASSUME NEW m \in down, NEW i \in Positions(reqs[m.svc]), ReceiveAlloc(m, i)
      PROVE  reqs'[s] = <<>> /\ phase'[Alloc(s)] = "new"
  <2>1. Receive(m, i, "alloc") /\ reqs' = Unlinked(m, i)
    BY <1>5 DEF ReceiveAlloc
  <2>2. CASE AllocIgnored(m, i)
    BY <1>0, <1>2, <2>1, <2>2 DEF AllocIgnored
  <2>3. CASE AllocTaken(m, i)
    <3>1. state[s] = "IDLE" /\ m.info.svc \in AllServices
      BY <1>0, <2>3 DEF AllocTaken, AllServices
    <3>2. Alloc(s) \notin Unsent(m.info.svc)
      BY <1>0, <3>1, UnsentFacts
    <3>3. phase'[Alloc(s)] = Completed(m, i)[Alloc(s)]
      BY <1>0, <2>3, <3>2 DEF AllocTaken
    <3>4. QED
      BY <1>0, <1>2, <2>1, <3>1, <3>3
  <2>4. QED
    BY <1>5, <2>2, <2>3, ReceiveAllocEffect
<1>6. ASSUME NEW m \in down, NEW i \in Positions(reqs[m.svc]), ReceiveRelease(m, i)
      PROVE  reqs'[s] = <<>> /\ phase'[Alloc(s)] = "new"
  <2>1. Receive(m, i, "release")
    BY <1>6 DEF ReceiveRelease
  <2>2. state[s] = "IDLE"
    BY <1>0, <1>6, ReceiveReleaseEffect DEF ReleaseTaken
  <2>3. phase'[Alloc(s)] = "new"
    <3>1. phase'[Alloc(s)] = Completed(m, i)[Alloc(s)] \/ Completed(m, i)[Alloc(s)] # "new"
      BY <1>0, <1>6, ReceiveReleaseEffect DEF ReleaseTaken
    <3>2. QED
      BY <1>0, <1>2, <2>1, <2>2, <3>1
  <2>4. reqs'[s] = <<>>
    <3>1. Unlinked(m, i) \in [AllServices -> Seq(Request)]
      BY <2>1, ReceiveType
    <3>2. reqs' = Unlinked(m, i) \/ reqs' = [Unlinked(m, i) EXCEPT ![m.info.svc] = <<>>]
      BY <1>6 DEF ReceiveRelease
    <3>3. QED
      BY <1>0, <1>2, <2>1, <2>2, <3>1, <3>2
  <2>5. QED
    BY <2>3, <2>4
<1>7. ASSUME DeviceClose PROVE FALSE
  BY <1>0, <1>7, DeviceCloseEffect DEF DeviceClosed, TypeOK, States
<1>8. ASSUME CloseCallback PROVE FALSE
  BY <1>0, <1>8, CloseCallbackEffect
<1>9. ASSUME ShutdownFires PROVE FALSE
  BY <1>8, <1>9 DEF ShutdownFires
<1>10. ASSUME reqs' = reqs, phase' = phase, state' = state
       PROVE  reqs'[s] = <<>> /\ phase'[Alloc(s)] = "new"
  BY <1>0, <1>10
<1>11. ASSUME ConnectionDies PROVE reqs'[s] = <<>> /\ phase'[Alloc(s)] = "new"
  BY <1>8, <1>10, <1>11 DEF ConnectionDies
<1>12. ASSUME Modem PROVE reqs'[s] = <<>> /\ phase'[Alloc(s)] = "new"
  BY <1>10, <1>12 DEF Modem, ModemAnswersCall, ModemListsServices, ModemAllocates,
       ModemReleases, ModemRefuses, ModemIgnores, Answer
<1>13. ASSUME NEW m \in down, DiscardMessage(m) PROVE reqs'[s] = <<>> /\ phase'[Alloc(s)] = "new"
  BY <1>10, <1>13 DEF DiscardMessage
<1>14. ASSUME SendVersion PROVE reqs'[s] = <<>> /\ phase'[Alloc(s)] = "new"
  <2>1. /\ phase' = [p \in Request |-> IF p \in {Version} THEN "pending" ELSE phase[p]]
        /\ reqs' = [reqs EXCEPT ![CTL] = Cons(Version, @)] /\ state' = state
    BY <1>14 DEF SendVersion, Transmit, Alone
  <2>2. QED
    BY <1>0, <2>1, RequestKinds DEF TypeOK
<1>15. CASE UNCHANGED vars
  BY <1>10, <1>15 DEF vars
<1>16. QED
  BY <1>1, <1>3, <1>4, <1>5, <1>6, <1>7, <1>9, <1>11, <1>12, <1>13, <1>14, <1>15 DEF Next, Receiving

(* A service waiting for its client id has its allocation pending, unless   *)
(* the modem refused it.                                                    *)
LEMMA WaitStep ==
  ASSUME TypeOK, ListsAreExact, LifeStages, NoneStranded,
         lapped \/ (MessagesMatch /\ AnswersAreTrue), [Next]_vars,
         NEW s \in Services, state'[s] = "WAIT_CID"
  PROVE  \/ phase'[Alloc(s)] = "pending"
         \/ phase'[Alloc(s)] = "complete" /\ (Lossy \/ lapped')
<1> DEFINE Allocating == \/ phase[Alloc(s)] = "pending"
                         \/ phase[Alloc(s)] = "complete" /\ (Lossy \/ lapped)
           Goal == \/ phase'[Alloc(s)] = "pending"
                   \/ phase'[Alloc(s)] = "complete" /\ (Lossy \/ lapped')
<1> USE DEF svcVars, reqVars, devVars, modemVars
<1>0. /\ s \in AllServices /\ s # CTL /\ Alloc(s) \in Request /\ Alloc(s).op = "alloc"
      /\ To(Alloc(s)) = CTL
      /\ state[s] = "WAIT_CID" => Allocating
  BY RequestFacts, RequestKinds DEF AllServices, NoneStranded
<1>1. ASSUME state[s] = "WAIT_CID", phase'[Alloc(s)] = phase[Alloc(s)] PROVE Goal
  BY <1>0, <1>1, LappedStays
<1>2. ASSUME NEW c \in Calls, SendCall(c) PROVE Goal
  <2>1. CASE SentIdle(c)
    <3>1. CASE s = Target[c]
      BY <1>0, <2>1, <3>1 DEF SentIdle
    <3>2. CASE s # Target[c]
      <4>1. Alloc(s) # Call(c) /\ Alloc(s) # Alloc(Target[c])
        BY <3>2, RequestKinds
      <4>2. state[s] = "WAIT_CID" /\ phase'[Alloc(s)] = phase[Alloc(s)]
        BY <1>0, <2>1, <3>2, <4>1 DEF SentIdle
      <4>3. QED
        BY <1>1, <4>2
    <3>3. QED
      BY <3>1, <3>2
  <2>2. CASE SentNow(c)
    <3>1. Alloc(s) # Call(c) /\ Alloc(s) \notin Unsent(Target[c])
      BY <1>0, <2>2, RequestKinds, UnsentFacts DEF SentNow
    <3>2. QED
      BY <1>0, <1>1, <2>2, <3>1 DEF SentNow
  <2>3. QED
    BY <1>2, <2>1, <2>2, SendCallEffect
<1>3. ASSUME NEW m \in down, NEW i \in Positions(reqs[m.svc]), NEW op, Receive(m, i, op)
      PROVE  /\ op # "alloc" => Completed(m, i)[Alloc(s)] = phase[Alloc(s)]
             /\ Completed(m, i)[Alloc(s)] \in {phase[Alloc(s)], "complete"}
             /\ Alloc(s) # reqs[m.svc][i] => Completed(m, i)[Alloc(s)] = phase[Alloc(s)]
  <2>1. ReceivedOne(m, i) /\ reqs[m.svc][i].op = op
    BY <1>3, CompletedLists DEF Receive
  <2>2. QED
    BY <1>0, <2>1 DEF ReceivedOne
<1>4. ASSUME NEW m \in down, NEW i \in Positions(reqs[m.svc]), ReceiveCall(m, i) PROVE Goal
  <2>1. /\ state' = state /\ phase' = Completed(m, i) /\ Receive(m, i, "call")
    BY <1>4 DEF ReceiveCall
  <2>2. QED
    BY <1>1, <1>3, <2>1
<1>5. ASSUME NEW m \in down, NEW i \in Positions(reqs[m.svc]), ReceiveVersion(m, i) PROVE Goal
  <2>1. /\ state[s] = "WAIT_CID" /\ phase' = Completed(m, i) /\ Receive(m, i, "version")
    BY <1>0, <1>5 DEF ReceiveVersion
  <2>2. QED
    BY <1>1, <1>3, <2>1
<1>6. ASSUME NEW m \in down, NEW i \in Positions(reqs[m.svc]), ReceiveRelease(m, i) PROVE Goal
  <2>1. Receive(m, i, "release")
    BY <1>6 DEF ReceiveRelease
  <2>2. state[s] = "WAIT_CID" /\ phase'[Alloc(s)] = Completed(m, i)[Alloc(s)]
    BY <1>0, <1>6, ReceiveReleaseEffect DEF ReleaseTaken
  <2>3. QED
    BY <1>1, <1>3, <2>1, <2>2
<1>7. ASSUME NEW m \in down, NEW i \in Positions(reqs[m.svc]), ReceiveAlloc(m, i) PROVE Goal
  <2>1. Receive(m, i, "alloc")
    BY <1>7 DEF ReceiveAlloc
  <2>2. state[s] = "WAIT_CID" /\ phase'[Alloc(s)] = Completed(m, i)[Alloc(s)]
    <3>1. CASE AllocIgnored(m, i)
      BY <3>1 DEF AllocIgnored
    <3>2. CASE AllocTaken(m, i)
      <4>1. m.info.svc \in AllServices /\ Alloc(s) \notin Unsent(m.info.svc)
        BY <1>0, <3>2, UnsentFacts DEF AllocTaken, AllServices
      <4>2. QED
        BY <1>0, <3>2, <4>1 DEF AllocTaken
    <3>3. QED
      BY <1>7, <3>1, <3>2, ReceiveAllocEffect
  <2>3. CASE Alloc(s) # reqs[m.svc][i]
    BY <1>1, <1>3, <2>1, <2>2, <2>3
  <2>4. CASE Alloc(s) = reqs[m.svc][i]
    <3>1. phase'[Alloc(s)] = "complete"
      <4>1. ReceivedOne(m, i)
        BY <2>1, CompletedLists
      <4>2. QED
        BY <1>0, <2>2, <2>4, <4>1 DEF ReceivedOne
    <3>2. ASSUME ~Lossy, ~lapped' PROVE FALSE
      <4>1. MessagesMatch /\ AnswersAreTrue
        BY <3>2, LappedStays
      <4>2. m.req = Alloc(s)
        BY <2>1, <2>4, <4>1, RightAnswer
      <4>3. m.info.svc = s
        BY <3>2, <4>1, <4>2, RequestKinds DEF AnswersAreTrue
      <4>4. ~(m.info = NoInfo \/ state[m.info.svc] = "NONE")
        BY <1>0, <2>2, <4>3 DEF NoInfo
      <4>5. AllocTaken(m, i)
        BY <1>7, <4>4, ReceiveAllocEffect
      <4>6. state'[s] = "READY"
        BY <1>0, <4>3, <4>5 DEF AllocTaken
      <4>7. QED
        BY <4>6
    <3>3. QED
      BY <3>1, <3>2
  <2>5. QED
    BY <2>3, <2>4
<1>8. ASSUME DeviceClose PROVE Goal
  <2>1. DeviceClosed
    BY <1>8, DeviceCloseEffect
  <2>2. state[s] \notin {"IDLE", "WAIT_CID"} /\ state'[s] = state[s]
    BY <1>0, <2>1 DEF DeviceClosed
  <2>3. QED
    BY <2>2
<1>9. ASSUME CloseCallback PROVE FALSE
  BY <1>0, <1>9, CloseCallbackEffect
<1>10. ASSUME phase' = phase, state' = state PROVE Goal
  BY <1>1, <1>10
<1>11. ASSUME ShutdownFires \/ ConnectionDies PROVE Goal
  BY <1>9, <1>10, <1>11 DEF ShutdownFires, ConnectionDies
<1>12. ASSUME Modem PROVE Goal
  BY <1>10, <1>12 DEF Modem, ModemAnswersCall, ModemListsServices, ModemAllocates,
       ModemReleases, ModemRefuses, ModemIgnores, Answer
<1>13. ASSUME NEW m \in down, DiscardMessage(m) PROVE Goal
  BY <1>10, <1>13 DEF DiscardMessage
<1>14. ASSUME SendVersion PROVE Goal
  <2>1. /\ phase' = [p \in Request |-> IF p \in {Version} THEN "pending" ELSE phase[p]]
        /\ state' = state
    BY <1>14 DEF SendVersion, Transmit, Alone
  <2>2. phase'[Alloc(s)] = phase[Alloc(s)]
    BY <1>0, <2>1, RequestKinds
  <2>3. QED
    BY <1>1, <2>1, <2>2
<1>15. CASE UNCHANGED vars
  BY <1>10, <1>15 DEF vars
<1>16. QED
  BY <1>2, <1>4, <1>5, <1>6, <1>7, <1>8, <1>11, <1>12, <1>13, <1>14, <1>15 DEF Next, Receiving

(* No step strands a request.                                               *)
LEMMA StrandedStep ==
  ASSUME TypeOK, TypeOK', ListsAreExact, ListsAreExact', LifeStages, LifeStages', NoneStranded,
         lapped \/ (MessagesMatch /\ AnswersAreTrue), [Next]_vars
  PROVE  NoneStranded'
<1> SUFFICES ASSUME NEW s \in Services
             PROVE  /\ state'[s] = "IDLE" => reqs'[s] = <<>> /\ phase'[Alloc(s)] = "new"
                    /\ state'[s] = "READY" => \A q \in Request : To(q) = s => phase'[q] # "queued"
                    /\ state'[s] = "WAIT_CID" =>
                          \/ phase'[Alloc(s)] = "pending"
                          \/ phase'[Alloc(s)] = "complete" /\ (Lossy \/ lapped')
  BY DEF NoneStranded
<1>1. state'[s] = "READY" => \A q \in Request : To(q) = s => phase'[q] # "queued"
  BY DEF LifeStages
<1>2. QED
  BY <1>1, IdleStep, WaitStep

-----------------------------------------------------------------------------
(* The invariant.                                                            *)

(* The device is opened in a state the invariant holds in.                  *)
LEMMA InitInductive == Init => Inductive
<1> SUFFICES ASSUME Init PROVE Inductive
  OBVIOUS
<1>1. TypeOK
  BY InitType
<1>2. \A q \in Request : phase[q] = "new" /\ answer[q] = {}
  BY DEF Init
<1>3. \A s \in AllServices : reqs[s] = <<>> /\ state[s] = (IF s = CTL THEN "READY" ELSE "NONE")
  BY DEF Init
<1>4. ListsAreExact
  <2>1. \A s \in AllServices : Waiting(s) = {}
    BY <1>2 DEF Waiting
  <2>2. QED
    BY <1>3, <2>1, EmptyLists DEF ListsAreExact
<1>5. LifeStages
  BY <1>2, <1>3, RequestFacts DEF Init, LifeStages, AllServices
<1>6. NoneStranded
  BY <1>3 DEF NoneStranded, AllServices
<1>7. MessagesMatch /\ AnswersAreTrue
  BY <1>2 DEF Init, MessagesMatch, AnswersAreTrue, TidCollision
<1>8. AnswersReachTheirRequest
  BY <1>2 DEF AnswersReachTheirRequest
<1>9. ReadyServiceOwnsItsCid
  BY <1>3 DEF ReadyServiceOwnsItsCid, AllServices
<1>10. QED
  BY <1>1, <1>4, <1>5, <1>6, <1>7, <1>8, <1>9 DEF Inductive

(* Every step keeps the invariant.                                          *)
LEMMA NextInductive == Inductive /\ [Next]_vars => Inductive'
<1> SUFFICES ASSUME Inductive, [Next]_vars PROVE Inductive'
  OBVIOUS
<1> USE DEF Inductive
<1>1. TypeOK'
  BY NextType
<1>2. ListsAreExact'
  BY <1>1, ListsStep
<1>3. LifeStages'
  BY LifeStep
<1>4. NoneStranded'
  BY <1>1, <1>2, <1>3, StrandedStep
<1>5. (lapped \/ (MessagesMatch /\ AnswersAreTrue))'
  BY LappedStays, MatchStep, TrueStep
<1>6. AnswersReachTheirRequest'
  BY AnswersStep
<1>7. ReadyServiceOwnsItsCid'
  BY OwnsCidStep
<1>8. QED
  BY <1>1, <1>2, <1>3, <1>4, <1>5, <1>6, <1>7

(* The inductive invariant holds in every reachable state.                  *)
THEOREM InductiveInvariant == Spec => []Inductive
  BY InitInductive, NextInductive, PTL DEF Spec

(* The request list of a service is exactly its unanswered requests, each   *)
(* once, whatever is issued, answered, freed or lost (services.c, ddev.c).  *)
THEOREM ListsCorrect == Spec => []ListsAreExact
<1>1. Inductive => ListsAreExact
  BY DEF Inductive
<1>2. QED
  BY <1>1, InductiveInvariant, PTL

(* No request is left behind on an idle or a ready service, and one that    *)
(* waits for a client id waits for an allocation (services.c:123-198).      *)
THEOREM NothingStranded == Spec => []NoneStranded
<1>1. Inductive => NoneStranded
  BY DEF Inductive
<1>2. QED
  BY <1>1, InductiveInvariant, PTL

(* As long as no transaction id is shared, every callback is given the      *)
(* answer to its own request (ddev.c:92-99).                                *)
THEOREM AnswersCorrect == Spec => []AnswersReachTheirRequest
<1>1. Inductive => AnswersReachTheirRequest
  BY DEF Inductive
<1>2. QED
  BY <1>1, InductiveInvariant, PTL

(* As long as no transaction id is shared, a ready service works under a    *)
(* client id the modem holds for it (ctrl.c:11-26, services.c:136-144).     *)
THEOREM CidsCorrect == Spec => []ReadyServiceOwnsItsCid
<1>1. Inductive => ReadyServiceOwnsItsCid
  BY DEF Inductive
<1>2. QED
  BY <1>1, InductiveInvariant, PTL

-----------------------------------------------------------------------------
(* Requests move forward.                                                    *)

Forward ==
    \A q \in Request :
        /\ phase[q] \notin {"new", "queued"} => reqTid'[q] = reqTid[q]
        /\ phase[q] \in {"complete", "freed"} => phase'[q] = phase[q]

(* Transmission changes the transaction ids of what it transmits only.      *)
LEMMA TransmitTids ==
  ASSUME NEW s, NEW U, NEW rank, DOMAIN rank = U, NEW c, NEW ph, Transmit(s, rank, c, ph)
  PROVE  \A q \in Request : q \notin U => reqTid'[q] = reqTid[q]
  BY DEF Transmit

(* A step neither transmits a request twice nor ends one twice.             *)
LEMMA ForwardStep ==
  ASSUME TypeOK, ListsAreExact, LifeStages, NoneStranded, [Next]_vars
  PROVE  Forward
<1> USE DEF svcVars, reqVars, devVars, modemVars
<1>1. ASSUME NEW c \in Calls, SendCall(c) PROVE Forward
  <2> DEFINE s == Target[c]
             q == Call(c)
             queued == [phase EXCEPT ![q] = "queued"]
  <2>1. s \in AllServices /\ q \in Request /\ phase[q] = "new"
    BY <1>1, RequestFacts DEF AllServices, SendCall
  <2>2. CASE state[s] = "IDLE"
    <3>1. Transmit(CTL, Alone(Alloc(s)), NoCid, queued)
      BY <1>1, <2>2 DEF SendCall
    <3>2. \A p \in Request : p # Alloc(s) => reqTid'[p] = reqTid[p]
      <4> HIDE DEF s, q, queued
      <4>1. QED
        BY <3>1 DEF Transmit, Alone
    <3>3. SentIdle(c)
      BY <1>1, <2>2, SendCallEffect DEF SentNow
    <3>4. QED
      BY <2>1, <3>2, <3>3 DEF SentIdle, Forward
  <2>3. CASE state[s] # "IDLE"
    <3>1. PICK rank \in WalkOrders(Cons(q, reqs[s]), Unsent(s) \cup {q}) :
             Transmit(s, rank, IF s = CTL THEN NoCid ELSE client[s], queued)
      BY <1>1, <2>3 DEF SendCall
    <3>2. \A p \in Request : p \notin Unsent(s) \cup {q} => reqTid'[p] = reqTid[p]
      <4> HIDE DEF s, q, queued
      <4>1. QED
        BY <3>1, TransmitTids, OrderDomains
    <3>3. SentNow(c)
      BY <1>1, <2>3, SendCallEffect DEF SentIdle
    <3>4. \A p \in Unsent(s) : phase[p] = "queued"
      BY DEF Unsent
    <3>5. QED
      BY <2>1, <3>2, <3>3, <3>4 DEF SentNow, Forward
  <2>4. QED
    BY <2>2, <2>3
<1>2. ASSUME SendVersion PROVE Forward
  <2>1. /\ phase' = [p \in Request |-> IF p \in {Version} THEN "pending" ELSE phase[p]]
        /\ \A p \in Request : p # Version => reqTid'[p] = reqTid[p]
        /\ phase[Version] = "new"
    BY <1>2 DEF SendVersion, Transmit, Alone
  <2>2. QED
    BY <2>1 DEF Forward
<1>3. ASSUME NEW m \in down, NEW i \in Positions(reqs[m.svc]), NEW op, Receive(m, i, op)
      PROVE  \A p \in Request : /\ phase[p] \in {"complete", "freed"} => Completed(m, i)[p] = phase[p]
                                /\ phase[p] = "queued" => Completed(m, i)[p] = "queued"
  <2>1. ReceivedOne(m, i)
    BY <1>3, CompletedLists
  <2>2. QED
    BY <2>1 DEF ReceivedOne
<1>4. ASSUME NEW m \in down, NEW i \in Positions(reqs[m.svc]),
             ReceiveCall(m, i) \/ ReceiveVersion(m, i)
      PROVE  Forward
  <2>1. reqTid' = reqTid /\ phase' = Completed(m, i) /\ \E op : Receive(m, i, op)
    BY <1>4 DEF ReceiveCall, ReceiveVersion
  <2>2. QED
    BY <1>3, <2>1 DEF Forward
<1>5. ASSUME NEW m \in down, NEW i \in Positions(reqs[m.svc]), ReceiveAlloc(m, i) PROVE Forward
  <2>1. Receive(m, i, "alloc")
    BY <1>5 DEF ReceiveAlloc
  <2>2. CASE m.info = NoInfo \/ state[m.info.svc] = "NONE"
    <3>1. reqTid' = reqTid /\ phase' = Completed(m, i)
      BY <1>5, <2>2 DEF ReceiveAlloc
    <3>2. QED
      BY <1>3, <2>1, <3>1 DEF Forward
  <2>3. CASE ~(m.info = NoInfo \/ state[m.info.svc] = "NONE")
    <3>1. PICK rank \in WalkOrders(reqs[m.info.svc], Unsent(m.info.svc)) :
             Transmit(m.info.svc, rank, m.info.cid, Completed(m, i))
      BY <1>5, <2>3 DEF ReceiveAlloc
    <3>2. \A p \in Request : p \notin Unsent(m.info.svc) => reqTid'[p] = reqTid[p]
      BY <3>1, TransmitTids, OrderDomains
    <3>3. \A p \in Request : p \notin Unsent(m.info.svc) => phase'[p] = Completed(m, i)[p]
      BY <3>1, TransmitPhase, OrderDomains
    <3>4. \A p \in Unsent(m.info.svc) : phase[p] = "queued"
      BY DEF Unsent
    <3>5. QED
      BY <1>3, <2>1, <3>2, <3>3, <3>4 DEF Forward
  <2>4. QED
    BY <2>2, <2>3
<1>6. ASSUME NEW m \in down, NEW i \in Positions(reqs[m.svc]), ReceiveRelease(m, i) PROVE Forward
  <2>1. Receive(m, i, "release") /\ reqTid' = reqTid
    BY <1>6 DEF ReceiveRelease
  <2>2. \A p \in Request : phase'[p] = Completed(m, i)[p]
                           \/ (phase'[p] = "freed" /\ Completed(m, i)[p] \in {"queued", "pending"})
    BY <1>6, ReceiveReleaseEffect DEF ReleaseTaken
  <2>3. QED
    BY <1>3, <2>1, <2>2 DEF Forward
<1>7. ASSUME DeviceClose PROVE Forward
  <2> DEFINE unready == {s \in Services : state[s] \in {"IDLE", "WAIT_CID"}}
             batch == {Release(s) : s \in {t \in Services : state[t] = "READY"}}
             ph == FreedPhase(unready, phase)
  <2>1. PICK rank \in PushOrders(batch) : Transmit(CTL, rank, NoCid, ph)
    BY <1>7 DEF DeviceClose
  <2>2. \A p \in batch : phase[p] = "new"
    BY <1>7 DEF DeviceClose, LifeStages
  <2>3. \A p \in Request : p \notin batch => reqTid'[p] = reqTid[p] /\ phase'[p] = ph[p]
    <3> HIDE DEF batch, ph
    <3>1. QED
      BY <2>1, TransmitTids, TransmitPhase, OrderDomains
  <2>4. \A p \in Request : phase[p] \in {"complete", "freed"} => ph[p] = phase[p]
    BY DEF FreedPhase
  <2> HIDE DEF batch, ph
  <2>5. QED
    BY <2>2, <2>3, <2>4 DEF Forward
<1>8. ASSUME CloseCallback, reqTid' = reqTid PROVE Forward
  BY <1>8, CloseCallbackEffect DEF Forward
<1>9. ASSUME phase' = phase, reqTid' = reqTid PROVE Forward
  BY <1>9 DEF Forward
<1>10. ASSUME ShutdownFires \/ ConnectionDies PROVE Forward
  BY <1>8, <1>9, <1>10 DEF ShutdownFires, ConnectionDies
<1>11. ASSUME Modem PROVE Forward
  BY <1>9, <1>11 DEF Modem, ModemAnswersCall, ModemListsServices, ModemAllocates,
       ModemReleases, ModemRefuses, ModemIgnores, Answer
<1>12. ASSUME NEW m \in down, DiscardMessage(m) PROVE Forward
  BY <1>9, <1>12 DEF DiscardMessage
<1>13. CASE UNCHANGED vars
  BY <1>9, <1>13 DEF vars
<1>14. QED
  BY <1>1, <1>2, <1>4, <1>5, <1>6, <1>7, <1>10, <1>11, <1>12, <1>13 DEF Next, Receiving

(* No request is transmitted a second time, and none is called back or      *)
(* freed twice (services.c:88-134, ddev.c:24-49).                           *)
THEOREM MovesForward == Spec => RequestsMoveForward
<1>1. Inductive /\ [Next]_vars => [Forward]_vars
  BY ForwardStep DEF Inductive
<1>2. [][Forward]_vars => RequestsMoveForward
  BY PTL DEF RequestsMoveForward, Forward
<1>3. QED
  BY <1>1, <1>2, InductiveInvariant, PTL DEF Spec

=============================================================================
