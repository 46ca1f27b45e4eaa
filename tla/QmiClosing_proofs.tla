--------------------------- MODULE QmiClosing_proofs ---------------------------
(* Proofs about the closing of a QMI device, for any set of services, calls  *)
(* and client ids: a device that is stopping will close, and a service whose *)
(* release the modem confirmed leaves no client id behind.                   *)
EXTENDS QmiServices_proofs

-----------------------------------------------------------------------------
(* The shutdown timer.                                                       *)

ReleasesKept == \A s \in Services : (phase'[Release(s)] = "new") = (phase[Release(s)] = "new")

(* Only the closing of the device issues releases.                          *)
LEMMA ReleasesIssued ==
  ASSUME TypeOK, ListsAreExact, LifeStages, NoneStranded, [Next]_vars, ~DeviceClose
  PROVE  ReleasesKept
<1> USE DEF svcVars, reqVars, devVars, modemVars
<1> SUFFICES ASSUME NEW s \in Services, phase[Release(s)] = "new"
             PROVE  phase'[Release(s)] = "new"
  BY NewStays, RequestFacts DEF ReleasesKept
<1> DEFINE r == Release(s)
<1>0. r \in Request /\ phase[r] = "new" /\ r.op = "release" /\ To(r) = CTL
  BY RequestFacts, RequestKinds
<1> HIDE DEF r
<1>1. ASSUME NEW c \in Calls, SendCall(c) PROVE phase'[r] = "new"
  BY <1>0, <1>1, SendCallEffect, RequestKinds, UnsentFacts DEF SentIdle, SentNow, Unsent
<1>2. ASSUME SendVersion PROVE phase'[r] = "new"
  BY <1>0, <1>2, RequestKinds DEF SendVersion, Transmit, Alone
<1>3. ASSUME NEW m \in down, NEW i \in Positions(reqs[m.svc]), NEW op, Receive(m, i, op)
      PROVE  Completed(m, i)[r] = "new"
  <2>1. ReceivedOne(m, i)
    BY <1>3, CompletedLists
  <2>2. QED
    BY <1>0, <2>1 DEF ReceivedOne
<1>4. ASSUME NEW m \in down, NEW i \in Positions(reqs[m.svc]),
             ReceiveCall(m, i) \/ ReceiveVersion(m, i)
      PROVE  phase'[r] = "new"
  BY <1>3, <1>4 DEF ReceiveCall, ReceiveVersion
<1>5. ASSUME NEW m \in down, NEW i \in Positions(reqs[m.svc]), ReceiveAlloc(m, i)
      PROVE  phase'[r] = "new"
  <2>1. Receive(m, i, "alloc")
    BY <1>5 DEF ReceiveAlloc
  <2>2. QED
    BY <1>0, <1>3, <1>5, <2>1, ReceiveAllocEffect DEF AllocIgnored, AllocTaken, Unsent
<1>6. ASSUME NEW m \in down, NEW i \in Positions(reqs[m.svc]), ReceiveRelease(m, i)
      PROVE  phase'[r] = "new"
  <2>1. Receive(m, i, "release")
    BY <1>6 DEF ReceiveRelease
  <2>2. QED
    BY <1>0, <1>3, <1>6, <2>1, ReceiveReleaseEffect DEF ReleaseTaken
<1>7. ASSUME ShutdownFires \/ ConnectionDies PROVE phase'[r] = "new"
  BY <1>0, <1>7, CloseCallbackEffect DEF ShutdownFires, ConnectionDies
<1>8. ASSUME Modem PROVE phase' = phase
  BY <1>8 DEF Modem, ModemAnswersCall, ModemListsServices, ModemAllocates,
       ModemReleases, ModemRefuses, ModemIgnores, Answer
<1>9. ASSUME NEW m \in down, DiscardMessage(m) PROVE phase' = phase
  BY <1>9 DEF DiscardMessage
<1>10. CASE UNCHANGED vars
  BY <1>0, <1>10 DEF vars
<1>11. QED
  BY <1>0, <1>1, <1>2, <1>4, <1>5, <1>6, <1>7, <1>8, <1>9, <1>10 DEF Next, Receiving, r

ServicesGone == \A s \in Services : state[s] = "NONE"

(* A step that does not touch the timer brings no device to the point at    *)
(* which it should close at once: services go only when they are freed.     *)
LEMMA StoppingStep ==
  ASSUME TypeOK, ListsAreExact, LifeStages, NoneStranded, StoppingDeviceWillClose, [Next]_vars
  PROVE  StoppingDeviceWillClose'
<1> USE DEF svcVars, reqVars, devVars, modemVars
<1>0. Services \subseteq AllServices
  BY DEF AllServices
<1>1. ASSUME ~DeviceClose, UNCHANGED <<dev, open, shutdown>>, ServicesGone' => ServicesGone
      PROVE  StoppingDeviceWillClose'
  <2>1. ReleasesKept
    BY <1>1, ReleasesIssued
  <2>2. QED
    BY <1>1, <2>1 DEF StoppingDeviceWillClose, ServicesGone, ReleasesKept
<1>2. CASE DeviceClose
  <2> SUFFICES ASSUME NEW s \in Services, phase'[Release(s)] # "new"
               PROVE  state'[s] # "NONE"
    BY <1>2 DEF DeviceClose, StoppingDeviceWillClose
  <2>1. phase[Release(s)] = "new" /\ Release(s) \in Request
    BY <1>2, RequestFacts DEF DeviceClose, LifeStages
  <2>2. state[s] = "READY"
    BY <1>2, <2>1, DeviceCloseEffect, RequestKinds DEF DeviceClosed
  <2>3. QED
    BY <1>0, <1>2, <2>2, DeviceCloseEffect DEF DeviceClosed
<1>3. ASSUME ~DeviceClose, NEW c \in Calls, SendCall(c) PROVE StoppingDeviceWillClose'
  <2>1. ServicesGone' => ServicesGone
    BY <1>0, <1>3, SendCallEffect DEF SentIdle, SentNow, ServicesGone
  <2>2. QED
    BY <1>1, <1>3, <2>1 DEF SendCall
<1>4. ASSUME ~DeviceClose, SendVersion PROVE StoppingDeviceWillClose'
  BY <1>1, <1>4 DEF SendVersion, ServicesGone
<1>5. ASSUME ~DeviceClose, NEW m \in down, NEW i \in Positions(reqs[m.svc]),
             ReceiveCall(m, i) \/ ReceiveVersion(m, i)
      PROVE  StoppingDeviceWillClose'
  <2>1. ServicesGone' => ServicesGone
    BY <1>0, <1>5 DEF ReceiveCall, ReceiveVersion, ServicesGone
  <2>2. QED
    BY <1>1, <1>5, <2>1 DEF ReceiveCall, ReceiveVersion
<1>6. ASSUME ~DeviceClose, NEW m \in down, NEW i \in Positions(reqs[m.svc]), ReceiveAlloc(m, i)
      PROVE  StoppingDeviceWillClose'
  <2>1. ServicesGone' => ServicesGone
    BY <1>0, <1>6, ReceiveAllocEffect DEF AllocIgnored, AllocTaken, ServicesGone
  <2>2. QED
    BY <1>1, <1>6, <2>1 DEF ReceiveAlloc
<1>7. ASSUME ~DeviceClose, NEW m \in down, NEW i \in Positions(reqs[m.svc]), ReceiveRelease(m, i)
      PROVE  StoppingDeviceWillClose'
  <2>1. CASE m.info = NoInfo \/ state[m.info.svc] = "NONE"
    BY <1>1, <1>7, <2>1 DEF ReceiveRelease, ServicesGone
  <2>2. CASE ~(m.info = NoInfo \/ state[m.info.svc] = "NONE")
    <3>1. /\ shutdown' = IF dev = "STOPPING" /\ OnlyCtrlLeft' THEN "now" ELSE shutdown
          /\ dev' = dev /\ open' = open
      BY <1>7, <2>2 DEF ReceiveRelease
    <3>2. QED
      BY <3>1 DEF StoppingDeviceWillClose, OnlyCtrlLeft
  <2>3. QED
    BY <2>1, <2>2
<1>8. ASSUME ShutdownFires \/ ConnectionDies PROVE StoppingDeviceWillClose'
  <2>1. CASE CloseCallback
    BY <2>1 DEF CloseCallback, StoppingDeviceWillClose
  <2>2. CASE UNCHANGED <<state, phase, dev, open, shutdown>>
    BY <2>2 DEF StoppingDeviceWillClose
  <2>3. QED
    BY <1>8, <2>1, <2>2 DEF ShutdownFires, ConnectionDies
<1>9. ASSUME UNCHANGED <<state, phase, dev, open, shutdown>> PROVE StoppingDeviceWillClose'
  BY <1>9 DEF StoppingDeviceWillClose
<1>10. ASSUME Modem PROVE StoppingDeviceWillClose'
  BY <1>9, <1>10 DEF Modem, ModemAnswersCall, ModemListsServices, ModemAllocates,
       ModemReleases, ModemRefuses, ModemIgnores, Answer
<1>11. ASSUME NEW m \in down, DiscardMessage(m) PROVE StoppingDeviceWillClose'
  BY <1>9, <1>11 DEF DiscardMessage
<1>12. CASE UNCHANGED vars
  BY <1>9, <1>12 DEF vars
<1>13. QED
  BY <1>2, <1>3, <1>4, <1>5, <1>6, <1>7, <1>8, <1>10, <1>11, <1>12 DEF Next, Receiving

(* A device that is stopping has its timer running, and once a confirmed    *)
(* release leaves only CTL it closes without waiting (ddev.c:203-238).      *)
THEOREM StoppingClosesCorrect == Spec => []StoppingDeviceWillClose
<1>1. Init => StoppingDeviceWillClose
  BY DEF Init, StoppingDeviceWillClose
<1>2. Inductive /\ StoppingDeviceWillClose /\ [Next]_vars => StoppingDeviceWillClose'
  BY StoppingStep DEF Inductive
<1>3. QED
  BY <1>1, <1>2, InductiveInvariant, PTL DEF Spec

-----------------------------------------------------------------------------
(* What a step of the daemon writes.                                         *)

(* The messages of a transmission are those of the requests transmitted.    *)
LEMMA TransmitWrites ==
  ASSUME NEW s, NEW U, NEW rank, DOMAIN rank = U, NEW c, NEW ph, Transmit(s, rank, c, ph),
         NEW m \in up', m \notin up
  PROVE  /\ m.req \in U
         /\ m.req.op = "release" => m.cid = client[m.req.of]
<1>1. PICK q \in U : m = [svc |-> s, tid |-> TidAfter(s, tid[s], rank[q]), req |-> q,
                          cid |-> IF q.op = "release" THEN client[q.of] ELSE c]
  BY DEF Transmit
<1>2. QED
  BY <1>1

(* Only a request not yet transmitted is written, and a release only when   *)
(* the device is closed, under the client id of a service that is ready.    *)
LEMMA DaemonWrites ==
  ASSUME TypeOK, ListsAreExact, LifeStages, NoneStranded, [Next]_vars, ~Modem,
         NEW m \in up', m \notin up
  PROVE  /\ m.req \in Request /\ phase[m.req] \in {"new", "queued"}
         /\ m.req.op = "release" => /\ DeviceClose
                                    /\ state[m.req.of] = "READY" /\ m.cid = client[m.req.of]
<1> USE DEF svcVars, reqVars, devVars, modemVars
<1> DEFINE Written == /\ m.req \in Request /\ phase[m.req] \in {"new", "queued"}
                      /\ m.req.op # "release"
<1>1. ASSUME NEW c \in Calls, SendCall(c) PROVE Written
  <2> DEFINE s == Target[c]
             q == Call(c)
             queued == [phase EXCEPT ![q] = "queued"]
  <2>1. s \in AllServices /\ q \in Request /\ phase[q] = "new" /\ q.op = "call"
    BY <1>1, RequestFacts, RequestKinds DEF AllServices, SendCall
  <2>2. CASE state[s] = "IDLE"
    <3>1. /\ Transmit(CTL, Alone(Alloc(s)), NoCid, queued)
          /\ Alloc(s) \in Request /\ phase[Alloc(s)] = "new" /\ Alloc(s).op = "alloc"
      BY <1>1, <2>1, <2>2, RequestFacts, RequestKinds DEF SendCall, NoneStranded, TypeOK, AllServices
    <3>2. m.req \in {Alloc(s)}
      <4> HIDE DEF s, q, queued
      <4>1. QED
        BY <3>1, TransmitWrites, OrderDomains
    <3>3. QED
      BY <3>1, <3>2
  <2>3. CASE state[s] # "IDLE"
    <3>1. PICK rank \in WalkOrders(Cons(q, reqs[s]), Unsent(s) \cup {q}) :
             Transmit(s, rank, IF s = CTL THEN NoCid ELSE client[s], queued)
      BY <1>1, <2>3 DEF SendCall
    <3>2. m.req \in Unsent(s) \cup {q}
      <4> HIDE DEF s, q, queued
      <4>1. QED
        BY <3>1, TransmitWrites, OrderDomains
    <3>3. QED
      BY <2>1, <3>2, UnsentFacts
  <2>4. QED
    BY <2>2, <2>3
<1>2. ASSUME SendVersion PROVE Written
  <2>1. Transmit(CTL, Alone(Version), NoCid, phase) /\ phase[Version] = "new"
    BY <1>2 DEF SendVersion
  <2>2. m.req \in {Version}
    BY <2>1, TransmitWrites, OrderDomains
  <2>3. QED
    BY <2>1, <2>2, RequestFacts, RequestKinds
<1>3. ASSUME NEW n \in down, NEW i \in Positions(reqs[n.svc]), ReceiveAlloc(n, i) PROVE Written
  <2>1. CASE n.info = NoInfo \/ state[n.info.svc] = "NONE"
    BY <1>3, <2>1 DEF ReceiveAlloc
  <2>2. CASE ~(n.info = NoInfo \/ state[n.info.svc] = "NONE")
    <3>1. PICK rank \in WalkOrders(reqs[n.info.svc], Unsent(n.info.svc)) :
             Transmit(n.info.svc, rank, n.info.cid, Completed(n, i))
      BY <1>3, <2>2 DEF ReceiveAlloc
    <3>2. m.req \in Unsent(n.info.svc)
      BY <3>1, TransmitWrites, OrderDomains
    <3>3. n.info.svc \in AllServices
      BY MessageTypes, <2>2 DEF Info, NoInfo, AllServices
    <3>4. QED
      BY <3>2, <3>3, UnsentFacts
  <2>3. QED
    BY <2>1, <2>2
<1>4. ASSUME DeviceClose
      PROVE  /\ m.req \in Request /\ phase[m.req] = "new"
             /\ state[m.req.of] = "READY" /\ m.cid = client[m.req.of]
  <2> DEFINE unready == {s \in Services : state[s] \in {"IDLE", "WAIT_CID"}}
             batch == {Release(s) : s \in {t \in Services : state[t] = "READY"}}
             ph == FreedPhase(unready, phase)
  <2>1. PICK rank \in PushOrders(batch) : Transmit(CTL, rank, NoCid, ph)
    BY <1>4 DEF DeviceClose
  <2>2. \A p \in batch : /\ p \in Request /\ phase[p] = "new" /\ p.op = "release"
                         /\ state[p.of] = "READY"
    BY <1>4, RequestFacts, RequestKinds DEF DeviceClose, LifeStages
  <2>3. m.req \in batch /\ (m.req.op = "release" => m.cid = client[m.req.of])
    <3> HIDE DEF batch, ph
    <3>1. QED
      BY <2>1, TransmitWrites, OrderDomains
  <2> HIDE DEF batch
  <2>4. QED
    BY <2>2, <2>3
<1>5. ASSUME NEW n \in down, NEW i \in Positions(reqs[n.svc]),
             ReceiveCall(n, i) \/ ReceiveVersion(n, i) \/ ReceiveRelease(n, i)
      PROVE  FALSE
  BY <1>5 DEF ReceiveCall, ReceiveVersion, ReceiveRelease
<1>6. ASSUME NEW n \in down, DiscardMessage(n) PROVE FALSE
  BY <1>6 DEF DiscardMessage
<1>7. ASSUME ShutdownFires \/ ConnectionDies PROVE FALSE
  BY <1>7 DEF ShutdownFires, ConnectionDies
<1>8. CASE UNCHANGED vars
  BY <1>8 DEF vars
<1>9. QED
  BY <1>1, <1>2, <1>3, <1>4, <1>5, <1>6, <1>7, <1>8 DEF Next, Receiving

-----------------------------------------------------------------------------
(* The client ids of the services that are closed.                           *)

(* What the modem holds for a service: at most the id of its one            *)
(* allocation, from its answer on to its release.                           *)
HeldFor(s) ==
    /\ state[s] = "READY" \/ phase[Release(s)] # "new" => phase[Alloc(s)] = "complete"
    /\ phase[Alloc(s)] = "new" \/ (\E m \in up : m.req = Alloc(s)) => held[s] = {}
    /\ \A m \in down : m.req = Alloc(s) /\ m.info # NoInfo => held[s] \subseteq {m.info.cid}
    /\ state[s] = "READY" => held[s] \subseteq {client[s]}
    /\ \A m \in up : m.req = Release(s) => held[s] \subseteq {m.cid}
    /\ \A m \in down : m.req = Release(s) /\ m.info # NoInfo => m.info.svc = s /\ held[s] = {}
    /\ phase[Release(s)] = "pending" => state[s] = "READY"

HeldMatches == \A s \in Services : HeldFor(s)

(* A service that stops being ready, or goes, was freed: with all the       *)
(* others, before it was ready, or because its release was confirmed.       *)
LEMMA ServiceGoes ==
  ASSUME TypeOK, ListsAreExact, LifeStages, NoneStranded, MessagesMatch, HeldMatches,
         [Next]_vars, NEW s \in Services,
         \/ state[s] = "READY" /\ state'[s] # "READY"
         \/ state[s] # "NONE" /\ state'[s] = "NONE"
  PROVE  \/ CloseCallback
         \/ DeviceClose /\ state[s] # "READY"
         \/ \E m \in down : \E i \in Positions(reqs[m.svc]) :
               /\ ReceiveRelease(m, i) /\ m.req = Release(s) /\ m.info # NoInfo
               /\ phase'[Release(s)] = "complete"
<1> USE DEF svcVars, reqVars, devVars, modemVars
<1>0. s \in AllServices /\ Release(s) \in Request /\ To(Release(s)) = CTL /\ s # CTL
  <2>1. s \in AllServices /\ s # CTL
    BY ServicesAssumption DEF AllServices
  <2>2. QED
    BY <2>1, RequestFacts
<1>1. ASSUME NEW c \in Calls, SendCall(c) PROVE FALSE
  BY <1>0, <1>1, SendCallEffect DEF SentIdle, SentNow
<1>2. ASSUME NEW m \in down, NEW i \in Positions(reqs[m.svc]),
             ReceiveCall(m, i) \/ ReceiveVersion(m, i)
      PROVE  FALSE
  BY <1>0, <1>2 DEF ReceiveCall, ReceiveVersion
<1>3. ASSUME NEW m \in down, NEW i \in Positions(reqs[m.svc]), ReceiveAlloc(m, i) PROVE FALSE
  BY <1>0, <1>3, ReceiveAllocEffect DEF AllocIgnored, AllocTaken
<1>4. ASSUME NEW m \in down, NEW i \in Positions(reqs[m.svc]), ReceiveRelease(m, i)
      PROVE  /\ m.req = Release(s) /\ m.info # NoInfo
             /\ phase'[Release(s)] = "complete"
  <2>1. Receive(m, i, "release")
    BY <1>4 DEF ReceiveRelease
  <2>2. ReleaseTaken(m, i) /\ m.info.svc = s
    BY <1>0, <1>4, ReceiveReleaseEffect DEF ReleaseTaken
  <2>3. m.req = reqs[m.svc][i] /\ m.req \in Request /\ m.req.op = "release"
    BY <2>1, RightAnswer
  <2>4. m.info # NoInfo
    BY <1>0, <2>2 DEF NoInfo
  <2>5. m.req.of \in Services /\ m.req = Release(m.req.of)
    BY <2>3, RequestKinds
  <2>6. m.req.of = s
    BY <2>2, <2>4, <2>5 DEF HeldMatches, HeldFor
  <2>7. Completed(m, i)[Release(s)] = "complete"
    BY <1>0, <2>3, <2>5, <2>6 DEF Completed, TypeOK
  <2>8. QED
    BY <1>0, <2>2, <2>4, <2>5, <2>6, <2>7 DEF ReleaseTaken
<1>5. ASSUME DeviceClose PROVE state[s] # "READY"
  BY <1>0, <1>5, DeviceCloseEffect DEF DeviceClosed
<1>6. ASSUME ShutdownFires \/ ConnectionDies PROVE CloseCallback
  BY <1>6 DEF ShutdownFires, ConnectionDies
<1>7. ASSUME Modem PROVE FALSE
  BY <1>7 DEF Modem, ModemAnswersCall, ModemListsServices, ModemAllocates,
       ModemReleases, ModemRefuses, ModemIgnores, Answer
<1>8. ASSUME NEW m \in down, DiscardMessage(m) PROVE FALSE
  BY <1>8 DEF DiscardMessage
<1>9. ASSUME SendVersion PROVE FALSE
  BY <1>9 DEF SendVersion
<1>10. CASE UNCHANGED vars
  BY <1>10 DEF vars
<1>11. QED
  BY <1>1, <1>2, <1>3, <1>4, <1>5, <1>6, <1>7, <1>8, <1>9, <1>10 DEF Next, Receiving

(* A request becomes complete by its own answer, in one of four ways.       *)
LEMMA BecomesComplete ==
  ASSUME TypeOK, ListsAreExact, LifeStages, NoneStranded, MessagesMatch,
         [Next]_vars, NEW q \in Request, phase[q] # "complete", phase'[q] = "complete"
  PROVE  \E m \in down : \E i \in Positions(reqs[m.svc]) :
            /\ \/ ReceiveCall(m, i) \/ ReceiveVersion(m, i)
               \/ ReceiveAlloc(m, i) \/ ReceiveRelease(m, i)
            /\ m.req = q /\ phase[q] = "pending"
<1> USE DEF svcVars, reqVars, devVars, modemVars
<1>1. ASSUME NEW c \in Calls, SendCall(c) PROVE FALSE
  BY <1>1, SendCallEffect DEF SentIdle, SentNow
<1>2. ASSUME SendVersion PROVE FALSE
  BY <1>2 DEF SendVersion, Transmit
<1>3. ASSUME NEW m \in down, NEW i \in Positions(reqs[m.svc]), NEW op, Receive(m, i, op),
             Completed(m, i)[q] = "complete"
      PROVE  m.req = q /\ phase[q] = "pending"
  <2>1. ReceivedOne(m, i)
    BY <1>3, CompletedLists
  <2>2. m.req = reqs[m.svc][i]
    BY <1>3, RightAnswer
  <2>3. QED
    BY <1>3, <2>1, <2>2 DEF ReceivedOne
<1>4. ASSUME NEW m \in down, NEW i \in Positions(reqs[m.svc]),
             ReceiveCall(m, i) \/ ReceiveVersion(m, i)
      PROVE  m.req = q /\ phase[q] = "pending"
  BY <1>3, <1>4 DEF ReceiveCall, ReceiveVersion
<1>5. ASSUME NEW m \in down, NEW i \in Positions(reqs[m.svc]), ReceiveAlloc(m, i)
      PROVE  m.req = q /\ phase[q] = "pending"
  <2>1. Receive(m, i, "alloc")
    BY <1>5 DEF ReceiveAlloc
  <2>2. Completed(m, i)[q] = "complete"
    BY <1>5, ReceiveAllocEffect DEF AllocIgnored, AllocTaken
  <2>3. QED
    BY <1>3, <2>1, <2>2
<1>6. ASSUME NEW m \in down, NEW i \in Positions(reqs[m.svc]), ReceiveRelease(m, i)
      PROVE  m.req = q /\ phase[q] = "pending"
  <2>1. Receive(m, i, "release")
    BY <1>6 DEF ReceiveRelease
  <2>2. Completed(m, i)[q] = "complete"
    BY <1>6, ReceiveReleaseEffect DEF ReleaseTaken
  <2>3. QED
    BY <1>3, <2>1, <2>2
<1>7. ASSUME DeviceClose PROVE FALSE
  BY <1>7, DeviceCloseEffect DEF DeviceClosed
<1>8. ASSUME ShutdownFires \/ ConnectionDies PROVE FALSE
  BY <1>8, CloseCallbackEffect DEF ShutdownFires, ConnectionDies
<1>9. ASSUME Modem PROVE FALSE
  BY <1>9 DEF Modem, ModemAnswersCall, ModemListsServices, ModemAllocates,
       ModemReleases, ModemRefuses, ModemIgnores, Answer
<1>10. ASSUME NEW m \in down, DiscardMessage(m) PROVE FALSE
  BY <1>10 DEF DiscardMessage
<1>11. CASE UNCHANGED vars
  BY <1>11 DEF vars
<1>12. QED
  BY <1>1, <1>2, <1>4, <1>5, <1>6, <1>7, <1>8, <1>9, <1>10, <1>11 DEF Next, Receiving

(* A service becomes ready by the answer to its allocation, which then is   *)
(* complete.                                                                *)
LEMMA ReadyAllocated ==
  ASSUME TypeOK, ListsAreExact, LifeStages, NoneStranded, MessagesMatch, AnswersAreTrue,
         [Next]_vars, NEW s \in Services, state[s] # "READY", state'[s] = "READY"
  PROVE  phase'[Alloc(s)] = "complete"
<1> USE DEF svcVars, reqVars, devVars, modemVars
<1>0. s \in AllServices /\ Alloc(s) \in Request /\ Alloc(s).op = "alloc"
  BY RequestFacts, RequestKinds DEF AllServices
<1>1. ASSUME NEW c \in Calls, SendCall(c) PROVE FALSE
  BY <1>0, <1>1, SendCallEffect DEF SentIdle, SentNow
<1>2. ASSUME NEW m \in down, NEW i \in Positions(reqs[m.svc]), ReceiveAlloc(m, i)
      PROVE  phase'[Alloc(s)] = "complete"
  <2>1. Receive(m, i, "alloc")
    BY <1>2 DEF ReceiveAlloc
  <2>2. AllocTaken(m, i) /\ m.info.svc = s
    BY <1>0, <1>2, ReceiveAllocEffect DEF AllocIgnored, AllocTaken
  <2>3. m.req = reqs[m.svc][i] /\ m.req \in Request /\ m.req.op = "alloc"
    BY <2>1, RightAnswer
  <2>4. m.info # NoInfo
    BY ServicesAssumption, <2>2 DEF NoInfo
  <2>5. m.req = Alloc(s)
    BY <2>2, <2>3, <2>4, RequestKinds DEF AnswersAreTrue
  <2>6. Completed(m, i)[Alloc(s)] = "complete"
    BY <1>0, <2>3, <2>5 DEF Completed, TypeOK
  <2>7. Alloc(s) \notin Unsent(s)
    BY <1>0, UnsentFacts
  <2>8. QED
    BY <1>0, <2>2, <2>6, <2>7 DEF AllocTaken
<1>3. ASSUME NEW m \in down, NEW i \in Positions(reqs[m.svc]),
             \/ ReceiveCall(m, i) \/ ReceiveVersion(m, i) \/ ReceiveRelease(m, i)
      PROVE  FALSE
  BY <1>0, <1>3, ReceiveReleaseEffect DEF ReceiveCall, ReceiveVersion, ReleaseTaken
<1>4. ASSUME DeviceClose PROVE FALSE
  BY <1>0, <1>4, DeviceCloseEffect DEF DeviceClosed
<1>5. ASSUME ShutdownFires \/ ConnectionDies PROVE FALSE
  BY <1>0, <1>5, CloseCallbackEffect DEF ShutdownFires, ConnectionDies
<1>6. ASSUME Modem PROVE FALSE
  BY <1>6 DEF Modem, ModemAnswersCall, ModemListsServices, ModemAllocates,
       ModemReleases, ModemRefuses, ModemIgnores, Answer
<1>7. ASSUME NEW m \in down, DiscardMessage(m) PROVE FALSE
  BY <1>7 DEF DiscardMessage
<1>8. ASSUME SendVersion PROVE FALSE
  BY <1>8 DEF SendVersion
<1>9. CASE UNCHANGED vars
  BY <1>9 DEF vars
<1>10. QED
  BY <1>1, <1>2, <1>3, <1>4, <1>5, <1>6, <1>7, <1>8, <1>9 DEF Next, Receiving

(* Only a modem that answers or ignores a request changes what is held, and *)
(* it changes nothing else of the services.                                 *)
LEMMA HeldModemStep ==
  ASSUME TypeOK, LifeStages, MessagesMatch, HeldMatches, Modem, NEW s \in Services
  PROVE  HeldFor(s)'
<1> USE DEF svcVars, reqVars, devVars, modemVars
<1>0. Alloc(s) \in Request /\ Release(s) \in Request
  BY RequestFacts
<1>1. PICK m \in up : \/ ModemAnswersCall(m) \/ ModemListsServices(m) \/ ModemAllocates(m)
                      \/ ModemReleases(m) \/ ModemRefuses(m) \/ ModemIgnores(m)
  BY DEF Modem
<1>2. /\ m.req \in Request /\ phase[m.req] \in {"pending", "freed"}
      /\ \A n \in up \cup down : n.req = m.req => n = m
  BY MessageTypes DEF MessagesMatch
<1>3. UNCHANGED <<state, client, phase>> /\ up' = up \ {m}
  BY <1>1 DEF ModemAnswersCall, ModemListsServices, ModemAllocates,
       ModemReleases, ModemRefuses, ModemIgnores, Answer
<1>4. HeldFor(s)
  BY DEF HeldMatches
<1>5. ASSUME held'[s] = held[s],
             \A n \in down' : n \in down \/ n.info = NoInfo
                              \/ n.req \notin {Alloc(s), Release(s)}
      PROVE  HeldFor(s)'
  BY <1>3, <1>4, <1>5 DEF HeldFor
<1>6. ASSUME NEW info, NEW offered, Answer(m, info, offered), held'[s] = held[s],
             info = NoInfo \/ m.req \notin {Alloc(s), Release(s)}
      PROVE  HeldFor(s)'
  <2>1. \A n \in down' : n \in down \/ (n.req = m.req /\ n.info = info)
    BY <1>6 DEF Answer
  <2>2. QED
    BY <1>5, <1>6, <2>1
<1>7. CASE ModemAnswersCall(m) \/ ModemListsServices(m) \/ ModemRefuses(m)
  BY <1>6, <1>7 DEF ModemAnswersCall, ModemListsServices, ModemRefuses
<1>8. CASE ModemIgnores(m)
  BY <1>5, <1>8 DEF ModemIgnores
<1>9. CASE ModemAllocates(m)
  <2>1. PICK c \in Cids \ held[m.req.of] :
           /\ held' = [held EXCEPT ![m.req.of] = @ \cup {c}]
           /\ Answer(m, [svc |-> m.req.of, cid |-> c], {})
    BY <1>9 DEF ModemAllocates
  <2>2. m.req.of \in Services /\ m.req = Alloc(m.req.of)
    BY <1>2, <1>9, RequestKinds DEF ModemAllocates
  <2>3. CASE m.req.of # s
    <3>1. held'[s] = held[s] /\ m.req \notin {Alloc(s), Release(s)}
      BY <2>1, <2>2, <2>3, RequestKinds DEF TypeOK
    <3>2. QED
      BY <1>6, <2>1, <3>1
  <2>4. CASE m.req.of = s
    <3>1. /\ held[s] = {} /\ phase[Alloc(s)] # "complete"
          /\ state[s] # "READY" /\ phase[Release(s)] = "new"
      BY <1>2, <1>4, <2>2, <2>4 DEF HeldFor
    <3>2. held'[s] = {c}
      BY <2>1, <2>4, <3>1 DEF TypeOK
    <3>3. \A n \in down' : n \in down \/ (n.req = Alloc(s) /\ n.info.cid = c)
      BY <2>1, <2>2, <2>4 DEF Answer
    <3>4. \A n \in up \cup down : n.req # Release(s)
      BY <1>0, <3>1 DEF MessagesMatch
    <3>5. \A n \in up' : n.req # Alloc(s)
      BY <1>2, <1>3, <2>2, <2>4
    <3>6. \A n \in down : n.req # Alloc(s)
      BY <1>2, <2>2, <2>4, MessageTypes
    <3>7. Alloc(s) # Release(s)
      BY RequestKinds
    <3>8. phase[Alloc(s)] # "new"
      BY <1>2, <2>2, <2>4
    <3>9. \A n \in down' : /\ n.req = Alloc(s) => n.info.cid = c
                           /\ n.req # Release(s)
      BY <3>3, <3>4, <3>6, <3>7
    <3>10. QED
      BY <1>3, <3>1, <3>2, <3>4, <3>5, <3>8, <3>9 DEF HeldFor
  <2>5. QED
    BY <2>3, <2>4
<1>10. CASE ModemReleases(m)
  <2>1. /\ held' = [held EXCEPT ![m.req.of] = @ \ {m.cid}]
        /\ Answer(m, [svc |-> m.req.of, cid |-> m.cid], {})
    BY <1>10 DEF ModemReleases
  <2>2. m.req.of \in Services /\ m.req = Release(m.req.of)
    BY <1>2, <1>10, RequestKinds DEF ModemReleases
  <2>3. CASE m.req.of # s
    <3>1. held'[s] = held[s] /\ m.req \notin {Alloc(s), Release(s)}
      BY <2>1, <2>2, <2>3, RequestKinds DEF TypeOK
    <3>2. QED
      BY <1>6, <2>1, <3>1
  <2>4. CASE m.req.of = s
    <3>1. held[s] \subseteq {m.cid} /\ held'[s] = held[s] \ {m.cid}
      BY <1>4, <2>1, <2>2, <2>4 DEF HeldFor, TypeOK
    <3>2. held'[s] = {}
      BY <3>1
    <3>3. \A n \in down' : n \in down \/ (n.req = Release(s) /\ n.info.svc = s)
      BY <2>1, <2>2, <2>4 DEF Answer
    <3>4. QED
      BY <1>3, <1>4, <3>2, <3>3 DEF HeldFor
  <2>5. QED
    BY <2>3, <2>4
<1>11. QED
  BY <1>1, <1>7, <1>8, <1>9, <1>10

(* A step of the daemon writes what the invariant allows, and keeps what a  *)
(* ready service knows.                                                     *)
LEMMA HeldDaemonStep ==
  ASSUME TypeOK, ListsAreExact, LifeStages, NoneStranded, MessagesMatch, AnswersAreTrue,
         HeldMatches, [Next]_vars, ~Modem, ~lapped', NEW s \in Services
  PROVE  HeldFor(s)'
<1>0. /\ Alloc(s) \in Request /\ Alloc(s).op = "alloc" /\ Alloc(s).of = s
      /\ Release(s) \in Request /\ Release(s).op = "release" /\ Release(s).of = s
      /\ To(Release(s)) = CTL
  BY RequestFacts, RequestKinds
<1>1. held' = held /\ down' \subseteq down
  BY DaemonLeavesModem
<1>2. HeldFor(s)
  BY DEF HeldMatches
<1>3. phase[Alloc(s)] = "complete" => phase'[Alloc(s)] = "complete"
  BY <1>0, ForwardStep DEF Forward
<1>4. phase[Release(s)] = "new" /\ phase'[Release(s)] # "new" =>
          state[s] = "READY" /\ DeviceClose
  <2>1. ASSUME phase[Release(s)] = "new", phase'[Release(s)] # "new"
        PROVE  DeviceClose
    BY <2>1, ReleasesIssued DEF ReleasesKept
  <2>2. ASSUME DeviceClose, phase[Release(s)] = "new", phase'[Release(s)] # "new"
        PROVE  state[s] = "READY"
    BY <1>0, <2>2, DeviceCloseEffect, RequestKinds DEF DeviceClosed
  <2>3. QED
    BY <2>1, <2>2
<1>5. state'[s] = "READY" \/ phase'[Release(s)] # "new" => phase'[Alloc(s)] = "complete"
  <2>1. CASE state[s] = "READY" \/ phase[Release(s)] # "new"
    BY <1>2, <1>3, <2>1 DEF HeldFor
  <2>2. CASE state[s] # "READY" /\ phase[Release(s)] = "new"
    BY <1>4, <2>2, ReadyAllocated
  <2>3. QED
    BY <2>1, <2>2
<1>6. phase'[Alloc(s)] = "new" \/ (\E m \in up' : m.req = Alloc(s)) => held[s] = {}
  <2>1. ASSUME phase'[Alloc(s)] = "new" PROVE held[s] = {}
    BY <1>0, <1>2, <2>1, NewStays DEF HeldFor
  <2>2. ASSUME NEW m \in up', m.req = Alloc(s) PROVE held[s] = {}
    <3>1. CASE m \in up
      BY <1>2, <2>2, <3>1 DEF HeldFor
    <3>2. CASE m \notin up
      <4>1. phase[Alloc(s)] \in {"new", "queued"}
        BY <2>2, <3>2, DaemonWrites
      <4>2. phase[Alloc(s)] = "new"
        BY <1>0, <4>1 DEF LifeStages
      <4>3. QED
        BY <1>2, <4>2 DEF HeldFor
    <3>3. QED
      BY <3>1, <3>2
  <2>3. QED
    BY <2>1, <2>2
<1>7. state'[s] = "READY" => held[s] \subseteq {client'[s]}
  <2>1. ASSUME NEW m \in down, m.req = Alloc(s), m.info.svc = s, client'[s] = m.info.cid
        PROVE  held[s] \subseteq {client'[s]}
    BY ServicesAssumption, <1>2, <2>1 DEF HeldFor, NoInfo
  <2>2. QED
    BY <1>2, <2>1, BecomesReady DEF HeldFor
<1>8. \A m \in up' : m.req = Release(s) => held[s] \subseteq {m.cid}
  <2> SUFFICES ASSUME NEW m \in up', m.req = Release(s) PROVE held[s] \subseteq {m.cid}
    OBVIOUS
  <2>1. CASE m \in up
    BY <1>2, <2>1 DEF HeldFor
  <2>2. CASE m \notin up
    BY <1>0, <1>2, <2>2, DaemonWrites DEF HeldFor
  <2>3. QED
    BY <2>1, <2>2
<1>9. phase'[Release(s)] = "pending" => state'[s] = "READY"
  <2> SUFFICES ASSUME phase'[Release(s)] = "pending", state'[s] # "READY" PROVE FALSE
    OBVIOUS
  <2>1. phase[Release(s)] \in {"new", "pending"}
    BY <1>0, ForwardStep DEF Forward, TypeOK, Phases, LifeStages
  <2>2. state[s] = "READY"
    BY <1>2, <1>4, <2>1 DEF HeldFor
  <2>3. CloseCallback
    BY <2>2, ServiceGoes
  <2>4. phase'[Release(s)] # "pending"
    BY <1>0, <2>3, CloseCallbackEffect
  <2>5. QED
    BY <2>4
<1>10. QED
  BY <1>1, <1>2, <1>5, <1>6, <1>7, <1>8, <1>9 DEF HeldFor

(* A file descriptor once closed stays closed.                              *)
LEMMA ClosedStays ==
  ASSUME [Next]_vars, ~open
  PROVE  ~open'
<1> USE DEF svcVars, reqVars, devVars, modemVars
<1>1. ASSUME NEW c \in Calls, SendCall(c) PROVE FALSE
  BY <1>1 DEF SendCall
<1>2. ASSUME SendVersion \/ DeviceClose PROVE FALSE
  BY <1>2 DEF SendVersion, DeviceClose
<1>3. ASSUME Receiving PROVE FALSE
  <2>1. ASSUME NEW m \in down, DiscardMessage(m) PROVE FALSE
    BY <2>1 DEF DiscardMessage
  <2>2. ASSUME NEW m \in down, NEW i \in Positions(reqs[m.svc]),
               ReceiveCall(m, i) \/ ReceiveVersion(m, i)
        PROVE  FALSE
    BY <2>2 DEF ReceiveCall, ReceiveVersion, Receive
  <2>3. ASSUME NEW m \in down, NEW i \in Positions(reqs[m.svc]), ReceiveAlloc(m, i)
        PROVE  FALSE
    BY <2>3 DEF ReceiveAlloc, Receive
  <2>4. ASSUME NEW m \in down, NEW i \in Positions(reqs[m.svc]), ReceiveRelease(m, i)
        PROVE  FALSE
    BY <2>4 DEF ReceiveRelease, Receive
  <2>5. QED
    BY <1>3, <2>1, <2>2, <2>3, <2>4 DEF Receiving
<1>4. ASSUME ShutdownFires PROVE ~open'
  BY <1>4 DEF ShutdownFires, CloseCallback
<1>5. ASSUME ConnectionDies PROVE FALSE
  BY <1>5 DEF ConnectionDies
<1>6. ASSUME Modem PROVE FALSE
  BY <1>6 DEF Modem, ModemAnswersCall, ModemListsServices, ModemAllocates,
       ModemReleases, ModemRefuses, ModemIgnores, Answer
<1>7. CASE UNCHANGED vars
  BY <1>7 DEF vars
<1>8. QED
  BY <1>1, <1>2, <1>3, <1>4, <1>5, <1>6, <1>7 DEF Next

(* A service is gone after its release was confirmed only if it was freed   *)
(* by the confirmation.                                                     *)
LEMMA ReleasedStep ==
  ASSUME Inductive, ~lapped', HeldMatches, HeldMatches', ReleasedServiceHoldsNoCid, [Next]_vars
  PROVE  ReleasedServiceHoldsNoCid'
<1> USE DEF Inductive
<1> SUFFICES ASSUME NEW s \in Services,
                    phase'[Release(s)] = "complete", state'[s] = "NONE", open'
             PROVE  held'[s] = {}
  BY DEF ReleasedServiceHoldsNoCid
<1>0. ~lapped /\ MessagesMatch /\ AnswersAreTrue /\ HeldFor(s)
  BY LappedStays DEF HeldMatches
<1>1. /\ Release(s) \in Request /\ Release(s).op = "release" /\ To(Release(s)) = CTL
  BY RequestFacts, RequestKinds
<1>2. CASE Modem
  <2>1. /\ phase[Release(s)] = "complete" /\ state[s] = "NONE" /\ open
    BY <1>2 DEF Modem, ModemAnswersCall, ModemListsServices, ModemAllocates, ModemReleases,
         ModemRefuses, ModemIgnores, Answer, svcVars, reqVars, devVars
  <2>2. held[s] = {} /\ phase[Alloc(s)] = "complete"
    BY <1>0, <2>1 DEF ReleasedServiceHoldsNoCid, HeldFor
  <2>3. PICK m \in up : \/ ModemAnswersCall(m) \/ ModemListsServices(m) \/ ModemAllocates(m)
                        \/ ModemReleases(m) \/ ModemRefuses(m) \/ ModemIgnores(m)
    BY <1>2 DEF Modem
  <2>4. CASE ModemAllocates(m)
    <3>1. m.req \in Request /\ phase[m.req] # "complete"
      BY <1>0, MessageTypes DEF MessagesMatch
    <3>2. m.req = Alloc(m.req.of) /\ m.req.of # s
      BY <2>2, <2>4, <3>1, RequestKinds DEF ModemAllocates
    <3>3. held'[s] = held[s]
      BY <2>4, <3>2 DEF ModemAllocates, TypeOK
    <3>4. QED
      BY <2>2, <3>3
  <2>5. CASE ModemReleases(m)
    BY <2>2, <2>5 DEF ModemReleases, TypeOK
  <2>6. CASE ModemAnswersCall(m) \/ ModemListsServices(m) \/ ModemRefuses(m) \/ ModemIgnores(m)
    BY <2>2, <2>6 DEF ModemAnswersCall, ModemListsServices, ModemRefuses, ModemIgnores
  <2>7. QED
    BY <2>3, <2>4, <2>5, <2>6
<1>3. CASE ~Modem
  <2>1. held' = held
    BY <1>3, DaemonLeavesModem
  <2>2. CASE state[s] = "READY"
    <3>1. ~CloseCallback
      BY DEF CloseCallback
    <3>2. PICK m \in down : m.req = Release(s) /\ m.info # NoInfo
      BY <1>0, <2>2, <3>1, ServiceGoes
    <3>3. QED
      BY <1>0, <2>1, <3>2 DEF HeldFor
  <2>3. CASE state[s] # "READY"
    <3>1. phase[Release(s)] = "complete"
      <4>1. phase[Release(s)] # "pending"
        BY <1>0, <2>3 DEF HeldFor
      <4>2. QED
        BY <1>0, <1>1, <4>1, BecomesComplete
    <3>2. open
      BY ClosedStays
    <3>3. ~CloseCallback /\ ~DeviceClose
      BY <3>1 DEF CloseCallback, DeviceClose, LifeStages
    <3>4. state[s] = "NONE"
      <4>1. ASSUME NEW m \in down, m.req = Release(s) PROVE FALSE
        BY <1>0, <3>1, <4>1 DEF MessagesMatch
      <4>2. QED
        BY <1>0, <3>3, <4>1, ServiceGoes
    <3>5. QED
      BY <1>0, <2>1, <3>1, <3>2, <3>4 DEF ReleasedServiceHoldsNoCid
  <2>4. QED
    BY <2>2, <2>3
<1>4. QED
  BY <1>2, <1>3

(* As long as no transaction id is shared, a service whose release the      *)
(* modem has confirmed leaves no client id behind (ctrl.c:45-64).           *)
THEOREM ReleasedHoldNone == Spec => []ReleasedServiceHoldsNoCid
<1> DEFINE Inv == Inductive /\ (lapped \/ HeldMatches) /\ ReleasedServiceHoldsNoCid
<1>1. Init => Inv
  <2> SUFFICES ASSUME Init PROVE Inv
    OBVIOUS
  <2>1. Inductive
    BY InitInductive
  <2>2. \A s \in Services : /\ phase[Alloc(s)] = "new" /\ phase[Release(s)] = "new"
                            /\ state[s] = "NONE" /\ held[s] = {}
    BY RequestFacts, ServicesAssumption DEF Init, AllServices
  <2>3. up = {} /\ down = {}
    BY DEF Init
  <2>4. HeldMatches
    BY <2>2, <2>3 DEF HeldMatches, HeldFor
  <2>5. QED
    BY <2>1, <2>2, <2>4 DEF ReleasedServiceHoldsNoCid
<1>2. Inv /\ [Next]_vars => Inv'
  <2> SUFFICES ASSUME Inv, [Next]_vars PROVE Inv'
    OBVIOUS
  <2>1. Inductive'
    BY NextInductive
  <2>2. ASSUME ~lapped' PROVE HeldMatches'
    <3>1. MessagesMatch /\ AnswersAreTrue /\ HeldMatches
      BY <2>2, LappedStays DEF Inductive
    <3>2. \A s \in Services : HeldFor(s)'
      BY <2>2, <3>1, HeldModemStep, HeldDaemonStep DEF Inductive
    <3>3. QED
      BY <3>2 DEF HeldMatches
  <2>3. ASSUME ~lapped' PROVE ReleasedServiceHoldsNoCid'
    BY <2>2, <2>3, LappedStays, ReleasedStep
  <2>4. QED
    BY <2>1, <2>2, <2>3 DEF ReleasedServiceHoldsNoCid
<1>3. Inv => ReleasedServiceHoldsNoCid
  OBVIOUS
<1>4. QED
  BY <1>1, <1>2, <1>3, PTL DEF Spec

=============================================================================
