--------------------------- MODULE QmiPromise_proofs ---------------------------
(* The request layer of uqmid implements QmiPromise, for any set of          *)
(* services, calls and client ids and any width of the transaction ids, as   *)
(* long as no id is shared by two unanswered requests: a proof by step       *)
(* simulation under the mapping that QmiServices gives for Promise.          *)
EXTENDS QmiTids_proofs

-----------------------------------------------------------------------------
(* The mapping.                                                              *)

Present == {s \in AllServices : state[s] # "NONE"}
Listed == phase[Version] = "complete"
Stage == [c \in Calls |-> StageOf(c)]
Wire == CallsIn(up)
Replies == CallsIn(down)

StageIn(p) ==
    CASE p = "new" -> "new"
      [] p = "queued" -> "waiting"
      [] p = "pending" -> "sent"
      [] p = "complete" -> "answered"
      [] p = "freed" -> "dropped"

(* The stage of a call is that of its phase.                                *)
LEMMA StageFacts ==
  /\ \A c : StageOf(c) = StageIn(phase[Call(c)]) /\ StageOf(c)' = StageIn(phase'[Call(c)])
  /\ StageIn("new") = "new" /\ StageIn("queued") = "waiting" /\ StageIn("pending") = "sent"
  /\ StageIn("complete") = "answered" /\ StageIn("freed") = "dropped"
  BY DEF StageOf, StageIn

(* Before and after a step the mapping gives each call the stage of its     *)
(* phase.                                                                   *)
LEMMA StagesMap ==
  ASSUME TypeOK
  PROVE  \A c \in Calls :
            /\ Stage[c] = StageIn(phase[Call(c)])
            /\ Stage'[c] = StageIn(phase'[Call(c)])
            /\ phase[Call(c)] \in Phases
            /\ phase[Call(c)] = "new" <=> Stage[c] = "new"
            /\ phase[Call(c)] = "queued" <=> Stage[c] = "waiting"
            /\ phase[Call(c)] = "pending" <=> Stage[c] = "sent"
            /\ phase[Call(c)] = "complete" <=> Stage[c] = "answered"
            /\ phase[Call(c)] = "freed" <=> Stage[c] = "dropped"
<1> SUFFICES ASSUME NEW c \in Calls
             PROVE  /\ Stage[c] = StageIn(phase[Call(c)])
                    /\ Stage'[c] = StageIn(phase'[Call(c)])
                    /\ phase[Call(c)] \in Phases
                    /\ phase[Call(c)] = "new" <=> Stage[c] = "new"
                    /\ phase[Call(c)] = "queued" <=> Stage[c] = "waiting"
                    /\ phase[Call(c)] = "pending" <=> Stage[c] = "sent"
                    /\ phase[Call(c)] = "complete" <=> Stage[c] = "answered"
                    /\ phase[Call(c)] = "freed" <=> Stage[c] = "dropped"
  OBVIOUS
<1>1. Stage[c] = StageIn(phase[Call(c)]) /\ Stage'[c] = StageIn(phase'[Call(c)])
  BY StageFacts DEF Stage
<1>2. phase[Call(c)] \in Phases
  BY RequestFacts DEF TypeOK
<1>3. QED
  BY <1>1, <1>2, StageFacts DEF Phases

(* A step that moves no call and no service is no step of the promise.      *)
LEMMA Stutters ==
  ASSUME TypeOK, Present' = Present, Listed' = Listed, Wire' = Wire, Replies' = Replies,
         \A c \in Calls : phase'[Call(c)] = phase[Call(c)]
  PROVE  UNCHANGED Promise!vars
<1>1. Stage' = Stage
  BY StageFacts DEF Stage
<1>2. QED
  BY <1>1 DEF Promise!vars, Present, Listed, Wire, Replies, Stage

(* Transmission puts the calls among the requests transmitted on the wire.  *)
LEMMA TransmitWire ==
  ASSUME NEW s, NEW U, NEW rank, DOMAIN rank = U, NEW c, NEW ph, Transmit(s, rank, c, ph)
  PROVE  Wire' = Wire \cup {d \in Calls : Call(d) \in U}
<1>1. \A m \in up' : m \in up \/ m.req \in U
  BY TransmitWrites
<1>2. up \subseteq up' /\ \A q \in U : \E m \in up' : m.req = q
  <2> DEFINE msg(q) == [svc |-> s, tid |-> TidAfter(s, tid[s], rank[q]), req |-> q,
                        cid |-> IF q.op = "release" THEN client[q.of] ELSE c]
  <2>1. up' = up \cup {msg(q) : q \in U}
    BY DEF Transmit
  <2>2. \A q \in U : msg(q) \in up' /\ msg(q).req = q
    BY <2>1
  <2> HIDE DEF msg
  <2>3. QED
    BY <2>1, <2>2
<1>3. QED
  BY <1>1, <1>2 DEF Wire, CallsIn

(* Requests other than calls leave the wire as it is.                       *)
LEMMA OtherWire ==
  ASSUME NEW U \in SUBSET Request, \A q \in U : q.op # "call"
  PROVE  {d \in Calls : Call(d) \in U} = {}
  BY RequestKinds

-----------------------------------------------------------------------------
(* The steps of the promise, over the mapping.                               *)

(* A call issued on an idle service waits.                                  *)
LEMMA IssueLater ==
  ASSUME NEW c \in Calls, Target[c] \in Present, Stage[c] = "new",
         Stage' = [Stage EXCEPT ![c] = "waiting"],
         UNCHANGED <<Present, Listed, Wire, Replies>>
  PROVE  Promise!Next
<1>1. Promise!Issue(c)
  BY DEF Promise!Issue, Present, Listed, Wire, Replies, Stage
<1>2. QED
  BY <1>1 DEF Promise!Next

(* A call issued on any other is sent with all that wait before it.         *)
LEMMA IssueNow ==
  ASSUME NEW c \in Calls, Target[c] \in Present, Stage[c] = "new",
         NEW S, S = {d \in Calls : Target[d] = Target[c] /\ Stage[d] = "waiting"} \cup {c},
         Stage' = [d \in Calls |-> IF d \in S THEN "sent" ELSE Stage[d]],
         Wire' = Wire \cup S,
         UNCHANGED <<Present, Listed, Replies>>
  PROVE  Promise!Next
<1>1. Stage' = [d \in Calls |-> IF d \in S THEN "sent" ELSE [Stage EXCEPT ![c] = "waiting"][d]]
  BY DEF Stage
<1>2. Promise!Issue(c)
  BY <1>1 DEF Promise!Issue, Promise!WaitingOn, Promise!Written, Present, Listed, Wire, Replies, Stage
<1>3. QED
  BY <1>2 DEF Promise!Next

(* What waits for a service is sent.                                        *)
LEMMA SendAll ==
  ASSUME NEW s \in Services,
         NEW S, S = {d \in Calls : Target[d] = s /\ Stage[d] = "waiting"},
         Stage' = [d \in Calls |-> IF d \in S THEN "sent" ELSE Stage[d]],
         Wire' = Wire \cup S,
         UNCHANGED <<Present, Listed, Replies>>
  PROVE  Promise!Next
<1>1. Promise!Send(s)
  BY DEF Promise!Send, Promise!WaitingOn, Promise!Written, Present, Listed, Wire, Replies, Stage
<1>2. QED
  BY <1>1 DEF Promise!Next

(* The modem answers a call, or ignores it.                                 *)
LEMMA ReplyGiven ==
  ASSUME NEW c \in Calls, c \in Wire, Wire' = Wire \ {c},
         Replies' \in {Replies, Replies \cup {c}},
         UNCHANGED <<Present, Listed, Stage>>
  PROVE  Promise!Next
<1>1. Promise!Reply(c)
  BY DEF Promise!Reply, Present, Listed, Wire, Replies, Stage
<1>2. QED
  BY <1>1 DEF Promise!Next

(* An answer completes its call, unless that was dropped.                   *)
LEMMA AnswerTaken ==
  ASSUME NEW c \in Calls, c \in Replies, Replies' = Replies \ {c},
         Stage' = [Stage EXCEPT ![c] = IF @ = "sent" THEN "answered" ELSE @],
         Stage[c] \in {"sent", "dropped"},
         UNCHANGED <<Present, Listed, Wire>>
  PROVE  Promise!Next
<1>1. Promise!Answer(c)
  BY DEF Promise!Answer, Present, Listed, Wire, Replies, Stage
<1>2. QED
  BY <1>1 DEF Promise!Next

(* The services become available.                                           *)
LEMMA ListGiven ==
  ASSUME NEW S \in SUBSET Services, CTL \in Present, ~Listed, Listed' = TRUE,
         Present' = Present \cup S,
         UNCHANGED <<Stage, Wire, Replies>>
  PROVE  Promise!Next
<1>1. Promise!List(S)
  BY DEF Promise!List, Present, Listed, Wire, Replies, Stage
<1>2. QED
  BY <1>1 DEF Promise!Next

(* Services are closed with the calls on them.                              *)
LEMMA ClosedSet ==
  ASSUME NEW S \in SUBSET AllServices, S \subseteq Present, CTL \in S => S = Present,
         Present' = Present \ S,
         Stage' = [d \in Calls |-> IF Target[d] \in S /\ Stage[d] \in {"waiting", "sent"}
                                   THEN "dropped" ELSE Stage[d]],
         UNCHANGED <<Listed, Wire, Replies>>
  PROVE  Promise!Next
<1>1. Promise!Close(S)
  BY DEF Promise!Close, Present, Listed, Wire, Replies, Stage
<1>2. QED
  BY <1>1 DEF Promise!Next, AllServices


-----------------------------------------------------------------------------
(* The steps of the layer.                                                   *)

(* Issuing a call is issuing it.                                            *)
LEMMA SendCallPromise ==
  ASSUME Inductive, NEW c \in Calls, SendCall(c)
  PROVE  Promise!Next
<1> USE DEF Inductive
<1> DEFINE s == Target[c]
           q == Call(c)
           queued == [phase EXCEPT ![q] = "queued"]
<1>1. /\ s \in AllServices /\ q \in Request /\ phase[q] = "new" /\ To(q) = s
      /\ state[s] # "NONE" /\ down' = down /\ s \in Present
      /\ q.op = "call" /\ Version \in Request /\ Version.op # "call"
  BY RequestFacts, RequestKinds DEF AllServices, SendCall, Present
<1>2. Stage[c] = "new" /\ Replies' = Replies
  BY <1>1, StagesMap DEF Replies, CallsIn
<1>3. CASE state[s] = "IDLE"
  <2>1. SentIdle(c)
    BY <1>3, SendCallEffect DEF SentNow
  <2>2. Transmit(CTL, Alone(Alloc(s)), NoCid, queued)
    BY <1>3 DEF SendCall
  <2>3. Wire' = Wire
    <3>1. Wire' = Wire \cup {d \in Calls : Call(d) \in {Alloc(s)}}
      <4> HIDE DEF s, queued
      <4>1. QED
        BY <2>2, OrderDomains, TransmitWire
    <3>2. {d \in Calls : Call(d) \in {Alloc(s)}} = {}
      BY RequestKinds
    <3>3. QED
      BY <3>1, <3>2
  <2>4. \A d \in Calls : phase'[Call(d)] = IF d = c THEN "queued" ELSE phase[Call(d)]
    BY <2>1, RequestFacts, RequestKinds DEF SentIdle
  <2>5. Stage' = [Stage EXCEPT ![c] = "waiting"]
    BY <2>4, StagesMap, StageFacts DEF Stage
  <2>6. Listed' = Listed
    BY <1>1, <2>1, RequestKinds DEF SentIdle, Listed
  <2>7. Present' = Present
    BY <1>3, <2>1 DEF SentIdle, Present
  <2>8. QED
    BY <1>1, <1>2, <2>3, <2>5, <2>6, <2>7, IssueLater
<1>4. CASE state[s] # "IDLE"
  <2> DEFINE S == {d \in Calls : Target[d] = s /\ Stage[d] = "waiting"} \cup {c}
  <2>1. SentNow(c)
    BY <1>4, SendCallEffect DEF SentIdle
  <2>2. PICK rank \in WalkOrders(Cons(q, reqs[s]), Unsent(s) \cup {q}) :
           Transmit(s, rank, IF s = CTL THEN NoCid ELSE client[s], queued)
    BY <1>4 DEF SendCall
  <2>3. \A d \in Calls : Call(d) \in Unsent(s) \cup {q} <=> d \in S
    <3>1. \A d \in Calls : Call(d) \in Unsent(s) <=> Target[d] = s /\ Stage[d] = "waiting"
      BY <1>1, UnsentQueued, RequestFacts, StagesMap
    <3>2. \A d \in Calls : Call(d) = q <=> d = c
      BY RequestKinds
    <3>3. QED
      BY <3>1, <3>2
  <2>4. Wire' = Wire \cup S
    <3>1. Wire' = Wire \cup {d \in Calls : Call(d) \in Unsent(s) \cup {q}}
      <4> HIDE DEF s, q, queued, S
      <4>1. QED
        BY <2>2, OrderDomains, TransmitWire
    <3>2. {d \in Calls : Call(d) \in Unsent(s) \cup {q}} = S
      BY <2>3
    <3>3. QED
      BY <3>1, <3>2
  <2>5. Stage' = [d \in Calls |-> IF d \in S THEN "sent" ELSE Stage[d]]
    <3>1. \A d \in Calls : phase'[Call(d)] = IF d \in S THEN "pending" ELSE phase[Call(d)]
      BY <2>1, <2>3, RequestFacts DEF SentNow
    <3> HIDE DEF S
    <3>2. QED
      BY <3>1, StagesMap, StageFacts DEF Stage
  <2>6. Listed' = Listed
    <3>1. Version \notin Unsent(s)
      BY <1>1, UnsentFacts
    <3>2. QED
      BY <1>1, <2>1, <3>1, RequestKinds DEF SentNow, Listed
  <2>7. Present' = Present
    BY <2>1 DEF SentNow, Present
  <2> HIDE DEF S
  <2>8. QED
    BY <1>1, <1>2, <2>4, <2>5, <2>6, <2>7, IssueNow DEF S
<1>5. QED
  BY <1>3, <1>4

(* The version request is none of the callers' business.                    *)
LEMMA SendVersionPromise ==
  ASSUME Inductive, SendVersion
  PROVE  UNCHANGED Promise!vars
<1> USE DEF Inductive
<1>1. Transmit(CTL, Alone(Version), NoCid, phase) /\ state' = state /\ down' = down
      /\ phase[Version] = "new" /\ Version \in Request
  BY RequestFacts DEF SendVersion
<1>2. phase' = [q \in Request |-> IF q \in {Version} THEN "pending" ELSE phase[q]]
  BY <1>1 DEF Transmit, Alone
<1>3. Wire' = Wire
  <2>1. Wire' = Wire \cup {d \in Calls : Call(d) \in {Version}}
    BY <1>1, OrderDomains, TransmitWire
  <2>2. {d \in Calls : Call(d) \in {Version}} = {}
    BY RequestKinds
  <2>3. QED
    BY <2>1, <2>2
<1>4. \A d \in Calls : phase'[Call(d)] = phase[Call(d)]
  BY <1>2, RequestFacts, RequestKinds
<1>5. Listed' = Listed /\ Present' = Present /\ Replies' = Replies
  BY <1>1, <1>2 DEF Listed, Present, Replies, CallsIn
<1>6. QED
  BY <1>3, <1>4, <1>5, Stutters

(* What the receipt of a message takes from the replies.                    *)
LEMMA ReceivedReplies ==
  ASSUME TypeOK, MessagesMatch, NEW m \in down, down' = down \ {m}
  PROVE  /\ \A c \in Calls : m.req = Call(c) => c \in Replies /\ Replies' = Replies \ {c}
         /\ m.req.op # "call" => Replies' = Replies
<1>1. \A n \in down : n.req = m.req => n = m
  BY DEF MessagesMatch
<1>2. ASSUME NEW c \in Calls, m.req = Call(c) PROVE c \in Replies /\ Replies' = Replies \ {c}
  <2>1. \A d \in Calls : Call(d) = Call(c) => d = c
    BY RequestKinds
  <2>2. QED
    BY <1>1, <1>2, <2>1 DEF Replies, CallsIn
<1>3. ASSUME m.req.op # "call" PROVE Replies' = Replies
  <2>1. \A d \in Calls : m.req # Call(d)
    BY <1>3, RequestKinds
  <2>2. QED
    BY <2>1 DEF Replies, CallsIn
<1>4. QED
  BY <1>2, <1>3

(* A message nothing waits for answers a call that was dropped.             *)
LEMMA DiscardPromise ==
  ASSUME Inductive, MessagesMatch, TidsGiven, NEW m \in down, DiscardMessage(m)
  PROVE  Promise!Next \/ UNCHANGED Promise!vars
<1> USE DEF Inductive
<1>1. /\ down' = down \ {m} /\ UNCHANGED <<state, phase, up>>
      /\ m.req \in Request /\ m.svc = To(m.req)
  BY MessageTypes DEF DiscardMessage, svcVars, reqVars, MessagesMatch
<1>2. UNCHANGED <<Present, Listed, Stage, Wire>>
  BY <1>1 DEF Present, Listed, Stage, StageOf, Wire, CallsIn
<1>3. phase[m.req] = "freed"
  <2> SUFFICES ASSUME phase[m.req] = "pending", reqTid[m.req] = m.tid PROVE FALSE
    BY DEF MessagesMatch
  <2>1. /\ m.svc \in AllServices /\ m.req \in Waiting(m.svc)
        /\ ListsExactly(reqs[m.svc], Waiting(m.svc))
    BY <1>1, RequestFacts DEF ListsAreExact, Waiting
  <2>2. PICK i \in 1 .. Len(reqs[m.svc]) : reqs[m.svc][i] = m.req
    BY <2>1 DEF ListsExactly, Contains
  <2>3. ASSUME NEW j \in 1 .. Len(reqs[m.svc]), reqTid[reqs[m.svc][j]] = m.tid
        PROVE  reqs[m.svc][j] = m.req
    <3>1. reqs[m.svc][j] \in Waiting(m.svc)
      BY <2>1 DEF ListsExactly, Positions
    <3>2. phase[reqs[m.svc][j]] = "pending"
      BY <1>1, <2>3, <3>1 DEF Waiting, TidsGiven
    <3>3. QED
      BY <1>1, <2>3, <3>1, <3>2 DEF MessagesMatch, TidCollision, Waiting
  <2>4. \A j \in 1 .. i - 1 : reqTid[reqs[m.svc][j]] # m.tid
    <3> SUFFICES ASSUME NEW j \in 1 .. i - 1, reqTid[reqs[m.svc][j]] = m.tid PROVE FALSE
      OBVIOUS
    <3>1. j \in 1 .. Len(reqs[m.svc]) /\ j # i
      BY <2>1, <2>2 DEF TypeOK
    <3>2. reqs[m.svc][j] = reqs[m.svc][i]
      BY <2>2, <2>3, <3>1
    <3>3. DOMAIN reqs[m.svc] = 1 .. Len(reqs[m.svc])
      BY <2>1 DEF TypeOK
    <3>4. QED
      BY <2>1, <3>1, <3>2, <3>3 DEF ListsExactly, IsInjective
  <2>5. Matches(m, i)
    BY <2>2, <2>4 DEF Matches, Positions
  <2>6. QED
    BY <2>2, <2>5 DEF DiscardMessage, Positions
<1>4. CASE m.req.op = "call"
  <2>1. PICK c \in Calls : m.req = Call(c)
    BY <1>1, <1>4, RequestKinds
  <2>2. Stage[c] = "dropped"
    BY <1>3, <2>1, StagesMap
  <2>3. Stage' = [Stage EXCEPT ![c] = IF @ = "sent" THEN "answered" ELSE @]
    BY <1>2, <2>2 DEF Stage
  <2>4. c \in Replies /\ Replies' = Replies \ {c}
    BY <1>1, <2>1, ReceivedReplies
  <2>5. QED
    BY <1>2, <2>2, <2>3, <2>4, AnswerTaken
<1>5. CASE m.req.op # "call"
  <2>1. Replies' = Replies
    BY <1>1, <1>5, ReceivedReplies
  <2>2. QED
    BY <1>1, <1>2, <2>1, Stutters
<1>6. QED
  BY <1>4, <1>5


(* What the receipt of an answer means to the calls.                        *)
LEMMA ReceivedCalls ==
  ASSUME Inductive, MessagesMatch, NEW m \in down, NEW i \in Positions(reqs[m.svc]),
         NEW op, Receive(m, i, op)
  PROVE  /\ m.req = reqs[m.svc][i] /\ m.req \in Request /\ m.req.op = op
         /\ phase[m.req] = "pending" /\ down' = down \ {m}
         /\ \A p \in Request : Completed(m, i)[p] = IF p = m.req THEN "complete" ELSE phase[p]
         /\ op # "call" => /\ Replies' = Replies
                           /\ \A c \in Calls : Completed(m, i)[Call(c)] = phase[Call(c)]
         /\ op # "version" => Completed(m, i)[Version] = phase[Version]
<1> USE DEF Inductive
<1>1. m.req = reqs[m.svc][i] /\ m.req \in Request /\ m.req.op = op
  BY RightAnswer
<1>2. \A p \in Request : Completed(m, i)[p] = IF p = m.req THEN "complete" ELSE phase[p]
  <2>1. ReceivedOne(m, i)
    BY CompletedLists
  <2>2. QED
    BY <1>1, <2>1 DEF ReceivedOne
<1>3. phase[m.req] = "pending" /\ down' = down \ {m}
  BY <1>1 DEF Receive
<1>4. op # "call" => Replies' = Replies
  BY <1>1, <1>3, ReceivedReplies
<1>5. op # "call" => \A c \in Calls : Completed(m, i)[Call(c)] = phase[Call(c)]
  BY <1>1, <1>2, RequestFacts, RequestKinds
<1>6. op # "version" => Completed(m, i)[Version] = phase[Version]
  BY <1>1, <1>2, RequestFacts, RequestKinds
<1>7. QED
  BY <1>1, <1>2, <1>3, <1>4, <1>5, <1>6

(* The answer to a call answers that call.                                  *)
LEMMA ReceiveCallPromise ==
  ASSUME Inductive, MessagesMatch, NEW m \in down, NEW i \in Positions(reqs[m.svc]),
         ReceiveCall(m, i)
  PROVE  Promise!Next
<1> USE DEF Inductive
<1>1. /\ Receive(m, i, "call") /\ phase' = Completed(m, i) /\ UNCHANGED <<state, up>>
  BY DEF ReceiveCall, svcVars
<1>2. /\ m.req \in Request /\ m.req.op = "call" /\ phase[m.req] = "pending" /\ down' = down \ {m}
      /\ \A p \in Request : phase'[p] = IF p = m.req THEN "complete" ELSE phase[p]
      /\ phase'[Version] = phase[Version]
  BY <1>1, ReceivedCalls
<1>3. PICK c \in Calls : m.req = Call(c)
  BY <1>2, RequestKinds
<1>4. c \in Replies /\ Replies' = Replies \ {c}
  BY <1>2, <1>3, ReceivedReplies
<1>5. \A d \in Calls : phase'[Call(d)] = IF d = c THEN "complete" ELSE phase[Call(d)]
  BY <1>2, <1>3, RequestFacts, RequestKinds
<1>6. Stage[c] = "sent" /\ Stage' = [Stage EXCEPT ![c] = IF @ = "sent" THEN "answered" ELSE @]
  <2>1. Stage[c] = "sent"
    BY <1>2, <1>3, StagesMap
  <2>2. \A d \in Calls : Stage'[d] = IF d = c THEN "answered" ELSE Stage[d]
    BY <1>5, StagesMap, StageFacts
  <2>3. QED
    BY <2>1, <2>2 DEF Stage
<1>7. UNCHANGED <<Present, Listed, Wire>>
  BY <1>1, <1>2 DEF Present, Listed, Wire, CallsIn
<1>8. QED
  BY <1>4, <1>6, <1>7, AnswerTaken

(* The version list makes the services it names available.                  *)
LEMMA ReceiveVersionPromise ==
  ASSUME Inductive, MessagesMatch, NEW m \in down, NEW i \in Positions(reqs[m.svc]),
         ReceiveVersion(m, i)
  PROVE  Promise!Next
<1> USE DEF Inductive
<1> DEFINE created == {s \in m.offered : state[s] = "NONE"}
<1>1. Receive(m, i, "version") /\ phase' = Completed(m, i) /\ up' = up
  BY DEF ReceiveVersion
<1>2. m.offered \in SUBSET Services /\ created \in SUBSET Services
  BY <1>1, ReceiveType
<1>3. m.req = Version /\ phase[Version] = "pending" /\ phase'[Version] = "complete"
  BY <1>1, ReceivedCalls, RequestFacts, RequestKinds
<1>4. ~Listed /\ Listed' = TRUE
  BY <1>3 DEF Listed
<1>5. CTL \in Present
  BY <1>1 DEF Present, AllServices, Receive, LifeStages
<1>6. state' = [s \in AllServices |-> IF s \in created THEN "IDLE" ELSE state[s]]
  BY DEF ReceiveVersion
<1>7. Present' = Present \cup created
  <2> HIDE DEF created
  <2>1. created \subseteq AllServices
    BY <1>2 DEF AllServices
  <2>2. QED
    BY <1>6, <2>1 DEF Present
<1>8. Replies' = Replies /\ \A c \in Calls : phase'[Call(c)] = phase[Call(c)]
  BY <1>1, ReceivedCalls
<1>9. Stage' = Stage
  BY <1>8, StageFacts DEF Stage
<1>10. Wire' = Wire
  BY <1>1 DEF Wire, CallsIn
<1> HIDE DEF created
<1>11. QED
  BY <1>2, <1>4, <1>5, <1>7, <1>8, <1>9, <1>10, ListGiven

(* The answer to an allocation sends what waits for the service it names.   *)
LEMMA ReceiveAllocPromise ==
  ASSUME Inductive, MessagesMatch, NEW m \in down, NEW i \in Positions(reqs[m.svc]),
         ReceiveAlloc(m, i)
  PROVE  Promise!Next \/ UNCHANGED Promise!vars
<1> USE DEF Inductive
<1>1. Receive(m, i, "alloc")
  BY DEF ReceiveAlloc
<1>2. /\ Replies' = Replies /\ Completed(m, i)[Version] = phase[Version]
      /\ \A c \in Calls : Completed(m, i)[Call(c)] = phase[Call(c)]
  BY <1>1, ReceivedCalls
<1>3. CASE AllocIgnored(m, i)
  <2>1. phase' = Completed(m, i) /\ UNCHANGED <<state, up>>
    BY <1>3 DEF AllocIgnored
  <2>2. UNCHANGED <<Present, Listed, Wire>>
    BY <1>2, <2>1 DEF Present, Listed, Wire, CallsIn
  <2>3. QED
    BY <1>2, <2>1, <2>2, Stutters
<1>4. CASE AllocTaken(m, i) /\ ~(m.info = NoInfo \/ state[m.info.svc] = "NONE")
  <2> DEFINE s == m.info.svc
             S == {d \in Calls : Target[d] = s /\ Stage[d] = "waiting"}
  <2>1. s \in Services /\ s \in AllServices /\ state[s] # "NONE"
    BY <1>4 DEF AllocTaken, AllServices
  <2>2. PICK rank \in WalkOrders(reqs[s], Unsent(s)) :
           Transmit(s, rank, m.info.cid, Completed(m, i))
    BY <1>4 DEF ReceiveAlloc
  <2>3. \A d \in Calls : Call(d) \in Unsent(s) <=> d \in S
    BY <2>1, UnsentQueued, RequestFacts, StagesMap
  <2>4. Wire' = Wire \cup S
    <3>1. Wire' = Wire \cup {d \in Calls : Call(d) \in Unsent(s)}
      <4> HIDE DEF s, S
      <4>1. QED
        BY <2>2, OrderDomains, TransmitWire
    <3>2. {d \in Calls : Call(d) \in Unsent(s)} = S
      BY <2>3
    <3>3. QED
      BY <3>1, <3>2
  <2>5. \A d \in Calls : phase'[Call(d)] = IF d \in S THEN "pending" ELSE phase[Call(d)]
    BY <1>2, <1>4, <2>3, RequestFacts DEF AllocTaken
  <2>6. Stage' = [d \in Calls |-> IF d \in S THEN "sent" ELSE Stage[d]]
    <3> HIDE DEF S
    <3>1. QED
      BY <2>5, StagesMap, StageFacts DEF Stage
  <2>7. Listed' = Listed
    <3>1. Version \notin Unsent(s)
      BY <2>1, UnsentFacts, RequestKinds
    <3>2. QED
      BY <1>2, <1>4, <3>1, RequestFacts DEF AllocTaken, Listed
  <2>8. Present' = Present
    BY <1>4, <2>1 DEF AllocTaken, Present
  <2> HIDE DEF S
  <2>9. QED
    BY <1>2, <2>1, <2>4, <2>6, <2>7, <2>8, SendAll DEF S
<1>5. QED
  <2>1. AllocTaken(m, i) /\ (m.info = NoInfo \/ state[m.info.svc] = "NONE") => AllocIgnored(m, i)
    BY DEF ReceiveAlloc, AllocIgnored, svcVars
  <2>2. QED
    BY <1>3, <1>4, <2>1, ReceiveAllocEffect


(* Services are freed with the calls that wait on them.                     *)
LEMMA FreedPromise ==
  ASSUME TypeOK, NEW S \in SUBSET AllServices, S \subseteq Present, CTL \in S => S = Present,
         \A t \in AllServices : state'[t] = IF t \in S THEN "NONE" ELSE state[t],
         \A c \in Calls : phase'[Call(c)] =
             IF Target[c] \in S /\ phase[Call(c)] \in {"queued", "pending"} THEN "freed"
             ELSE phase[Call(c)],
         UNCHANGED <<Listed, Wire, Replies>>
  PROVE  Promise!Next
<1>1. Present' = Present \ S
  BY DEF Present
<1>2. \A c \in Calls : Stage'[c] = IF Target[c] \in S /\ Stage[c] \in {"waiting", "sent"}
                                   THEN "dropped" ELSE Stage[c]
  <2>1. \A c \in Calls : phase[Call(c)] \in {"queued", "pending"} <=> Stage[c] \in {"waiting", "sent"}
    BY StagesMap
  <2>2. QED
    BY <2>1, StagesMap, StageFacts
<1>3. Stage' = [d \in Calls |-> IF Target[d] \in S /\ Stage[d] \in {"waiting", "sent"}
                                THEN "dropped" ELSE Stage[d]]
  BY <1>2 DEF Stage
<1>4. QED
  BY <1>1, <1>3, ClosedSet

(* A confirmed release closes its service.                                  *)
LEMMA ReceiveReleasePromise ==
  ASSUME Inductive, MessagesMatch, NEW m \in down, NEW i \in Positions(reqs[m.svc]),
         ReceiveRelease(m, i)
  PROVE  Promise!Next \/ UNCHANGED Promise!vars
<1> USE DEF Inductive
<1>1. Receive(m, i, "release") /\ up' = up
  BY DEF ReceiveRelease
<1>2. /\ Replies' = Replies /\ Completed(m, i)[Version] = phase[Version]
      /\ \A c \in Calls : Completed(m, i)[Call(c)] = phase[Call(c)]
  BY <1>1, ReceivedCalls
<1>3. Wire' = Wire
  BY <1>1 DEF Wire, CallsIn
<1>4. CASE phase' = Completed(m, i) /\ state' = state
  <2>1. UNCHANGED <<Present, Listed>>
    BY <1>2, <1>4 DEF Present, Listed
  <2>2. QED
    BY <1>2, <1>3, <1>4, <2>1, Stutters
<1>5. CASE ReleaseTaken(m, i)
  <2> DEFINE s == m.info.svc
  <2>1. s \in Services /\ state[s] # "NONE" /\ s \in AllServices /\ s # CTL
    BY <1>5, ServicesAssumption DEF ReleaseTaken, AllServices
  <2>2. {s} \in SUBSET AllServices /\ {s} \subseteq Present /\ CTL \notin {s}
    BY <2>1 DEF Present
  <2>3. \A t \in AllServices : state'[t] = IF t \in {s} THEN "NONE" ELSE state[t]
    BY <1>5 DEF ReleaseTaken
  <2>4. \A c \in Calls : phase'[Call(c)] =
            IF Target[c] \in {s} /\ phase[Call(c)] \in {"queued", "pending"} THEN "freed"
            ELSE phase[Call(c)]
    BY <1>2, <1>5, RequestFacts DEF ReleaseTaken
  <2>5. Listed' = Listed
    BY <1>2, <1>5, <2>1, RequestFacts DEF ReleaseTaken, Listed
  <2> HIDE DEF s
  <2>6. QED
    BY <1>2, <1>3, <2>2, <2>3, <2>4, <2>5, FreedPromise
<1>6. QED
  BY <1>4, <1>5, ReceiveReleaseEffect

(* Closing the device closes the services that have no client id.           *)
LEMMA DeviceClosePromise ==
  ASSUME Inductive, DeviceClose
  PROVE  Promise!Next
<1> USE DEF Inductive
<1> DEFINE unready == {s \in Services : state[s] \in {"IDLE", "WAIT_CID"}}
           batch == {Release(s) : s \in {t \in Services : state[t] = "READY"}}
           ph == FreedPhase(unready, phase)
<1>1. PICK rank \in PushOrders(batch) : Transmit(CTL, rank, NoCid, ph)
  BY DEF DeviceClose
<1>2. batch \in SUBSET Request /\ \A q \in batch : q.op # "call" /\ q # Version
  BY RequestFacts, RequestKinds
<1>3. Wire' = Wire
  <2> HIDE DEF batch, ph
  <2>1. Wire' = Wire \cup {d \in Calls : Call(d) \in batch}
    BY <1>1, OrderDomains, TransmitWire
  <2>2. {d \in Calls : Call(d) \in batch} = {}
    BY <1>2, OtherWire
  <2>3. QED
    BY <2>1, <2>2
<1>4. phase' = [q \in Request |-> IF q \in batch THEN "pending" ELSE ph[q]]
  <2> HIDE DEF batch, ph
  <2>1. QED
    BY <1>1, TransmitPhase, OrderDomains
<1>5. /\ unready \in SUBSET AllServices /\ unready \subseteq Present /\ CTL \notin unready
      /\ CTL \in AllServices
  BY ServicesAssumption DEF AllServices, Present
<1>6. \A t \in AllServices : state'[t] = IF t \in unready THEN "NONE" ELSE state[t]
  BY DEF DeviceClose, FreedState
<1>7. \A q \in Request : ph[q] = IF To(q) \in unready /\ phase[q] \in {"queued", "pending"}
                                 THEN "freed" ELSE phase[q]
  BY DEF FreedPhase
<1>8. down' = down
  BY DEF DeviceClose
<1> HIDE DEF unready, batch, ph
<1>9. \A c \in Calls : phase'[Call(c)] =
          IF Target[c] \in unready /\ phase[Call(c)] \in {"queued", "pending"} THEN "freed"
          ELSE phase[Call(c)]
  BY <1>2, <1>4, <1>7, RequestFacts, RequestKinds
<1>10. Listed' = Listed /\ Replies' = Replies
  BY <1>2, <1>4, <1>5, <1>7, <1>8, RequestFacts DEF Listed, Replies, CallsIn
<1>11. QED
  BY <1>3, <1>5, <1>6, <1>9, <1>10, FreedPromise

(* Closing for good closes every service.                                   *)
LEMMA CloseCallbackPromise ==
  ASSUME Inductive, CloseCallback, up' = up, down' = down
  PROVE  Promise!Next
<1> USE DEF Inductive
<1>1. /\ \A p \in Request : phase'[p] = IF phase[p] \in {"queued", "pending"} THEN "freed"
                                        ELSE phase[p]
      /\ \A t \in AllServices : state'[t] = "NONE"
  BY CloseCallbackEffect
<1>2. \A q \in Request : phase[q] \in {"queued", "pending"} => To(q) \in Present
  <2> SUFFICES ASSUME NEW q \in Request, phase[q] \in {"queued", "pending"}
               PROVE  To(q) \in Present
    OBVIOUS
  <2>1. To(q) \in AllServices /\ q \in Waiting(To(q))
    BY RequestFacts DEF Waiting
  <2>2. reqs[To(q)] # <<>>
    BY <2>1 DEF ListsAreExact, ListsExactly, Contains
  <2>3. QED
    BY <2>1, <2>2 DEF ListsAreExact, Present
<1>3. Present \in SUBSET AllServices /\ \A t \in AllServices \ Present : state[t] = "NONE"
  BY DEF Present
<1>4. \A t \in AllServices : state'[t] = IF t \in Present THEN "NONE" ELSE state[t]
  BY <1>1, <1>3
<1>5. \A c \in Calls : phase'[Call(c)] =
          IF Target[c] \in Present /\ phase[Call(c)] \in {"queued", "pending"} THEN "freed"
          ELSE phase[Call(c)]
  BY <1>1, <1>2, RequestFacts
<1>6. Listed' = Listed /\ Wire' = Wire /\ Replies' = Replies
  BY <1>1, RequestFacts DEF Listed, Wire, Replies, CallsIn
<1>7. QED
  BY <1>3, <1>4, <1>5, <1>6, FreedPromise

(* The modem answers a call, or something the callers do not see.           *)
LEMMA ModemPromise ==
  ASSUME Inductive, MessagesMatch, Modem
  PROVE  Promise!Next \/ UNCHANGED Promise!vars
<1> USE DEF Inductive
<1>1. PICK m \in up : \/ ModemAnswersCall(m) \/ ModemListsServices(m) \/ ModemAllocates(m)
                      \/ ModemReleases(m) \/ ModemRefuses(m) \/ ModemIgnores(m)
  BY DEF Modem
<1>2. /\ UNCHANGED <<state, phase>> /\ up' = up \ {m}
      /\ down' = down \/ \E info, offered :
            down' = down \cup {[svc |-> m.svc, tid |-> m.tid, req |-> m.req,
                                info |-> info, offered |-> offered]}
  BY <1>1 DEF ModemAnswersCall, ModemListsServices, ModemAllocates, ModemReleases,
       ModemRefuses, ModemIgnores, Answer, svcVars, reqVars
<1>3. down' = down \/ \E a : a.req = m.req /\ down' = down \cup {a}
  <2>1. ASSUME NEW info, NEW offered,
               down' = down \cup {[svc |-> m.svc, tid |-> m.tid, req |-> m.req,
                                   info |-> info, offered |-> offered]}
        PROVE  \E a : a.req = m.req /\ down' = down \cup {a}
    <3> DEFINE a == [svc |-> m.svc, tid |-> m.tid, req |-> m.req,
                     info |-> info, offered |-> offered]
    <3>1. a.req = m.req /\ down' = down \cup {a}
      BY <2>1
    <3> HIDE DEF a
    <3>2. QED
      BY <3>1
  <2>2. QED
    BY <1>2, <2>1
<1>4. UNCHANGED <<Present, Listed, Stage>>
  BY <1>2 DEF Present, Listed, Stage, StageOf
<1>5. m.req \in Request /\ \A n \in up : n.req = m.req => n = m
  BY MessageTypes DEF MessagesMatch
<1>6. CASE m.req.op = "call"
  <2>1. PICK c \in Calls : m.req = Call(c)
    BY <1>5, <1>6, RequestKinds
  <2>2. \A d \in Calls : Call(d) = Call(c) => d = c
    BY RequestKinds
  <2>3. c \in Wire /\ Wire' = Wire \ {c}
    BY <1>2, <1>5, <2>1, <2>2 DEF Wire, CallsIn
  <2>4. Replies' \in {Replies, Replies \cup {c}}
    <3>1. CASE down' = down
      BY <3>1 DEF Replies, CallsIn
    <3>2. ASSUME NEW a, a.req = m.req, down' = down \cup {a} PROVE Replies' = Replies \cup {c}
      BY <2>1, <2>2, <3>2 DEF Replies, CallsIn
    <3>3. QED
      BY <1>3, <3>1, <3>2
  <2>5. QED
    BY <1>4, <2>3, <2>4, ReplyGiven
<1>7. CASE m.req.op # "call"
  <2>1. \A d \in Calls : m.req # Call(d)
    BY <1>7, RequestKinds
  <2>2. Wire' = Wire
    BY <1>2, <2>1 DEF Wire, CallsIn
  <2>3. Replies' = Replies
    BY <1>3, <2>1 DEF Replies, CallsIn
  <2>4. QED
    BY <1>2, <1>4, <2>2, <2>3, Stutters
<1>8. QED
  BY <1>6, <1>7


-----------------------------------------------------------------------------
(* The refinement.                                                           *)

(* The device starts as the promise does: open, with CTL alone.             *)
LEMMA InitPromise == Init => Promise!Init
<1> SUFFICES ASSUME Init PROVE Promise!Init
  OBVIOUS
<1>1. \A q \in Request : phase[q] = "new"
  BY DEF Init
<1>2. Present = {CTL}
  BY DEF Init, Present, AllServices
<1>3. Listed = FALSE
  BY <1>1, RequestFacts DEF Listed
<1>4. Stage = [c \in Calls |-> "new"]
  BY <1>1, RequestFacts, StageFacts DEF Stage
<1>5. Wire = {} /\ Replies = {}
  BY DEF Init, Wire, Replies, CallsIn
<1>6. QED
  BY <1>2, <1>3, <1>4, <1>5 DEF Promise!Init, Present, Listed, Stage, Wire, Replies

(* Every step of the layer is a step of the promise, or none.               *)
LEMMA PromiseStep ==
  ASSUME Inductive, TidsGiven, ~lapped, [Next]_vars
  PROVE  Promise!Next \/ UNCHANGED Promise!vars
<1> USE DEF Inductive
<1>0. MessagesMatch
  OBVIOUS
<1>1. ASSUME NEW c \in Calls, SendCall(c) PROVE Promise!Next
  BY <1>1, SendCallPromise
<1>2. ASSUME SendVersion PROVE UNCHANGED Promise!vars
  BY <1>2, SendVersionPromise
<1>3. ASSUME NEW m \in down, DiscardMessage(m) PROVE Promise!Next \/ UNCHANGED Promise!vars
  BY <1>0, <1>3, DiscardPromise
<1>4. ASSUME NEW m \in down, NEW i \in Positions(reqs[m.svc]),
             \/ ReceiveCall(m, i) \/ ReceiveVersion(m, i)
             \/ ReceiveAlloc(m, i) \/ ReceiveRelease(m, i)
      PROVE  Promise!Next \/ UNCHANGED Promise!vars
  BY <1>0, <1>4, ReceiveCallPromise, ReceiveVersionPromise, ReceiveAllocPromise,
     ReceiveReleasePromise
<1>5. ASSUME DeviceClose PROVE Promise!Next
  BY <1>5, DeviceClosePromise
<1>6. ASSUME UNCHANGED <<state, phase, up, down>> PROVE UNCHANGED Promise!vars
  BY <1>6 DEF Promise!vars, StageOf, CallsIn
<1>7. ASSUME ShutdownFires \/ ConnectionDies PROVE Promise!Next \/ UNCHANGED Promise!vars
  <2>1. up' = up /\ down' = down
    BY <1>7 DEF ShutdownFires, ConnectionDies, modemVars
  <2>2. CloseCallback \/ UNCHANGED <<state, phase>>
    BY <1>7 DEF ShutdownFires, ConnectionDies
  <2>3. QED
    BY <1>6, <2>1, <2>2, CloseCallbackPromise
<1>8. ASSUME Modem PROVE Promise!Next \/ UNCHANGED Promise!vars
  BY <1>0, <1>8, ModemPromise
<1>9. CASE UNCHANGED vars
  BY <1>6, <1>9 DEF vars, svcVars, reqVars, modemVars
<1>10. QED
  BY <1>1, <1>2, <1>3, <1>4, <1>5, <1>7, <1>8, <1>9 DEF Next, Receiving

(* While no transaction id is shared by two unanswered requests, the layer  *)
(* keeps its promise (services.c:88-230, ctrl.c:11-92, ddev.c:24-238).      *)
THEOREM PromiseKept == Spec /\ []~lapped => KeepsPromise
<1>1. Init => TidsGiven
  BY DEF Init, TidsGiven
<1>2. Inductive /\ TidsGiven /\ [Next]_vars => TidsGiven'
  BY TidsGivenStep DEF Inductive
<1>3. Inductive /\ TidsGiven /\ ~lapped /\ [Next]_vars => [Promise!Next]_(Promise!vars)
  BY PromiseStep
<1>4. QED
  BY <1>1, <1>2, <1>3, InitPromise, InductiveInvariant, PTL DEF Spec, KeepsPromise, Promise!Spec

=============================================================================
