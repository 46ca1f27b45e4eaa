------------------------------ MODULE QmiServices ------------------------------
(***************************************************************************)
(* The request layer of uqmid: the services of one QMI device, the         *)
(* requests queued on them, their transaction ids, the client ids the      *)
(* control service (CTL) allocates and releases for them, and the closing  *)
(* of the device (uqmid/services.c, uqmid/ctrl.c, uqmid/ddev.c).            *)
(*                                                                         *)
(* The daemon is one uloop thread, so a callback runs to its end before    *)
(* the next one starts: every action below is one such callback, with all  *)
(* the calls it makes.  The modem and the character device between them    *)
(* are external: messages written to it are in "up", the modem's answers   *)
(* in "down", and either may be overtaken by another.                      *)
(***************************************************************************)
EXTENDS Integers, Sequences, FiniteSets, SequencesExt

CONSTANTS
    Services,  \* the QMI services a modem may offer, CTL excepted
    CTL,       \* the control service, present as long as the device is open
    Calls,     \* the requests the state machines and ubus handlers issue
    Target,    \* the service each call is issued on
    Cids,      \* the client ids the modem hands out
    NoCid,     \* client_id = -1, before one is assigned
    TidMax,    \* the largest transaction id: 255 on CTL, 65535 elsewhere
    Lossy      \* TRUE if the modem may refuse or ignore a request

ASSUME ServicesAssumption == IsFiniteSet(Services) /\ CTL \notin Services
ASSUME CallsAssumption == IsFiniteSet(Calls) /\ Target \in [Calls -> Services \cup {CTL}]
ASSUME CidsAssumption == NoCid \notin Cids
ASSUME TidAssumption == TidMax \in [Services \cup {CTL} -> Nat \ {0}]
ASSUME LossyAssumption == Lossy \in BOOLEAN

AllServices == Services \cup {CTL}

-----------------------------------------------------------------------------
(* Requests.  Besides the calls there are the three CTL requests whose       *)
(* callbacks change this layer's own state.                                 *)

Call(c)    == [op |-> "call", of |-> c]
Alloc(s)   == [op |-> "alloc", of |-> s]
Release(s) == [op |-> "release", of |-> s]
Version    == [op |-> "version", of |-> CTL]

Request == [op : {"call"}, of : Calls] \cup [op : {"alloc", "release"}, of : Services]
              \cup {Version}

To(q) == IF q.op = "call" THEN Target[q.of] ELSE CTL

(* What a CTL answer says: the service and client id of its TLV, or nothing *)
(* when the modem answers with an error status; the parsers zero the result *)
(* and do not look at the status.                                           *)
NoInfo == [svc |-> CTL, cid |-> NoCid]
Info == [svc : Services, cid : Cids] \cup {NoInfo}

UpMessage == [svc : AllServices, tid : Nat, cid : Cids \cup {NoCid}, req : Request]
DownMessage == [svc : AllServices, tid : Nat, req : Request, info : Info,
                offered : SUBSET Services]

VARIABLES
    state,     \* per service: NONE (no such object), IDLE, WAIT_CID or READY
    client,    \* per service: client_id
    tid,       \* per service: the last transaction id used
    reqs,      \* per service: the request list, front first
    phase,     \* per request: new, queued, pending, complete, or freed unanswered
    reqTid,    \* per request: req->tid, 0 until it is transmitted
    answer,    \* per request: the requests whose answers its callback was given
    dev,       \* qmi_dev.state
    open,      \* is the file descriptor open?
    shutdown,  \* the shutdown timer: off, later (timeout_ms) or now (0 ms)
    freed,     \* was the modem, and the device with it, freed?
    up, down,  \* the messages in flight to and from the modem
    held,      \* per service: the client ids the modem considers in use
    lapped     \* history: did two unanswered requests ever share a service and tid?

svcVars == <<state, client, tid>>
reqVars == <<reqs, phase, reqTid, answer>>
devVars == <<dev, open, shutdown, freed>>
modemVars == <<up, down, held>>
vars == <<svcVars, reqVars, devVars, modemVars, lapped>>

States == {"NONE", "IDLE", "WAIT_CID", "READY"}
Phases == {"new", "queued", "pending", "complete", "freed"}

TypeOK ==
    /\ state \in [AllServices -> States] /\ state[CTL] \in {"NONE", "READY"}
    /\ client \in [Services -> Cids \cup {NoCid}]
    /\ tid \in [AllServices -> Nat]
    /\ reqs \in [AllServices -> Seq(Request)]
    /\ phase \in [Request -> Phases]
    /\ reqTid \in [Request -> Nat]
    /\ answer \in [Request -> SUBSET Request]
    /\ dev \in {"RUNNING", "STOPPING"}
    /\ open \in BOOLEAN
    /\ shutdown \in {"off", "later", "now"}
    /\ freed \in BOOLEAN
    /\ up \subseteq UpMessage
    /\ down \subseteq DownMessage
    /\ held \in [Services -> SUBSET Cids]
    /\ lapped \in BOOLEAN

(* qmi_device_open and uqmi_ctrl_generate: only the control service exists. *)
Init ==
    /\ state = [s \in AllServices |-> IF s = CTL THEN "READY" ELSE "NONE"]
    /\ client = [s \in Services |-> NoCid]
    /\ tid = [s \in AllServices |-> 0]
    /\ reqs = [s \in AllServices |-> <<>>]
    /\ phase = [q \in Request |-> "new"]
    /\ reqTid = [q \in Request |-> 0]
    /\ answer = [q \in Request |-> {}]
    /\ dev = "RUNNING" /\ open = TRUE /\ shutdown = "off" /\ freed = FALSE
    /\ up = {} /\ down = {}
    /\ held = [s \in Services |-> {}]
    /\ lapped = FALSE

-----------------------------------------------------------------------------
(* Transmission.                                                             *)

(* Definitions named Wrong... are not part of the specification: each is a  *)
(* mistake one could make in the code, for the checks to find.  This one    *)
(* wraps the counter one id too early.                                      *)
WrongTidAfter(s, t, k) ==
    IF t + k < TidMax[s] THEN t + k ELSE ((t + k - 1) % (TidMax[s] - 1)) + 1

(* uqmi_service_get_next_tid, applied k times: the counter skips 0 when it  *)
(* wraps.                                                                   *)
TidAfter(s, t, k) ==
    IF t + k <= TidMax[s] THEN t + k ELSE ((t + k - 1) % TidMax[s]) + 1

Positions(list) == 1 .. Len(list)
Ahead(list, p, q) == \E i, j \in Positions(list) : i < j /\ list[i] = p /\ list[j] = q

(* Two unanswered requests of one service carry the same transaction id.    *)
TidCollision ==
    \E p, q \in Request :
        /\ p # q /\ To(p) = To(q)
        /\ phase[p] = "pending" /\ phase[q] = "pending"
        /\ reqTid[p] = reqTid[q]

(* The order in which uqmi_service_send_request, walking the list from its  *)
(* front, transmits the requests in U: their ranks, from 1.                 *)
WalkOrders(list, U) ==
    {rank \in [U -> 1 .. Cardinality(U)] :
        \A p, q \in U : Ahead(list, p, q) => rank[p] < rank[q]}

(* The orders in which the requests in U can be pushed one by one.          *)
PushOrders(U) == Bijection(U, 1 .. Cardinality(U))

(* What pushing them leaves at the front of the list: the last one first.   *)
Pushed(rank) ==
    LET n == Cardinality(DOMAIN rank)
    IN  [k \in 1 .. n |-> CHOOSE q \in DOMAIN rank : rank[q] = n + 1 - k]

Alone(q) == [p \in {q} |-> 1]

(* _service_send_request for every request of rank's domain: each takes the *)
(* next tid and is written with client id c, assigned or not; a release     *)
(* names its service's client id.  The requests were in phase ph before.    *)
Transmit(s, rank, c, ph) ==
    LET sent == DOMAIN rank
        tidOf(q) == TidAfter(s, tid[s], rank[q])
    IN  /\ tid' = [tid EXCEPT ![s] = TidAfter(s, @, Cardinality(sent))]
        /\ phase' = [q \in Request |-> IF q \in sent THEN "pending" ELSE ph[q]]
        /\ reqTid' = [q \in Request |-> IF q \in sent THEN tidOf(q) ELSE reqTid[q]]
        /\ up' = up \cup
              {[svc |-> s, tid |-> tidOf(q), req |-> q,
                cid |-> IF q.op = "release" THEN client[q.of] ELSE c] : q \in sent}
        /\ lapped' = (lapped \/ TidCollision')

WrongUnsent(s) == {q \in Request : Contains(reqs[s], q)}  \* sends all again
WrongUnsentNone(s) == {}                                 \* sends the newest only

Unsent(s) == {q \in Request : Contains(reqs[s], q) /\ phase[q] = "queued"}

-----------------------------------------------------------------------------
(* Sending.                                                                  *)

(* uqmi_service_send_msg.  The first request of an idle service has a       *)
(* client id allocated for it and waits; on any other service every request *)
(* not yet transmitted is transmitted now, whether the service has its      *)
(* client id or not.                                                        *)
SendCall(c) ==
    LET s == Target[c]
        q == Call(c)
        queued == [phase EXCEPT ![q] = "queued"]
    IN  /\ ~freed /\ open
        /\ state[s] # "NONE"
        /\ phase[q] = "new"
        /\ IF state[s] = "IDLE"
           THEN /\ state' = [state EXCEPT ![s] = "WAIT_CID"]
                /\ reqs' = [reqs EXCEPT ![s] = Cons(q, @), ![CTL] = Cons(Alloc(s), @)]
                /\ Transmit(CTL, Alone(Alloc(s)), NoCid, queued)
           ELSE /\ reqs' = [reqs EXCEPT ![s] = Cons(q, @)]
                /\ \E rank \in WalkOrders(Cons(q, reqs[s]), Unsent(s) \cup {q}) :
                      Transmit(s, rank, IF s = CTL THEN NoCid ELSE client[s], queued)
                /\ UNCHANGED state
        /\ UNCHANGED <<client, answer, devVars, down, held>>

(* modem_st_get_version_onenter: the version request, sent once, on CTL.    *)
SendVersion ==
    /\ ~freed /\ open
    /\ phase[Version] = "new"
    /\ reqs' = [reqs EXCEPT ![CTL] = Cons(Version, @)]
    /\ Transmit(CTL, Alone(Version), NoCid, phase)
    /\ UNCHANGED <<state, client, answer, devVars, down, held>>

-----------------------------------------------------------------------------
(* Receiving.                                                                *)

(* Mistake: the first pending request, whatever its transaction id.         *)
WrongMatches(m, i) ==
    /\ i \in Positions(reqs[m.svc])
    /\ \A j \in 1 .. i - 1 : phase[reqs[m.svc][j]] # "pending"

(* The request qmi_process_msg finds for m: the first of the service's list *)
(* with its transaction id.                                                 *)
Matches(m, i) ==
    /\ i \in Positions(reqs[m.svc])
    /\ reqTid[reqs[m.svc][i]] = m.tid
    /\ \A j \in 1 .. i - 1 : reqTid[reqs[m.svc][j]] # m.tid

(* The message is read and given to the callback of a request of kind op:   *)
(* __qmi_request_complete on request q, the i-th of its list.               *)
Receive(m, i, op) ==
    /\ ~freed /\ open
    /\ m \in down
    /\ Matches(m, i)
    /\ reqs[m.svc][i].op = op
    /\ phase[reqs[m.svc][i]] = "pending"
    /\ down' = down \ {m}
    /\ answer' = [answer EXCEPT ![reqs[m.svc][i]] = @ \cup {m.req}]

Completed(m, i) == [phase EXCEPT ![reqs[m.svc][i]] = "complete"]
WrongUnlinked(m, i) == reqs  \* the completed request stays on its list
Unlinked(m, i) == [reqs EXCEPT ![m.svc] = RemoveAt(@, i)]

(* Nothing waits for the message: its service is gone, or no pending        *)
(* request of its list has the message's transaction id.                    *)
DiscardMessage(m) ==
    /\ ~freed /\ open
    /\ m \in down
    /\ \A i \in Positions(reqs[m.svc]) :
          Matches(m, i) => phase[reqs[m.svc][i]] # "pending"
    /\ down' = down \ {m}
    /\ UNCHANGED <<svcVars, reqVars, devVars, up, held, lapped>>

(* The answer to a call: its callback leaves this layer alone, or sends the *)
(* next call, which is a SendCall of its own.                               *)
ReceiveCall(m, i) ==
    /\ Receive(m, i, "call")
    /\ phase' = Completed(m, i)
    /\ reqs' = Unlinked(m, i)
    /\ UNCHANGED <<svcVars, reqTid, devVars, up, held, lapped>>

(* uqmid_modem_version_cb: uqmi_service_find_or_init for every service the  *)
(* modem lists.                                                             *)
ReceiveVersion(m, i) ==
    /\ Receive(m, i, "version")
    /\ phase' = Completed(m, i)
    /\ reqs' = Unlinked(m, i)
    /\ LET created == {s \in m.offered : state[s] = "NONE"}
       IN  /\ state' = [s \in AllServices |-> IF s \in created THEN "IDLE" ELSE state[s]]
           /\ client' = [s \in Services |-> IF s \in created THEN NoCid ELSE client[s]]
           /\ tid' = [s \in AllServices |-> IF s \in created THEN 0 ELSE tid[s]]
    /\ UNCHANGED <<reqTid, devVars, up, held, lapped>>

(* The client ids once the service the answer names is assigned its own.    *)
WrongAssigned(m) == client  \* the id is not stored
Assigned(m) == [client EXCEPT ![m.info.svc] = m.info.cid]

(* uqmi_ctrl_request_clientid_cb and uqmi_service_get_client_id_cb: the     *)
(* service the answer names gets the client id and what its list still      *)
(* holds back is transmitted.  An answer without allocation info reads as   *)
(* service 0, CTL itself, which is ready and holds nothing back.            *)
ReceiveAlloc(m, i) ==
    LET s == m.info.svc
    IN  /\ Receive(m, i, "alloc")
        /\ reqs' = Unlinked(m, i)
        /\ IF m.info = NoInfo \/ state[s] = "NONE"
           THEN /\ phase' = Completed(m, i)
                /\ UNCHANGED <<svcVars, reqTid, up, lapped>>
           ELSE /\ state' = [state EXCEPT ![s] = "READY"]
                /\ client' = Assigned(m)
                /\ \E rank \in WalkOrders(reqs[s], Unsent(s)) :
                      Transmit(s, rank, m.info.cid, Completed(m, i))
        /\ UNCHANGED <<devVars, held>>

(* Mistakes: only what was transmitted is freed; a freed service stays.     *)
WrongFreedPhase(S, ph) ==
    [q \in Request |-> IF To(q) \in S /\ ph[q] = "pending" THEN "freed" ELSE ph[q]]
WrongFreedState(S) == [s \in AllServices |-> IF s \in S THEN "IDLE" ELSE state[s]]

(* What freeing the services S does: their objects go, and with them every  *)
(* request still on their lists, whose callbacks are never called.          *)
FreedPhase(S, ph) ==
    [q \in Request |-> IF To(q) \in S /\ ph[q] \in {"queued", "pending"}
                       THEN "freed" ELSE ph[q]]
FreedState(S) == [s \in AllServices |-> IF s \in S THEN "NONE" ELSE state[s]]

WrongOnlyCtrlLeft == \A s \in AllServices : state[s] = "NONE"  \* CTL forgotten
OnlyCtrlLeft == \A s \in Services : state[s] = "NONE"

(* Mistake: an error answer to a release is taken for a confirmation.       *)
WrongReceiveRelease(m, i) ==
    /\ Receive(m, i, "release")
    /\ phase' = FreedPhase({m.req.of}, Completed(m, i))
    /\ reqs' = [Unlinked(m, i) EXCEPT ![m.req.of] = <<>>]
    /\ state' = FreedState({m.req.of})
    /\ shutdown' = IF dev = "STOPPING" /\ OnlyCtrlLeft' THEN "now" ELSE shutdown
    /\ UNCHANGED <<client, tid, reqTid, dev, open, freed, up, held, lapped>>

(* uqmi_ctrl_release_clientid_cb: an answer without release info is         *)
(* ignored; otherwise uqmi_service_close_cb frees the service and, once     *)
(* only CTL is left of a device that is stopping, the device closes now.    *)
ReceiveRelease(m, i) ==
    LET s == m.info.svc
    IN  /\ Receive(m, i, "release")
        /\ IF m.info = NoInfo \/ state[s] = "NONE"
           THEN /\ phase' = Completed(m, i)
                /\ reqs' = Unlinked(m, i)
                /\ UNCHANGED <<state, shutdown>>
           ELSE /\ phase' = FreedPhase({s}, Completed(m, i))
                /\ reqs' = [Unlinked(m, i) EXCEPT ![s] = <<>>]
                /\ state' = FreedState({s})
                /\ shutdown' = IF dev = "STOPPING" /\ OnlyCtrlLeft' THEN "now" ELSE shutdown
        /\ UNCHANGED <<client, tid, reqTid, dev, open, freed, up, held, lapped>>

-----------------------------------------------------------------------------
(* Closing the device.                                                       *)

(* qmi_device_close with a timeout, from modem_st_destroy_onenter: services *)
(* without a client id are freed at once, the others have a release sent    *)
(* for them one after the other, in the order of the service list.  The     *)
(* shutdown timer is set last, to its full length, whatever is left.        *)
DeviceClose ==
    LET ready   == {s \in Services : state[s] = "READY"}
        unready == {s \in Services : state[s] \in {"IDLE", "WAIT_CID"}}
        batch   == {Release(s) : s \in ready}
    IN  /\ ~freed /\ open
        /\ dev = "RUNNING"
        /\ dev' = "STOPPING"
        /\ shutdown' = "later"
        /\ state' = FreedState(unready)
        /\ \E rank \in PushOrders(batch) :
              /\ reqs' = [s \in AllServices |->
                            IF s = CTL THEN Pushed(rank) \o reqs[CTL]
                            ELSE IF s \in unready THEN <<>> ELSE reqs[s]]
              /\ Transmit(CTL, rank, NoCid, FreedPhase(unready, phase))
        /\ UNCHANGED <<client, answer, open, freed, down, held>>

(* Mistake: the closing callback is not called, and the modem not freed.    *)
WrongCloseCallback ==
    /\ state' = FreedState(AllServices)
    /\ reqs' = [s \in AllServices |-> <<>>]
    /\ phase' = FreedPhase(AllServices, phase)
    /\ open' = FALSE /\ shutdown' = "off" /\ freed' = FALSE

(* qmi_device_close_cb: every service is freed, CTL too, and the file       *)
(* descriptor closed; closing_cb or modem_error_cb then frees the modem.    *)
CloseCallback ==
    /\ state' = FreedState(AllServices)
    /\ reqs' = [s \in AllServices |-> <<>>]
    /\ phase' = FreedPhase(AllServices, phase)
    /\ open' = FALSE
    /\ shutdown' = "off"
    /\ freed' = TRUE

(* The shutdown timer runs out, after timeout_ms or at once.                *)
ShutdownFires ==
    /\ ~freed
    /\ shutdown # "off"
    /\ CloseCallback
    /\ UNCHANGED <<client, tid, reqTid, answer, dev, modemVars, lapped>>

(* qmi_notify_state reports end of file or a write error, and               *)
(* modem_error_cb calls qmi_device_close, which closes the device unless it *)
(* is stopping already, and frees the modem.                                *)
ConnectionDies ==
    /\ ~freed /\ open
    /\ IF dev = "RUNNING"
       THEN /\ dev' = "STOPPING"
            /\ CloseCallback
       ELSE /\ freed' = TRUE
            /\ UNCHANGED <<state, reqs, phase, dev, open, shutdown>>
    /\ UNCHANGED <<client, tid, reqTid, answer, modemVars, lapped>>

-----------------------------------------------------------------------------
(* The modem (external).                                                     *)

Answer(m, info, offered) ==
    /\ open
    /\ up' = up \ {m}
    /\ down' = down \cup {[svc |-> m.svc, tid |-> m.tid, req |-> m.req,
                           info |-> info, offered |-> offered]}
    /\ UNCHANGED <<svcVars, reqVars, devVars, lapped>>

(* A call is answered, with success or with an error status.               *)
ModemAnswersCall(m) ==
    /\ m \in up /\ m.req.op = "call"
    /\ Answer(m, NoInfo, {})
    /\ UNCHANGED held

(* The version list names some of the services.                            *)
ModemListsServices(m) ==
    /\ m \in up /\ m.req.op = "version"
    /\ \E offered \in SUBSET Services : Answer(m, NoInfo, offered)
    /\ UNCHANGED held

ModemAllocates(m) ==
    /\ m \in up /\ m.req.op = "alloc"
    /\ \E c \in Cids \ held[m.req.of] :
          /\ held' = [held EXCEPT ![m.req.of] = @ \cup {c}]
          /\ Answer(m, [svc |-> m.req.of, cid |-> c], {})

ModemReleases(m) ==
    /\ m \in up /\ m.req.op = "release"
    /\ m.cid \in held[m.req.of]
    /\ held' = [held EXCEPT ![m.req.of] = @ \ {m.cid}]
    /\ Answer(m, [svc |-> m.req.of, cid |-> m.cid], {})

(* An allocation or a release is answered with an error status.            *)
ModemRefuses(m) ==
    /\ Lossy
    /\ m \in up /\ m.req.op \in {"alloc", "release"}
    /\ Answer(m, NoInfo, {})
    /\ UNCHANGED held

(* A request is never answered; the daemon has no timer for one.           *)
ModemIgnores(m) ==
    /\ Lossy /\ open
    /\ m \in up
    /\ up' = up \ {m}
    /\ UNCHANGED <<svcVars, reqVars, devVars, down, held, lapped>>

-----------------------------------------------------------------------------

Receiving ==
    \E m \in down :
        \/ DiscardMessage(m)
        \/ \E i \in Positions(reqs[m.svc]) :
              \/ ReceiveCall(m, i)
              \/ ReceiveVersion(m, i)
              \/ ReceiveAlloc(m, i)
              \/ ReceiveRelease(m, i)

Modem ==
    \E m \in up :
        \/ ModemAnswersCall(m)
        \/ ModemListsServices(m)
        \/ ModemAllocates(m)
        \/ ModemReleases(m)
        \/ ModemRefuses(m)
        \/ ModemIgnores(m)

Next ==
    \/ \E c \in Calls : SendCall(c)
    \/ SendVersion
    \/ Receiving
    \/ DeviceClose
    \/ ShutdownFires
    \/ ConnectionDies
    \/ Modem

Spec == Init /\ [][Next]_vars

(* uloop runs a timer that has expired, and hands over what was read.  The  *)
(* modem's own fairness is an assumption about it, for the runs that ask    *)
(* what a modem that answers gets from the daemon.                          *)
DaemonFairness == WF_vars(ShutdownFires) /\ WF_vars(Receiving)
ModemFairness == WF_vars(Modem)

FairSpec == Spec /\ DaemonFairness
ServedSpec == FairSpec /\ ModemFairness

-----------------------------------------------------------------------------
(* Safety.                                                                   *)

Waiting(s) == {q \in Request : To(q) = s /\ phase[q] \in {"queued", "pending"}}

(* The sequence lists every element of S once, and nothing else.            *)
ListsExactly(list, S) ==
    /\ \A i \in Positions(list) : list[i] \in S
    /\ \A x \in S : Contains(list, x)
    /\ IsInjective(list)

(* The request list of a service is exactly its unanswered requests, each   *)
(* once, and only a service that exists has any: freeing a service, an      *)
(* answer, or a request issued from any state of the service neither loses  *)
(* nor leaves behind a request (services.c:187-230, ddev.c:24-49).          *)
ListsAreExact ==
    \A s \in AllServices :
        /\ ListsExactly(reqs[s], Waiting(s))
        /\ state[s] = "NONE" => reqs[s] = <<>>

(* No request is stranded behind its service's state: an idle service has   *)
(* none, and a ready one has transmitted them all; while a service waits    *)
(* for its client id its allocation is pending, unless the modem refused    *)
(* it or never answers (services.c:136-198, ctrl.c:11-26).                  *)
NoneStranded ==
    \A s \in Services :
        /\ state[s] = "IDLE" => reqs[s] = <<>> /\ phase[Alloc(s)] = "new"
        /\ state[s] = "READY" => \A q \in Request : To(q) = s => phase[q] # "queued"
        /\ state[s] = "WAIT_CID" => \/ phase[Alloc(s)] = "pending"
                                    \/ phase[Alloc(s)] = "complete" /\ (Lossy \/ lapped)

(* An answer completes the request it answers and no other, as long as no   *)
(* service's tid counter has come round to a request still unanswered       *)
(* (services.c:75-121, ddev.c:92-99).                                       *)
AnswersReachTheirRequest ==
    lapped \/ \A q \in Request : answer[q] \subseteq {q}

(* A transaction id is shared only after its service has transmitted more   *)
(* requests than it has ids: the counter uses every id before any comes     *)
(* back (services.c:75-86).                                                 *)
TidsSharedOnlyAfterWrap ==
    lapped => \E s \in AllServices :
                 Cardinality({q \in Request : To(q) = s /\ reqTid[q] # 0}) > TidMax[s]

(* No request is transmitted a second time, however often the list it is on *)
(* is walked, and none is called back or freed twice (services.c:88-134,    *)
(* ddev.c:24-49).                                                           *)
RequestsMoveForward ==
    [][\A q \in Request :
          /\ phase[q] \notin {"new", "queued"} => reqTid'[q] = reqTid[q]
          /\ phase[q] \in {"complete", "freed"} => phase'[q] = phase[q]]_vars

(* A ready service works under a client id the modem holds for it, until    *)
(* its release is sent (ctrl.c:11-26, 66-83, services.c:136-144).           *)
ReadyServiceOwnsItsCid ==
    \A s \in Services :
        state[s] = "READY" /\ phase[Release(s)] = "new" /\ ~lapped => client[s] \in held[s]

(* A service whose release the modem has confirmed leaves no client id      *)
(* behind in the modem (ctrl.c:45-64).                                      *)
ReleasedServiceHoldsNoCid ==
    \A s \in Services :
        phase[Release(s)] = "complete" /\ state[s] = "NONE" /\ open /\ ~lapped => held[s] = {}

(* A device that is stopping always has its timer running, and once a       *)
(* confirmed release leaves only CTL it closes without waiting out the      *)
(* timeout (ddev.c:203-238).                                                *)
StoppingDeviceWillClose ==
    dev = "STOPPING" /\ open =>
        /\ shutdown # "off"
        /\ /\ \A s \in Services : state[s] = "NONE"
           /\ \E s \in Services : phase[Release(s)] # "new"
           => shutdown = "now"

-----------------------------------------------------------------------------
(* What the layer promises its callers.                                      *)

StageOf(c) ==
    CASE phase[Call(c)] = "new" -> "new"
      [] phase[Call(c)] = "queued" -> "waiting"
      [] phase[Call(c)] = "pending" -> "sent"
      [] phase[Call(c)] = "complete" -> "answered"
      [] phase[Call(c)] = "freed" -> "dropped"

CallsIn(messages) == {c \in Calls : \E m \in messages : m.req = Call(c)}

Promise ==
    INSTANCE QmiPromise WITH
        present <- {s \in AllServices : state[s] # "NONE"},
        listed  <- phase[Version] = "complete",
        stage   <- [c \in Calls |-> StageOf(c)],
        wire    <- CallsIn(up),
        replies <- CallsIn(down)

(* The layer implements QmiPromise: behind lists, transaction ids and       *)
(* client ids, a call is sent once, answered by its own answer or dropped   *)
(* with its service, as long as no tid counter comes round to a request     *)
(* still unanswered (services.c:88-230, ctrl.c:11-92, ddev.c:24-238).       *)
KeepsPromise == Promise!Spec

-----------------------------------------------------------------------------
(* The inductive invariant the proofs rest on.                               *)

(* Which requests can exist in which stage of the device's life.            *)
LifeStages ==
    /\ open => state[CTL] = "READY"
    /\ ~open => \A s \in AllServices : state[s] = "NONE"
    /\ dev = "RUNNING" => \A s \in Services : phase[Release(s)] = "new"
    /\ phase[Version] \in {"new", "pending"} =>
          \A s \in Services :
              /\ state[s] = "NONE" /\ phase[Alloc(s)] = "new"
              /\ \A q \in Request : To(q) = s => phase[q] = "new"
    /\ \A q \in Request :
          /\ phase[q] = "freed" => state[To(q)] = "NONE"
          /\ phase[q] = "queued" => q.op = "call" /\ state[To(q)] = "WAIT_CID"

(* Every message in flight belongs to one request, which is waiting for it  *)
(* under the message's transaction id unless its service was freed.         *)
MessagesMatch ==
    /\ ~TidCollision
    /\ \A m \in up \cup down :
          /\ m.svc = To(m.req)
          /\ \/ phase[m.req] = "pending" /\ reqTid[m.req] = m.tid
             \/ phase[m.req] = "freed"
    /\ \A m, n \in up \cup down : m.req = n.req => m = n

(* What an answer says about a client id is what the modem did.             *)
AnswersAreTrue ==
    \A m \in down :
        m.req.op = "alloc" =>
            \/ Lossy /\ m.info = NoInfo
            \/ /\ m.info.svc = m.req.of
               /\ phase[Release(m.req.of)] = "new" => m.info.cid \in held[m.req.of]

Inductive ==
    /\ TypeOK
    /\ ListsAreExact
    /\ LifeStages
    /\ NoneStranded
    /\ lapped \/ (MessagesMatch /\ AnswersAreTrue)
    /\ AnswersReachTheirRequest
    /\ ReadyServiceOwnsItsCid

-----------------------------------------------------------------------------
(* What the comments of the code say and the code does not do.              *)

(* "Modem connection died! Closing modem." (ddev.c:141): when the daemon    *)
(* forgets a modem its file descriptor is closed and no timer is left       *)
(* running for it.                                                          *)
ForgottenModemIsClosed == freed => ~open /\ shutdown = "off"

-----------------------------------------------------------------------------
(* Liveness.                                                                 *)

(* A device that starts closing gets closed, however the modem behaves      *)
(* (ddev.c:212-238).                                                        *)
ClosingEnds == dev = "STOPPING" ~> freed

(* With a modem that answers what it is sent, every call issued is answered *)
(* unless the device closes: no order of allocations, answers and further   *)
(* calls leaves one waiting (services.c:123-198).                           *)
CallsAreAnswered ==
    \A c \in Calls : phase[Call(c)] \in {"queued", "pending"} ~>
                        (phase[Call(c)] \in {"complete", "freed"} \/ freed)

=============================================================================
