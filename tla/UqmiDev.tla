-------------------------------- MODULE UqmiDev --------------------------------
(***************************************************************************)
(* The command line tool uqmi (uqmi/uqmi.c, commands.c, dev.c): a process   *)
(* that opens the device, runs the commands of its command line one after   *)
(* the other, releases the client ids it need not keep and exits.  Every    *)
(* request is waited for in an event loop of its own before anything else   *)
(* is sent, so at most one is on the list of pending requests.              *)
(*                                                                         *)
(* What an invocation leaves behind outlives it: the client ids the modem   *)
(* holds, requests not yet answered and answers not yet read, which the     *)
(* next invocation, counting its transaction ids from 1 again, may take     *)
(* for its own.  The modem and the character device are external.           *)
(***************************************************************************)
EXTENDS Integers, Sequences, FiniteSets, FiniteSetsExt

CONSTANTS
    Services,     \* the QMI services, as their places in qmi_services
    Invocations,  \* the command lines uqmi may be called with
    Cids,         \* the client ids the modem hands out
    CtlTids,      \* the number of transaction ids of CTL: 256
    ServiceTids,  \* ... and of another service: 65536
    MaxRuns,      \* (bound) how often uqmi is called
    MaxFaults     \* (bound) how many signals, reboots, refusals and deaths there are

CTL == 0

ASSUME ServicesAssumption == Services \subseteq Nat \ {CTL} /\ IsFiniteSet(Services)
ASSUME CidsAssumption == Cids \subseteq 1 .. 254
ASSUME TidsAssumption == CtlTids \in Nat \ {0} /\ ServiceTids \in Nat \ {0}
ASSUME BoundsAssumption == MaxRuns \in Nat /\ MaxFaults \in Nat

(* A command as the request layer sees it: handled in the pass over the     *)
(* options or in the one over the commands, for a service that is connected *)
(* first unless it is CTL or an option; what its prepare does; for          *)
(* --set-client-id the id given.  Client ids are those of named services,   *)
(* of which CTL is none; SYNC is a command of CTL.                          *)
Command == {c \in [type : {"option", "command"}, svc : Services \cup {CTL},
                   does : {"request", "sync", "get_client_id", "set_client_id", "done", "exit"},
                   id : Nat] :
               /\ c.does \in {"get_client_id", "set_client_id"} => c.svc # CTL
               /\ c.does = "sync" => c.svc = CTL}

(* A command line: its commands, --keep-client-id, --release-client-id, and *)
(* whether --timeout is given.                                              *)
Invocation == [cmds : Seq(Command), keep : SUBSET Services, release : SUBSET Services,
               timeout : BOOLEAN]

ASSUME InvocationsAssumption == Invocations \subseteq Invocation

VARIABLES
    pc,        \* off: no process; main: on its way to the next request;
               \* loop: in uloop_run, waiting for one
    pass,      \* over the options, over the commands, or closing
    at,        \* the next command to look at in this pass
    inv,       \* the command line
    req,       \* the last request started
    service_connected, service_keep_cid, service_release_cid,
    client_id, tid,  \* the fields of service_data
    ctl_tid,   \* the next transaction id of CTL
    timer,     \* is request_timeout pending?
    runs, faults,  \* how many there were
    up, down,  \* the messages in flight to and from the modem
    held,      \* per service: the client ids the modem considers in use
    dead,      \* has the modem stopped answering?
    sent,      \* history: how many requests this run has started
    before,    \* history: held when the run began and not forgotten since
    abandoned, \* history: the requests given up before they were answered
    taken,     \* history: which request was completed by the answer to which other one
    stale,     \* history: was CTL still to answer, or an answer of its to be read, when
               \* the run began?
    lost,      \* history: the requests to CTL this run has given up
    refused,   \* history: the services whose release was refused in this run
    forgot     \* history: has the modem forgotten its client ids in this run?

serviceVars == <<service_connected, service_keep_cid, service_release_cid, client_id, tid>>
flowVars == <<pc, pass, at>>
boundVars == <<runs, faults>>
modemVars == <<up, down, held, dead>>
givenUpVars == <<abandoned, lost>>
forgetVars == <<before, refused, forgot>>
historyVars == <<sent, givenUpVars, forgetVars, taken, stale>>
vars == <<flowVars, inv, req, serviceVars, ctl_tid, timer, boundVars, modemVars, historyVars>>

(* Requests are told apart by the run they belong to and their number in it. *)
RequestId == Nat \X Nat
Purpose == {"connect", "command", "sync", "release"}
NoRequest == [id |-> <<0, 0>>, svc |-> CTL, tid |-> 0, for |-> "command", of |-> CTL,
              cid |-> 0]
RequestRecord == [id : RequestId, svc : Services \cup {CTL}, tid : Nat, for : Purpose,
                  of : Services \cup {CTL}, cid : 0 .. 255]

(* The answer to a request, or the indication that the modem has rebooted.  *)
SyncIndication == [kind |-> "sync", of |-> NoRequest, ok |-> TRUE, cid |-> 0]
Message == [kind : {"answer"}, of : RequestRecord, ok : BOOLEAN, cid : 0 .. 255]
              \cup {SyncIndication}

TypeOK ==
    /\ pc \in {"off", "main", "loop"}
    /\ pass \in {"options", "commands", "closing"}
    /\ at \in Nat \ {0}
    /\ inv \in Invocation
    /\ req \in RequestRecord
    /\ service_connected \subseteq Services
    /\ service_keep_cid \subseteq Services
    /\ service_release_cid \subseteq Services
    /\ client_id \in [Services -> 0 .. 255]
    /\ tid \in [Services -> Nat]
    /\ ctl_tid \in Nat
    /\ timer \in BOOLEAN
    /\ runs \in Nat /\ faults \in Nat
    /\ up \subseteq RequestRecord
    /\ down \subseteq Message
    /\ held \in [Services -> SUBSET Cids]
    /\ dead \in BOOLEAN
    /\ sent \in Nat
    /\ before \in [Services -> SUBSET Cids]
    /\ abandoned \subseteq RequestId
    /\ taken \subseteq RequestId \X RequestId
    /\ stale \in BOOLEAN
    /\ lost \subseteq RequestRecord
    /\ refused \subseteq Services
    /\ forgot \in BOOLEAN

Idle == [cmds |-> <<>>, keep |-> {}, release |-> {}, timeout |-> FALSE]

(* No process yet, and a modem that holds no client id.                     *)
Init ==
    /\ pc = "off" /\ pass = "closing" /\ at = 1
    /\ inv = Idle
    /\ req = NoRequest
    /\ service_connected = {} /\ service_keep_cid = {} /\ service_release_cid = {}
    /\ client_id = [s \in Services |-> 0]
    /\ tid = [s \in Services |-> 0]
    /\ ctl_tid = 1
    /\ timer = FALSE
    /\ runs = 0 /\ faults = 0
    /\ up = {} /\ down = {}
    /\ held = [s \in Services |-> {}]
    /\ dead = FALSE
    /\ sent = 0
    /\ before = held
    /\ abandoned = {} /\ taken = {}
    /\ stale = FALSE /\ lost = {} /\ refused = {} /\ forgot = FALSE

-----------------------------------------------------------------------------
(* Starting.                                                                 *)

(* A new process: nothing connected, nothing sent.                          *)
Fresh(keep, release) ==
    /\ at' = 1
    /\ req' = NoRequest
    /\ service_connected' = {}
    /\ service_keep_cid' = keep
    /\ service_release_cid' = release
    /\ client_id' = [s \in Services |-> 0]
    /\ tid' = [s \in Services |-> 0]
    /\ ctl_tid' = 1
    /\ sent' = 0

Fault == faults < MaxFaults /\ faults' = faults + 1

CtlInFlight ==
    \/ \E r \in up : r.svc = CTL
    \/ \E m \in down : m.kind = "answer" /\ m.of.svc = CTL

(* main: the options -k, -r and -t are acted on while the command line is   *)
(* parsed, the commands kept for later; then the device is opened.          *)
Start(i) ==
    /\ pc = "off"
    /\ runs < MaxRuns
    /\ runs' = runs + 1
    /\ pc' = "main" /\ pass' = "options"
    /\ inv' = i
    /\ Fresh(i.keep, i.release)
    /\ timer' = i.timeout
    /\ before' = held
    /\ stale' = CtlInFlight
    /\ lost' = {} /\ refused' = {} /\ forgot' = FALSE
    /\ UNCHANGED <<faults, modemVars, abandoned, taken>>

-----------------------------------------------------------------------------
(* Requests.                                                                 *)

(* qmi_request_start, for a purpose that concerns service s and client id   *)
(* c: the next transaction id of the service it is sent to is used and      *)
(* stepped on, and the message written.  Then qmi_request_wait enters the   *)
(* loop.                                                                    *)
Starting(purpose, s, c) ==
    LET to == IF purpose = "command" THEN s ELSE CTL
        r  == [id |-> <<runs, sent + 1>>, svc |-> to,
               tid |-> IF to = CTL THEN ctl_tid ELSE tid[to],
               for |-> purpose, of |-> s, cid |-> c]
    IN  /\ pc' = "loop"
        /\ req' = r
        /\ up' = IF dead THEN up ELSE up \cup {r}
        /\ sent' = sent + 1

(* Mistake: the counter is not stepped on.                                  *)
WrongNextCtlTid == ctl_tid
NextCtlTid == (ctl_tid + 1) % CtlTids
NextTid(s) == [tid EXCEPT ![s] = (@ + 1) % ServiceTids]

-----------------------------------------------------------------------------
(* Commands.                                                                 *)

(* The commands this pass has yet to handle; the others are skipped.        *)
ToDo == {j \in DOMAIN inv.cmds : j >= at /\ (inv.cmds[j].type = "option") = (pass = "options")}

WrongNeedsConnection(c) == c.svc # CTL /\ c.type = "command"  \* allocates again
NeedsConnection(c) ==
    /\ c.svc # CTL
    /\ c.does # "set_client_id"
    /\ c.svc \notin service_connected

(* qmi_service_connect with a negative id: one is allocated, and the        *)
(* command looked at again when it is there.                                *)
Connect(j) ==
    /\ NeedsConnection(inv.cmds[j])
    /\ Starting("connect", inv.cmds[j].svc, 0)
    /\ ctl_tid' = NextCtlTid
    /\ at' = j
    /\ UNCHANGED <<pass, serviceVars>>

(* The command's prepare has built a request.                               *)
SendCommand(j) ==
    LET c == inv.cmds[j] IN
    /\ ~NeedsConnection(c)
    /\ c.does = "request" /\ c.svc # CTL
    /\ Starting("command", c.svc, client_id[c.svc])
    /\ tid' = NextTid(c.svc)
    /\ at' = j + 1
    /\ UNCHANGED <<pass, service_connected, service_keep_cid, service_release_cid,
                   client_id, ctl_tid>>

(* --get-versions and --sync are requests to CTL.                           *)
SendCtl(j) ==
    LET c == inv.cmds[j] IN
    /\ c.svc = CTL
    /\ c.does \in {"request", "sync"}
    /\ Starting(IF c.does = "sync" THEN "sync" ELSE "command", CTL, 0)
    /\ ctl_tid' = NextCtlTid
    /\ at' = j + 1
    /\ UNCHANGED <<pass, serviceVars>>

WrongStored(id) == id
Stored(id) == id % 256

(* --get-client-id, --set-client-id, and any command whose prepare sends    *)
(* nothing.  A service that is connected already keeps the id it has; a     *)
(* given id is stored in eight bits.                                        *)
NoSending(j) ==
    LET c == inv.cmds[j]
        s == c.svc
    IN  /\ ~NeedsConnection(c)
        /\ c.does \in {"get_client_id", "set_client_id", "done"}
        /\ IF c.does = "set_client_id" /\ s \notin service_connected
           THEN /\ service_connected' = service_connected \cup {s}
                /\ client_id' = [client_id EXCEPT ![s] = Stored(c.id)]
                /\ tid' = [tid EXCEPT ![s] = 1]
           ELSE UNCHANGED <<service_connected, client_id, tid>>
        /\ service_keep_cid' =
              IF \/ c.does = "get_client_id"
                 \/ c.does = "set_client_id" /\ s \notin service_connected
              THEN service_keep_cid \cup {s} ELSE service_keep_cid
        /\ at' = j + 1
        /\ UNCHANGED <<pc, pass, req, up, sent, service_release_cid, ctl_tid>>

(* The prepare refuses its argument: nothing further is run.                *)
Refuse(j) ==
    /\ ~NeedsConnection(inv.cmds[j])
    /\ inv.cmds[j].does = "exit"
    /\ pass' = "closing"
    /\ UNCHANGED <<pc, at, req, up, sent, serviceVars, ctl_tid>>

(* __uqmi_run_commands, one turn of its loop.                               *)
RunCommand ==
    /\ pc = "main"
    /\ pass # "closing"
    /\ ToDo # {}
    /\ LET j == Min(ToDo)
       IN  Connect(j) \/ SendCommand(j) \/ SendCtl(j) \/ NoSending(j) \/ Refuse(j)
    /\ UNCHANGED <<inv, timer, boundVars, down, held, dead, givenUpVars, forgetVars, taken,
                   stale>>

(* uqmi_run_commands: the options first, then the commands.                 *)
EndPass ==
    /\ pc = "main"
    /\ pass # "closing"
    /\ ToDo = {}
    /\ pass' = IF pass = "options" THEN "commands" ELSE "closing"
    /\ at' = 1
    /\ UNCHANGED <<pc, inv, req, serviceVars, ctl_tid, timer, boundVars, modemVars,
                   historyVars>>

-----------------------------------------------------------------------------
(* Closing.                                                                  *)

Kept == service_keep_cid \ service_release_cid

(* qmi_close_all_services: __qmi_service_disconnect for the first service   *)
(* connected that is not kept; its release is waited for like any request.  *)
ReleaseNext ==
    /\ pc = "main"
    /\ pass = "closing"
    /\ service_connected \ Kept # {}
    /\ LET s == Min(service_connected \ Kept)
       IN  /\ Starting("release", s, client_id[s])
           /\ service_connected' = service_connected \ {s}
           /\ client_id' = [client_id EXCEPT ![s] = 255]
           /\ tid' = [tid EXCEPT ![s] = 0]
    /\ ctl_tid' = NextCtlTid
    /\ UNCHANGED <<pass, at, inv, service_keep_cid, service_release_cid, timer, boundVars,
                   down, held, dead, givenUpVars, forgetVars, taken, stale>>

(* The rest of qmi_device_close, and of main: the process is gone.          *)
Exit ==
    /\ pc = "main"
    /\ pass = "closing"
    /\ service_connected \subseteq Kept
    /\ pc' = "off"
    /\ Fresh({}, {})
    /\ timer' = FALSE
    /\ UNCHANGED <<pass, inv, boundVars, modemVars, givenUpVars, forgetVars, taken, stale>>

-----------------------------------------------------------------------------
(* The event loop.                                                           *)

WrongFailed(purpose) == FALSE  \* the error is not looked at
Failed(purpose) == purpose # "release"

(* The pending request is given up; what CTL does of it, is not learnt.     *)
GiveUp ==
    /\ abandoned' = abandoned \cup {req.id}
    /\ lost' = IF req.svc = CTL THEN lost \cup {req} ELSE lost

(* Mistake: a run that failed leaves at once, and releases nothing.         *)
WrongCompleteBadly ==
    /\ pc' = "main"
    /\ pass' = IF Failed(req.for) THEN "closing" ELSE pass
    /\ service_connected' = IF Failed(req.for) THEN {} ELSE service_connected
    /\ UNCHANGED <<at, inv, req, service_keep_cid, service_release_cid, client_id, tid,
                   ctl_tid>>

(* The request is completed without success: a command, or the connection   *)
(* it needs, ends the run; a release does not end the closing.              *)
CompleteBadly ==
    /\ pc' = "main"
    /\ pass' = IF Failed(req.for) THEN "closing" ELSE pass
    /\ UNCHANGED <<at, inv, req, serviceVars, ctl_tid>>

(* The request is completed by an answer: qmi_connect_service_cb and the    *)
(* rest of qmi_service_connect store the client id it names, whatever       *)
(* service the answer names; other callbacks only print.                    *)
WrongCompleteWell(c) ==  \* the id is not stored
    /\ pc' = "main"
    /\ IF req.for = "connect"
       THEN service_connected' = service_connected \cup {req.of}
       ELSE UNCHANGED service_connected
    /\ UNCHANGED <<pass, at, inv, req, service_keep_cid, service_release_cid, client_id, tid,
                   ctl_tid>>

CompleteWell(c) ==
    /\ pc' = "main"
    /\ IF req.for = "connect"
       THEN /\ service_connected' = service_connected \cup {req.of}
            /\ client_id' = [client_id EXCEPT ![req.of] = c]
            /\ tid' = [tid EXCEPT ![req.of] = 1]
       ELSE UNCHANGED <<service_connected, client_id, tid>>
    /\ UNCHANGED <<pass, at, inv, req, service_keep_cid, service_release_cid, ctl_tid>>

WrongMatches(m) == m.of.svc = req.svc  \* any answer of the service
Matches(m) == m.of.svc = req.svc /\ m.of.tid = req.tid

(* qmi_process_msg: an answer completes the pending request if service and  *)
(* transaction id agree; the client id is not compared.                     *)
ReceiveAnswer(m) ==
    /\ pc = "loop"
    /\ m \in down /\ m.kind = "answer"
    /\ Matches(m)
    /\ down' = down \ {m}
    /\ IF m.of.id = req.id
       THEN UNCHANGED <<taken, givenUpVars>>
       ELSE taken' = taken \cup {<<req.id, m.of.id>>} /\ GiveUp
    /\ IF m.ok THEN CompleteWell(m.cid) ELSE CompleteBadly
    /\ UNCHANGED <<timer, boundVars, up, held, dead, sent, forgetVars, stale>>

DiscardAnswer(m) ==
    /\ pc = "loop"
    /\ m \in down /\ m.kind = "answer"
    /\ ~Matches(m)
    /\ down' = down \ {m}
    /\ UNCHANGED <<flowVars, inv, req, serviceVars, ctl_tid, timer, boundVars, up, held, dead,
                   historyVars>>

(* Mistake: the indication is dropped like any other.                       *)
WrongReceiveSync(m) ==
    /\ pc = "loop"
    /\ m \in down /\ m.kind = "sync"
    /\ down' = down \ {m}
    /\ UNCHANGED <<flowVars, inv, req, serviceVars, ctl_tid, timer, boundVars, up, held, dead,
                   historyVars>>

(* A SYNC indication cancels the pending request.                           *)
ReceiveSync(m) ==
    /\ pc = "loop"
    /\ m \in down /\ m.kind = "sync"
    /\ down' = down \ {m}
    /\ CompleteBadly
    /\ GiveUp
    /\ UNCHANGED <<timer, boundVars, up, held, dead, sent, forgetVars, taken, stale>>

(* _request_timeout_handler runs once, in whichever loop it becomes due; it *)
(* ends the loop, and the request waited for is cancelled.                  *)
TimerFires ==
    /\ pc = "loop"
    /\ timer
    /\ timer' = FALSE
    /\ CompleteBadly
    /\ GiveUp
    /\ UNCHANGED <<boundVars, modemVars, sent, forgetVars, taken, stale>>

(* handle_exit_signal: the same, if the process is in the loop.  Before it  *)
(* is, the flags it sets have no effect: uloop_run clears one when it       *)
(* begins, and the other is looked at only when the loop has ended.         *)
Signal ==
    /\ pc # "off"
    /\ Fault
    /\ IF pc = "loop"
       THEN CompleteBadly /\ GiveUp
       ELSE UNCHANGED <<flowVars, inv, req, serviceVars, ctl_tid, givenUpVars>>
    /\ UNCHANGED <<timer, runs, modemVars, sent, forgetVars, taken, stale>>

-----------------------------------------------------------------------------
(* The modem and the device (external).                                      *)

process == <<flowVars, inv, req, serviceVars, ctl_tid, timer, runs>>

AnswerTo(r, ok, c) == [kind |-> "answer", of |-> r, ok |-> ok, cid |-> c]

Replies(r, ok, c) ==
    /\ up' = up \ {r}
    /\ down' = down \cup {AnswerTo(r, ok, c)}
    /\ UNCHANGED <<process, dead, sent, givenUpVars, taken, stale>>

(* The modem forgets the client ids it holds.                               *)
Forgets ==
    /\ held' = [s \in Services |-> {}]
    /\ before' = [s \in Services |-> {}]
    /\ forgot' = TRUE
    /\ UNCHANGED refused

ModemAllocates(r) ==
    /\ r.for = "connect"
    /\ \E c \in Cids \ held[r.of] :
          /\ held' = [held EXCEPT ![r.of] = @ \cup {c}]
          /\ Replies(r, TRUE, c)
    /\ UNCHANGED <<faults, forgetVars>>

ModemReleases(r) ==
    /\ r.for = "release"
    /\ r.cid \in held[r.of]
    /\ held' = [held EXCEPT ![r.of] = @ \ {r.cid}]
    /\ Replies(r, TRUE, r.cid)
    /\ UNCHANGED <<faults, forgetVars>>

ModemSyncs(r) ==
    /\ r.for = "sync"
    /\ Forgets
    /\ Replies(r, TRUE, 0)
    /\ UNCHANGED faults

ModemAnswers(r) ==
    /\ r.for = "command"
    /\ Replies(r, TRUE, 0)
    /\ UNCHANGED <<held, faults, forgetVars>>

(* An error status, to a release of an id that is not held without fail.    *)
ModemRefuses(r) ==
    /\ IF r.for = "release" /\ r.cid \notin held[r.of] THEN UNCHANGED faults ELSE Fault
    /\ Replies(r, FALSE, 0)
    /\ refused' = IF r.for = "release" /\ r.cid \in held[r.of]
                  THEN refused \cup {r.of} ELSE refused
    /\ UNCHANGED <<held, before, forgot>>

Answering ==
    /\ ~dead
    /\ \E r \in up :
          ModemAllocates(r) \/ ModemReleases(r) \/ ModemSyncs(r) \/ ModemAnswers(r)
             \/ ModemRefuses(r)

(* The modem starts again: it knows no client id and no request of before.  *)
ModemReboots ==
    /\ ~dead
    /\ Fault
    /\ Forgets
    /\ up' = {}
    /\ down' = down \cup {SyncIndication}
    /\ UNCHANGED <<process, dead, sent, givenUpVars, taken, stale>>

(* It hangs, or is unplugged: the tool sees nothing of that.                *)
ModemDies ==
    /\ ~dead
    /\ Fault
    /\ dead' = TRUE
    /\ up' = {}
    /\ UNCHANGED <<process, down, held, historyVars>>

(* What the closed device has not delivered may be dropped.                 *)
DeviceDrops ==
    /\ pc = "off"
    /\ down # {}
    /\ down' = {}
    /\ UNCHANGED <<process, faults, up, held, dead, historyVars>>

-----------------------------------------------------------------------------

Receiving == \E m \in down : ReceiveAnswer(m) \/ DiscardAnswer(m) \/ ReceiveSync(m)

Main == RunCommand \/ EndPass \/ ReleaseNext \/ Exit

Next ==
    \/ \E i \in Invocations : Start(i)
    \/ Main
    \/ Receiving
    \/ TimerFires
    \/ Signal
    \/ Answering
    \/ ModemReboots
    \/ ModemDies
    \/ DeviceDrops

Spec == Init /\ [][Next]_vars

(* The process runs, the loop hands over what has arrived and runs a timer  *)
(* that is due, and a modem that has not died answers.                      *)
FairSpec ==
    /\ Spec
    /\ WF_vars(Main) /\ WF_vars(Receiving) /\ WF_vars(TimerFires)
    /\ WF_vars(Answering)

-----------------------------------------------------------------------------
(* Safety.                                                                   *)

(* A request is completed by its own answer, or by that to a request which  *)
(* an earlier run gave up: that one was sent under the same transaction id, *)
(* since every run counts from 1 (dev.c:140-163, 418).  Within a run no     *)
(* cancelled request has its answer taken for another's.                    *)
AnswersReachTheirRequest ==
    \A p \in taken :
        p[1] # p[2] => p[2] \in abandoned /\ p[2][1] < p[1][1]

(* The user asks for services to be left connected by keeping, getting or   *)
(* setting a client id.                                                     *)
Does(s, what) == \E j \in DOMAIN inv.cmds : inv.cmds[j].svc = s /\ inv.cmds[j].does = what
Claimed(s) == s \in inv.keep \/ Does(s, "get_client_id") \/ Does(s, "set_client_id")

(* A service whose client id a run cannot account for: the request that     *)
(* was to allocate or release it was given up before its answer was read,   *)
(* or the modem refused to release it.                                      *)
Unaccounted(s) == s \in refused \/ \E r \in lost : r.of = s

(* A run leaves no client id behind but those it was asked to keep, however *)
(* it ends: its commands done, one failed, its timer, a signal, the modem   *)
(* started again, even in the middle of its closing.  And it takes none     *)
(* away that it was not asked to release (dev.c:305-397, uqmi.c:84-102).    *)
(* Left out are the client ids whose request was given up or refused, and a *)
(* run to which CTL may still answer what one before it asked.              *)
RunLeavesNoTrace ==
    pc = "off" /\ ~stale =>
        \A s \in Services :
            /\ /\ ~Claimed(s) \/ s \in inv.release
               /\ ~Unaccounted(s)
               => held[s] \subseteq before[s]
            /\ ~(s \in inv.release /\ Does(s, "set_client_id")) => before[s] \subseteq held[s]

(* Commands are sent under a client id the modem has given the tool and     *)
(* still holds, unless the user named another or the modem started again    *)
(* unnoticed (dev.c:207-245, 305-350).                                      *)
SendsUnderItsOwnCid ==
    ~stale /\ ~forgot =>
        \A m \in up :
            /\ m.for = "command" /\ m.svc # CTL
            /\ m.id \notin abandoned
            /\ ~Does(m.svc, "set_client_id")
            => m.cid \in held[m.svc]

(* Once a run has given up a request, for its timer, a signal or the        *)
(* modem's reboot, it only releases client ids (commands.c:228-270).        *)
StopsWhenItGivesUp ==
    \A m \in up :
        (\E a \in abandoned \ {p[1] : p \in taken} : a[1] = m.id[1] /\ a[2] < m.id[2])
            => m.for = "release"

-----------------------------------------------------------------------------
(* Liveness.                                                                 *)

(* With a modem that answers, even if it reboots and forgets what it was    *)
(* asked, every run comes to its end: the SYNC indication is what frees the *)
(* request that will never be answered (dev.c:123-138).                     *)
RunsEnd == pc # "off" ~> (pc = "off" \/ dead)

(* A run with a timeout stops waiting for its commands whatever the modem   *)
(* does (uqmi.c:110-114, dev.c:259-285).                                    *)
TimeoutStopsCommands == (pc # "off" /\ inv.timeout) ~> pass = "closing"

=============================================================================
