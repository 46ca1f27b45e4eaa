---------------------------- MODULE UqmiCids_proofs ----------------------------
(* Proofs about the client ids a run of the tool takes and gives back.       *)
EXTENDS UqmiDev_proofs

-----------------------------------------------------------------------------
(* Client ids.                                                               *)

(* The options of the command line are what closing goes by.                *)
Options ==
    pc # "off" => /\ service_release_cid = inv.release
                  /\ \A s \in service_keep_cid : Claimed(s)

(* A service being released is no longer connected; a command goes out      *)
(* under the id its service has.                                            *)
Purposes ==
    pc = "loop" =>
        /\ req.for = "release" => req.of \notin service_connected
        /\ req.for = "command" /\ req.of # CTL
              => req.of \in service_connected /\ req.cid = client_id[req.of]

Offline == pc = "off" => service_connected = {}

(* Of what was asked of CTL in a run to which nothing of CTL was left,      *)
(* there is in flight what the run waits for, or has given up.              *)
Known ==
    ~stale => \A r \in Flying : r.svc = CTL => r \in lost \/ (pc = "loop" /\ r = req)

(* What bears the number of the request waited for, is it.                  *)
Itself == pc = "loop" => \A r \in Flying : r.id = req.id => r = req

(* A run that has given up a request to CTL is closing, and done with the   *)
(* service that was to be released.                                         *)
LosingEnds ==
    ~stale => /\ lost # {} /\ pc # "off" => pass = "closing"
              /\ \A r \in lost : r.for = "release" => r.of \notin service_connected

(* The allocations for a service that the tool has not read yet, and the    *)
(* client ids of a service in its hands: of a connected service, of one     *)
(* being connected, and of one being released until the modem says so.      *)
Granted(s) == {m \in Answers : m.ok /\ m.of.for = "connect" /\ m.of.of = s}

Releasing(s) == pc = "loop" /\ req.for = "release" /\ req.of = s

InHand(s, c) ==
    \/ s \in service_connected /\ client_id[s] = c
    \/ \E m \in Granted(s) : m.cid = c
    \/ Releasing(s) /\ req.cid = c /\ \A m \in Answers : m.of # req

(* What the modem holds now and did not before is in the tool's hands, or   *)
(* was left by its exit as the user asked, or is not accounted for.         *)
LeftAsAsked(s) == pc = "off" /\ Claimed(s) /\ s \notin inv.release

NothingLeft ==
    ~stale =>
        \A s \in Services : ~Unaccounted(s) =>
            \A c \in held[s] : c \in before[s] \/ InHand(s, c) \/ LeftAsAsked(s)

(* What it held before, it holds, and the tool has nothing of it in hand    *)
(* that it might release, but for an id the user gives and takes back.      *)
Exempt(s) == s \in inv.release /\ Does(s, "set_client_id")

NothingTaken ==
    ~stale =>
        \A s \in Services : ~Exempt(s) =>
            /\ before[s] \subseteq held[s]
            /\ s \in service_connected => client_id[s] \notin before[s] \/ s \in Kept
            /\ \A m \in Granted(s) : m.cid \notin before[s]
            /\ \A r \in up : r.for = "release" /\ r.of = s => r.cid \notin before[s]

(* What the tool connects with, unless the user gave it, the modem holds.   *)
OwnCids ==
    ~stale /\ ~forgot =>
        \A s \in Services :
            /\ s \in service_connected /\ ~Does(s, "set_client_id") => client_id[s] \in held[s]
            /\ \A m \in Granted(s) : m.of \in lost \/ m.cid \in held[s]

Held ==
    /\ Options /\ Purposes /\ Offline /\ Known /\ Itself /\ LosingEnds
    /\ NothingLeft /\ NothingTaken /\ OwnCids

-----------------------------------------------------------------------------
(* Steps, by what they do to client ids.                                     *)

(* The modem serves a request.                                              *)
ModemServes(r) ==
    ModemAllocates(r) \/ ModemReleases(r) \/ ModemAnswers(r) \/ ModemRefuses(r)

(* It forgets every client id.                                              *)
Forgetting ==
    /\ held' = [s \in Services |-> {}] /\ before' = [s \in Services |-> {}]
    /\ forgot' = TRUE
    /\ up' \subseteq up
    /\ \A s : Granted(s)' = Granted(s)
    /\ UNCHANGED <<flowVars, inv, req, serviceVars, stale>>

(* Nothing happens but that messages are lost: answers that do not match,   *)
(* and any while there is no process.                                       *)
Quiet ==
    /\ up' \subseteq up
    /\ Answers' \subseteq Answers
    /\ pc = "loop" => \A m \in Answers \ Answers' : ~Matches(m)
    /\ pc = "main" => Answers' = Answers
    /\ UNCHANGED <<flowVars, inv, req, serviceVars, held, lost, stale>>
    /\ UNCHANGED forgetVars

LEMMA Ways ==
  ASSUME TypeOK, [Next]_vars
  PROVE  \/ \E i \in Invocations : Start(i)
         \/ RunCommand \/ EndPass \/ ReleaseNext \/ Exit
         \/ \E m \in Answers : ReceiveAnswer(m)
         \/ Fails
         \/ \E r \in up : ModemServes(r)
         \/ Forgetting
         \/ Quiet
<1> USE DEF flowVars, serviceVars, boundVars, modemVars, historyVars, givenUpVars, forgetVars,
            process
<1>1. ASSUME NEW m \in down, DiscardAnswer(m) PROVE Quiet
  BY <1>1 DEF DiscardAnswer, Quiet, Answers
<1>2. ASSUME NEW m \in down, ReceiveSync(m) PROVE Fails
  BY <1>2 DEF ReceiveSync, Fails, Answers
<1>3. TimerFires => Fails
  BY DEF TimerFires, Fails, Answers
<1>4. Signal => Fails \/ Quiet
  BY DEF Signal, Fails, Quiet, Answers
<1>5. ASSUME NEW r \in up, ModemSyncs(r) PROVE Forgetting
  <2>1. /\ Replies(r, TRUE, 0) /\ Forgets /\ r.for = "sync"
    BY <1>5 DEF ModemSyncs
  <2> DEFINE n == AnswerTo(r, TRUE, 0)
  <2>2. n.of = r /\ n.kind = "answer"
    BY DEF AnswerTo
  <2>3. down' = down \cup {n} /\ up' = up \ {r}
    BY <2>1 DEF Replies
  <2>4. UNCHANGED <<flowVars, inv, req, serviceVars, stale>>
    BY <2>1 DEF Replies
  <2> HIDE DEF n
  <2>5. Answers' = Answers \cup {n}
    BY <2>2, <2>3 DEF Answers
  <2>6. \A s : Granted(s)' = Granted(s)
    BY <2>1, <2>2, <2>5 DEF Granted
  <2>7. QED
    BY <2>1, <2>3, <2>4, <2>6 DEF Forgetting, Forgets
<1>6. ModemReboots => Forgetting
  <2> SUFFICES ASSUME ModemReboots PROVE Forgetting
    OBVIOUS
  <2>1. Answers' = Answers
    BY DEF ModemReboots, Answers, SyncIndication
  <2>2. QED
    BY <2>1 DEF ModemReboots, Forgets, Forgetting, Granted
<1>7. ASSUME Answering PROVE (\E r \in up : ModemServes(r)) \/ Forgetting
  BY <1>5, <1>7 DEF Answering, ModemServes
<1>8. ModemDies => Quiet
  BY DEF ModemDies, Quiet, Answers
<1>9. DeviceDrops => Quiet
  BY DEF DeviceDrops, Quiet, Answers
<1>10. UNCHANGED vars => Quiet
  BY DEF vars, Quiet, Answers
<1>11. ASSUME NEW m \in down, ReceiveAnswer(m) PROVE m \in Answers
  BY <1>11 DEF ReceiveAnswer, Answers
<1>12. QED
  BY <1>1, <1>2, <1>3, <1>4, <1>6, <1>7, <1>8, <1>9, <1>10, <1>11, Zenon
     DEF Next, Main, Receiving

(* The options are those of the run's command line, and the ids kept those  *)
(* it claims.                                                               *)
LEMMA OptionsStep ==
  ASSUME TypeOK, Options, [Next]_vars
  PROVE  Options'
<1> USE DEF Options
<1>1. CASE \E i \in Invocations : Start(i)
  <2>1. PICK i \in Invocations : Start(i)
    BY <1>1
  <2>2. inv' = i /\ service_release_cid' = i.release /\ service_keep_cid' = i.keep
    BY <2>1 DEF Start, Fresh
  <2>3. QED
    BY <2>2 DEF Claimed
<1>2. CASE RunCommand
  <2> DEFINE j == Min(ToDo)
             c == inv.cmds[j]
  <2>1. pc = "main" /\ inv' = inv
    BY <1>2, RunCommandCases
  <2>2. CASE NoSending(j)
    <3>1. j \in DOMAIN inv.cmds
      BY <1>2, NextToDo DEF RunCommand
    <3>2. \/ service_keep_cid' = service_keep_cid
          \/ /\ service_keep_cid' = service_keep_cid \cup {c.svc}
             /\ c.does = "get_client_id" \/ c.does = "set_client_id"
      BY <2>2 DEF NoSending
    <3>3. c.does = "get_client_id" \/ c.does = "set_client_id" => Claimed(c.svc)
      BY <3>1, Zenon DEF Claimed, Does
    <3>4. service_release_cid' = service_release_cid /\ \A s : Claimed(s)' = Claimed(s)
      BY <2>1, <2>2 DEF NoSending, Claimed, Does
    <3>5. QED
      BY <2>1, <3>2, <3>3, <3>4
  <2>3. CASE ~NoSending(j)
    <3>1. UNCHANGED <<service_keep_cid, service_release_cid>>
      BY <1>2, <2>3, RunCommandCases DEF Connect, SendCommand, SendCtl, Refuse, serviceVars
    <3>2. QED
      BY <2>1, <3>1 DEF Claimed, Does
  <2>4. QED
    BY <2>2, <2>3
<1>3. CASE ~RunCommand /\ ~(\E i \in Invocations : Start(i)) /\ pc' # "off"
  <2>1. UNCHANGED <<inv, service_keep_cid, service_release_cid>> /\ pc # "off"
    BY <1>3, Steps, ReleaseCases DEF EndPass, Exit, Fails, Serves, ReceiveAnswer,
       CompleteBadly, CompleteWell, flowVars, serviceVars
  <2>2. QED
    BY <2>1 DEF Claimed, Does
<1>4. QED
  BY <1>1, <1>2, <1>3

(* A release is sent for a service that is connected no more, a command     *)
(* under the id of the service.                                             *)
LEMMA PurposesStep ==
  ASSUME TypeOK, Purposes, [Next]_vars
  PROVE  Purposes'
<1> USE DEF Purposes
<1>1. CASE RunCommand
  <2> DEFINE j == Min(ToDo)
             c == inv.cmds[j]
  <2>1. CASE Connect(j)
    BY <1>1, <2>1, RunCommandCases
  <2>2. CASE SendCommand(j)
    <3>1. /\ Starting("command", c.svc, client_id[c.svc]) /\ c.svc \in service_connected
          /\ UNCHANGED <<service_connected, client_id>>
      BY <1>1, <2>2, RunCommandCases DEF SendCommand
    <3>2. req'.for = "command" /\ req'.of = c.svc /\ req'.cid = client_id[c.svc]
      BY <3>1 DEF Starting
    <3>3. QED
      BY <3>1, <3>2
  <2>3. CASE SendCtl(j)
    <3>1. Starting("sync", CTL, 0) \/ Starting("command", CTL, 0)
      BY <2>3 DEF SendCtl
    <3>2. req'.for # "release" /\ req'.of = CTL
      BY <3>1 DEF Starting
    <3>3. QED
      BY <3>2
  <2>4. CASE NoSending(j) \/ Refuse(j)
    <3>1. pc' = "main"
      BY <1>1, <2>4, RunCommandCases DEF NoSending, Refuse
    <3>2. QED
      BY <3>1
  <2>5. QED
    BY <1>1, <2>1, <2>2, <2>3, <2>4, RunCommandCases
<1>2. CASE ReleaseNext
  BY <1>2, ReleaseCases
<1>3. CASE Serves
  BY <1>3 DEF Serves, flowVars, serviceVars
<1>4. CASE ~RunCommand /\ ~ReleaseNext /\ ~Serves
  <2>1. pc' # "loop"
    BY <1>4, Steps DEF Start, EndPass, Exit, Fails, ReceiveAnswer, CompleteBadly, CompleteWell
  <2>2. QED
    BY <2>1
<1>5. QED
  BY <1>1, <1>2, <1>3, <1>4

(* A run that is over has nothing connected.                                *)
LEMMA OfflineStep ==
  ASSUME TypeOK, Offline, [Next]_vars
  PROVE  Offline'
<1> USE DEF Offline
<1>1. CASE RunCommand
  <2>1. pc' # "off"
    BY <1>1, RunCommandCases DEF NoSending, Refuse
  <2>2. QED
    BY <2>1
<1>2. CASE Serves
  BY <1>2 DEF Serves, flowVars, serviceVars
<1>3. CASE ~RunCommand /\ ~Serves
  <2>1. pc' # "off" \/ service_connected' = {}
    BY <1>3, Steps, ReleaseCases DEF Start, EndPass, Exit, Fresh, Fails, ReceiveAnswer,
       CompleteBadly, CompleteWell
  <2>2. QED
    BY <2>1
<1>4. QED
  BY <1>1, <1>2, <1>3

(* A request to CTL leaves the loop with its answer, or is given up.        *)
LEMMA KnownStep ==
  ASSUME TypeOK, Unique, Known, [Next]_vars
  PROVE  Known'
<1> SUFFICES ASSUME ~stale', NEW r \in Flying', r.svc = CTL
             PROVE  r \in lost' \/ (pc' = "loop" /\ r = req')
  BY DEF Known
<1>1. CASE \E i \in Invocations : Start(i)
  <2>1. ~CtlInFlight /\ Flying' = Flying
    BY <1>1, OthersFlying DEF Start
  <2>2. QED
    BY <2>1 DEF CtlInFlight, Flying, Answers
<1>2. CASE Asks
  <2>1. /\ Flying' \subseteq Flying \cup {req'} /\ UNCHANGED <<lost, stale>>
        /\ pc = "main" /\ pc' = "loop"
    BY <1>2, AsksFlying DEF Asks
  <2>2. QED
    BY <2>1 DEF Known
<1>3. CASE Moves
  <2>1. Flying' = Flying /\ UNCHANGED <<lost, stale>> /\ pc = "main"
    BY <1>3, OthersFlying DEF Moves
  <2>2. QED
    BY <2>1 DEF Known
<1>4. CASE Fails
  <2>1. /\ Flying' \subseteq Flying /\ stale' = stale
        /\ lost' = IF req.svc = CTL THEN lost \cup {req} ELSE lost
    BY <1>4, OthersFlying DEF Fails, GiveUp
  <2>2. QED
    BY <2>1 DEF Known
<1>5. CASE Serves
  <2>1. Flying' \subseteq Flying /\ UNCHANGED <<pc, req, lost, stale>>
    BY <1>5, OthersFlying DEF Serves, flowVars
  <2>2. QED
    BY <2>1 DEF Known
<1>6. ASSUME NEW m \in down, ReceiveAnswer(m)
      PROVE  r \in lost' \/ (pc' = "loop" /\ r = req')
  <2>1. /\ up' = up /\ Answers' = Answers \ {m} /\ m \in Answers /\ stale' = stale
        /\ IF m.of.id = req.id
           THEN lost' = lost
           ELSE lost' = IF req.svc = CTL THEN lost \cup {req} ELSE lost
    BY <1>6 DEF ReceiveAnswer, GiveUp, givenUpVars, Answers
  <2>2. r \in Flying /\ (r \in lost \/ r = req)
    BY <2>1 DEF Known, Flying
  <2>3. m.of.id = req.id => r # req
    BY <2>1 DEF Flying, Unique
  <2>4. QED
    BY <2>1, <2>2, <2>3
<1>7. QED
  BY <1>1, <1>2, <1>3, <1>4, <1>5, <1>6, Shapes

LEMMA ItselfStep ==
  ASSUME TypeOK, Ids, Itself, [Next]_vars
  PROVE  Itself'
<1> USE DEF Itself
<1>1. CASE Asks
  <2>1. /\ Flying' \subseteq Flying \cup {req'} /\ req'.id = <<runs, sent + 1>>
        /\ pc = "main"
    BY <1>1, AsksFlying DEF Asks
  <2>2. \A r \in Flying : r.id # req'.id
    BY <2>1 DEF Ids, Issued, TypeOK
  <2>3. QED
    BY <2>1, <2>2
<1>2. CASE Serves
  <2>1. Flying' \subseteq Flying /\ UNCHANGED <<pc, req>>
    BY <1>2, OthersFlying DEF Serves, flowVars
  <2>2. QED
    BY <2>1
<1>3. CASE ~Asks /\ ~Serves
  <2>1. pc' # "loop"
    BY <1>3, Shapes DEF Start, Moves, Fails, ReceiveAnswer, CompleteBadly, CompleteWell
  <2>2. QED
    BY <2>1
<1>4. QED
  BY <1>1, <1>2, <1>3

(* A wrong answer is one to a request given up; from then on the run closes.*)
LEMMA WrongAnswers ==
  ASSUME TypeOK, Known, ~stale, NEW m \in Answers, Matches(m), req.svc = CTL, pc = "loop"
  PROVE  m.of = req \/ m.of \in lost
BY DEF Known, Flying, Matches

LEMMA LosingEndsStep ==
  ASSUME TypeOK, Formed, Closing, Known, Purposes, LosingEnds, [Next]_vars
  PROVE  LosingEnds'
<1> SUFFICES ASSUME ~stale'
             PROVE  /\ lost' # {} /\ pc' # "off" => pass' = "closing"
                    /\ \A r \in lost' : r.for = "release" => r.of \notin service_connected'
  BY DEF LosingEnds
<1> DEFINE Goal == /\ lost' # {} /\ pc' # "off" => pass' = "closing"
                   /\ \A r \in lost' : r.for = "release" => r.of \notin service_connected'
<1>1. CASE \E i \in Invocations : Start(i)
  BY <1>1 DEF Start
<1>2. CASE RunCommand \/ EndPass
  <2>1. pc = "main" /\ pass # "closing" /\ UNCHANGED <<lost, stale>>
    BY <1>2, RunCommandCases DEF EndPass, historyVars, givenUpVars
  <2>2. lost = {}
    BY <2>1 DEF LosingEnds
  <2>3. QED
    BY <2>1, <2>2
<1>3. CASE ReleaseNext
  BY <1>3, ReleaseCases DEF LosingEnds
<1>4. CASE Exit
  BY <1>4 DEF Exit, Fresh
<1>5. CASE Fails
  <2>1. /\ pc = "loop" /\ stale' = stale /\ service_connected' = service_connected
        /\ lost' = IF req.svc = CTL THEN lost \cup {req} ELSE lost
        /\ pass' = IF Failed(req.for) THEN "closing" ELSE pass
    BY <1>5 DEF Fails, GiveUp, CompleteBadly, serviceVars
  <2>2. pass' = "closing"
    BY <2>1 DEF Closing, Failed
  <2>3. QED
    BY <2>1, <2>2 DEF LosingEnds, Purposes
<1>6. CASE Serves
  BY <1>6 DEF Serves, LosingEnds, flowVars, serviceVars
<1>7. ASSUME NEW m \in down, ReceiveAnswer(m) PROVE Goal
  <2>1. /\ pc = "loop" /\ m \in Answers /\ Matches(m) /\ stale' = stale
        /\ lost' = lost \/ (m.of.id # req.id /\ req.svc = CTL /\ lost' = lost \cup {req})
        /\ pass' = pass \/ pass' = "closing"
        /\ service_connected' = service_connected \/ req.for = "connect"
    BY <1>7 DEF ReceiveAnswer, GiveUp, givenUpVars, Answers, CompleteWell, CompleteBadly,
                serviceVars
  <2>2. lost' # {} => lost # {}
    <3>1. CASE m.of.id # req.id /\ req.svc = CTL
      BY <2>1, <3>1, WrongAnswers
    <3>2. QED
      BY <2>1, <3>1
  <2>3. lost # {} => pass = "closing" /\ req.for = "release"
    BY <2>1 DEF LosingEnds, Closing
  <2>4. QED
    BY <2>1, <2>2, <2>3 DEF LosingEnds, Purposes
<1>8. QED
  BY <1>1, <1>2, <1>3, <1>4, <1>5, <1>6, <1>7, Steps

-----------------------------------------------------------------------------
(* What becomes of the client ids in hand.                                   *)

(* What joins the answers.                                                  *)
LEMMA JoinsAnswers ==
  ASSUME NEW m, m.kind = "answer", down' = down \cup {m}
  PROVE  Answers' = Answers \cup {m}
BY DEF Answers

(* An answer joins the others, and leaves the process as it is.             *)
LEMMA RepliesFacts ==
  ASSUME NEW r, NEW ok, NEW c, Replies(r, ok, c)
  PROVE  /\ Answers' = Answers \cup {AnswerTo(r, ok, c)} /\ up' = up \ {r}
         /\ AnswerTo(r, ok, c).of = r /\ AnswerTo(r, ok, c).ok = ok /\ AnswerTo(r, ok, c).cid = c
         /\ UNCHANGED <<pc, pass, inv, req, service_connected, service_keep_cid,
                        service_release_cid, client_id, lost, stale>>
<1> DEFINE m == AnswerTo(r, ok, c)
<1>1. m.kind = "answer" /\ m.of = r /\ m.ok = ok /\ m.cid = c
  BY DEF AnswerTo
<1>2. /\ down' = down \cup {m} /\ up' = up \ {r}
      /\ UNCHANGED <<pc, pass, inv, req, service_connected, service_keep_cid,
                     service_release_cid, client_id, lost, stale>>
  BY DEF Replies, process, flowVars, serviceVars, givenUpVars
<1> HIDE DEF m
<1>3. Answers' = Answers \cup {m}
  BY <1>1, <1>2 DEF Answers
<1>4. QED
  BY <1>1, <1>2, <1>3 DEF m

(* What serving a request does to the client ids held.                      *)
LEMMA ServesFacts ==
  ASSUME TypeOK, Formed, NEW r \in up, ModemServes(r)
  PROVE  /\ UNCHANGED <<pc, pass, inv, req, service_connected, service_keep_cid,
                        service_release_cid, client_id, lost, stale, before, forgot>>
         /\ up' = up \ {r} /\ refused \subseteq refused'
         /\ Answers \subseteq Answers' /\ \A m \in Answers' \ Answers : m.of = r
         /\ \/ /\ r.for = "connect" /\ r.svc = CTL /\ r.of \in Services
               /\ \E c \in Cids \ held[r.of], m \in Answers' :
                     /\ m.of = r /\ m.ok /\ m.cid = c
                     /\ Answers' = Answers \cup {m}
                     /\ held' = [held EXCEPT ![r.of] = @ \cup {c}]
            \/ /\ r.for = "release" /\ r.svc = CTL /\ r.of \in Services
               /\ held' = [held EXCEPT ![r.of] = @ \ {r.cid}]
            \/ /\ UNCHANGED held
               /\ \A m \in Answers' \ Answers : r.for = "connect" => ~m.ok
               /\ r.for = "release" /\ r.cid \in held[r.of] => r.of \in refused'
<1>1. PICK ok, c : Replies(r, ok, c)
  BY Zenon DEF ModemServes, ModemAllocates, ModemReleases, ModemAnswers, ModemRefuses
<1>2. /\ UNCHANGED <<pc, pass, inv, req, service_connected, service_keep_cid,
                     service_release_cid, client_id, lost, stale>>
      /\ up' = up \ {r}
      /\ Answers \subseteq Answers' /\ \A m \in Answers' \ Answers : m.of = r
  BY <1>1, RepliesFacts
<1>3. UNCHANGED <<before, forgot>> /\ refused \subseteq refused'
  BY DEF ModemServes, ModemAllocates, ModemReleases, ModemAnswers, ModemRefuses, forgetVars
<1>4. r.for \in {"connect", "release"} => r.svc = CTL /\ r.of \in Services
  BY DEF Formed, WellFormed, Flying
<1>5. CASE ModemAllocates(r)
  <2>1. PICK d \in Cids \ held[r.of] : /\ held' = [held EXCEPT ![r.of] = @ \cup {d}]
                                       /\ Replies(r, TRUE, d)
    BY <1>5 DEF ModemAllocates
  <2> DEFINE n == AnswerTo(r, TRUE, d)
  <2>2. n.of = r /\ n.ok /\ n.cid = d /\ Answers' = Answers \cup {n}
    <3>1. n.ok = TRUE /\ n.of = r /\ n.cid = d
      BY DEF AnswerTo
    <3>2. Answers' = Answers \cup {n}
      BY <2>1, RepliesFacts, Zenon
    <3>3. QED
      BY <3>1, <3>2
  <2>3. r.for = "connect"
    BY <1>5 DEF ModemAllocates
  <2> HIDE DEF n
  <2>4. QED
    BY <1>2, <1>3, <1>4, <2>1, <2>2, <2>3
<1>6. CASE ModemReleases(r)
  BY <1>2, <1>3, <1>4, <1>6 DEF ModemReleases
<1>7. CASE ModemAnswers(r)
  BY <1>2, <1>3, <1>7 DEF ModemAnswers
<1>8. CASE ModemRefuses(r)
  <2>1. /\ Replies(r, FALSE, 0) /\ UNCHANGED held
        /\ r.for = "release" /\ r.cid \in held[r.of] => r.of \in refused'
    BY <1>8 DEF ModemRefuses
  <2> DEFINE n == AnswerTo(r, FALSE, 0)
  <2>2. \A m \in Answers' \ Answers : ~m.ok
    <3>1. n.ok = FALSE
      BY DEF AnswerTo
    <3>2. Answers' = Answers \cup {n}
      BY <2>1, RepliesFacts, Zenon
    <3> HIDE DEF n
    <3>3. QED
      BY <3>1, <3>2
  <2>3. QED
    BY <1>2, <1>3, <2>1, <2>2
<1>9. QED
  BY <1>5, <1>6, <1>7, <1>8 DEF ModemServes

(* The request waited for is completed.  Only its own answer connects a     *)
(* service, for a run that has given something up does not connect.         *)
LEMMA CompletedFacts ==
  ASSUME TypeOK, Formed, Closing, Known, Itself, LosingEnds, ~stale,
         NEW m \in Answers, ReceiveAnswer(m)
  PROVE  /\ pc = "loop" /\ pc' = "main" /\ Answers' = Answers \ {m}
         /\ UNCHANGED <<inv, req, held, up, before, refused, forgot, stale, service_keep_cid,
                        service_release_cid>>
         /\ lost \subseteq lost'
         /\ req.svc = CTL => m.of = req \/ (m.of \in lost /\ req \in lost')
         /\ \/ /\ m.ok /\ req.for = "connect" /\ m.of = req /\ lost = {}
               /\ req.of \in Services /\ m \in Granted(req.of)
               /\ service_connected' = service_connected \cup {req.of}
               /\ client_id' = [client_id EXCEPT ![req.of] = m.cid]
            \/ /\ ~(m.ok /\ req.for = "connect")
               /\ UNCHANGED <<service_connected, client_id>>
<1>1. /\ pc = "loop" /\ pc' = "main" /\ Matches(m)
      /\ UNCHANGED <<inv, req, held, up, before, refused, forgot, stale, service_keep_cid,
                     service_release_cid>>
  BY DEF ReceiveAnswer, CompleteWell, CompleteBadly, serviceVars, forgetVars
<1>2. Answers' = Answers \ {m}
  BY DEF ReceiveAnswer, Answers
<1>3. /\ lost \subseteq lost'
      /\ m.of.id # req.id /\ req.svc = CTL => req \in lost'
  BY DEF ReceiveAnswer, GiveUp, givenUpVars
<1>4. m.of.id = req.id => m.of = req
  BY <1>1 DEF Itself, Flying
<1>5. req.svc = CTL => m.of = req \/ (m.of \in lost /\ req \in lost')
  BY <1>1, <1>3, <1>4, WrongAnswers
<1>6. CASE m.ok /\ req.for = "connect"
  <2>1. /\ service_connected' = service_connected \cup {req.of}
        /\ client_id' = [client_id EXCEPT ![req.of] = m.cid]
    BY <1>6 DEF ReceiveAnswer, CompleteWell
  <2>2. req.svc = CTL /\ req.of \in Services
    BY <1>6 DEF Formed, WellFormed
  <2>3. lost = {}
    BY <1>1, <1>6 DEF LosingEnds, Closing
  <2>4. QED
    BY <1>1, <1>2, <1>3, <1>5, <1>6, <2>1, <2>2, <2>3 DEF Granted
<1>7. CASE ~(m.ok /\ req.for = "connect")
  <2>1. UNCHANGED <<service_connected, client_id>>
    BY <1>7 DEF ReceiveAnswer, CompleteWell, CompleteBadly, serviceVars
  <2>2. QED
    BY <1>1, <1>2, <1>3, <1>5, <1>7, <2>1
<1>8. QED
  BY <1>6, <1>7

(* Outside the loop, what may still be granted was given up.                *)
LEMMA NoGrants ==
  ASSUME Formed, Known, ~stale, NEW s \in Services, ~Unaccounted(s), NEW m \in Granted(s)
  PROVE  pc = "loop" /\ m.of = req
<1>1. m.of \in Flying /\ m.of.svc = CTL /\ m.of.of = s
  BY DEF Granted, Flying, Formed, WellFormed
<1>2. QED
  BY <1>1 DEF Known, Unaccounted

(* Between two requests the process connects by a given id, or not at all.  *)
Connects ==
    /\ pc = "main" /\ pc' \in {"main", "loop"}
    /\ \A r \in up' : r \in up \/ r.for # "release"
    /\ \/ UNCHANGED <<service_connected, client_id>> /\ service_keep_cid \subseteq service_keep_cid'
       \/ \E s \in Services \ service_connected, id \in Nat :
             /\ service_connected' = service_connected \cup {s}
             /\ client_id' = [client_id EXCEPT ![s] = Stored(id)]
             /\ service_keep_cid' = service_keep_cid \cup {s}
             /\ Does(s, "set_client_id")
    /\ UNCHANGED <<inv, held, before, service_release_cid, down, lost, refused, forgot, stale>>

LEMMA ConnectsFacts ==
  ASSUME TypeOK, RunCommand \/ EndPass
  PROVE  Connects
<1> USE DEF flowVars, serviceVars, boundVars, modemVars, historyVars, givenUpVars, forgetVars
<1>1. CASE EndPass
  BY <1>1 DEF EndPass, Connects
<1>2. CASE RunCommand
  <2> DEFINE j == Min(ToDo)
             c == inv.cmds[j]
  <2>1. /\ pc = "main" /\ c \in Command
        /\ UNCHANGED <<inv, held, before, down, lost, refused, forgot, stale>>
    BY <1>2, RunCommandCases
  <2>2. CASE Connect(j)
    BY <1>2, <2>1, <2>2, RunCommandCases DEF Connect, Connects, Starting
  <2>3. CASE SendCommand(j)
    BY <1>2, <2>1, <2>3, RunCommandCases DEF SendCommand, Connects, Starting
  <2>4. CASE SendCtl(j)
    BY <1>2, <2>1, <2>4, RunCommandCases DEF SendCtl, Connects, Starting
  <2>5. CASE NoSending(j)
    <3>1. j \in DOMAIN inv.cmds
      BY <1>2, NextToDo DEF RunCommand
    <3>2. UNCHANGED <<pc, up, service_release_cid>>
      BY <2>5 DEF NoSending
    <3>3. CASE c.does = "set_client_id" /\ c.svc \notin service_connected
      <4>1. /\ c.svc \in Services \ service_connected /\ c.id \in Nat
            /\ Does(c.svc, "set_client_id")
        BY <2>1, <3>1, <3>3 DEF Command, Does
      <4>2. /\ service_connected' = service_connected \cup {c.svc}
            /\ client_id' = [client_id EXCEPT ![c.svc] = Stored(c.id)]
            /\ service_keep_cid' = service_keep_cid \cup {c.svc}
        BY <2>5, <3>3 DEF NoSending
      <4> HIDE DEF c
      <4>3. QED
        BY <2>1, <3>2, <4>1, <4>2 DEF Connects
    <3>4. CASE ~(c.does = "set_client_id" /\ c.svc \notin service_connected)
      <4>1. /\ UNCHANGED <<service_connected, client_id>>
            /\ service_keep_cid \subseteq service_keep_cid'
        BY <2>5, <3>4 DEF NoSending
      <4>2. QED
        BY <2>1, <3>2, <4>1 DEF Connects
    <3>5. QED
      BY <3>3, <3>4
  <2>6. CASE Refuse(j)
    BY <1>2, <2>1, <2>6, RunCommandCases DEF Refuse, Connects
  <2>7. QED
    BY <1>2, <2>2, <2>3, <2>4, <2>5, <2>6, RunCommandCases
<1>3. QED
  BY <1>1, <1>2

(* Claims do not change while a run lasts.                                  *)
LEMMA SameClaims ==
  ASSUME UNCHANGED inv
  PROVE  \A s : /\ Claimed(s)' = Claimed(s) /\ Exempt(s)' = Exempt(s)
                /\ \A what : Does(s, what)' = Does(s, what)
BY DEF Claimed, Exempt, Does


(* A run to which nothing of CTL is left begins with nothing granted.       *)
LEMMA StartFacts ==
  ASSUME Formed, NEW i \in Invocations, Start(i)
  PROVE  /\ pc' = "main" /\ service_connected' = {} /\ UNCHANGED held /\ before' = held
         /\ ~stale' => /\ \A s : Granted(s)' = {}
                       /\ \A r \in up' : r.for # "release"
<1>1. /\ pc' = "main" /\ service_connected' = {} /\ UNCHANGED <<held, up, down>>
      /\ before' = held /\ stale' = CtlInFlight
  BY DEF Start, Fresh, modemVars
<1>2. Answers' = Answers
  BY <1>1 DEF Answers
<1>3. ~CtlInFlight => /\ \A s : Granted(s)' = {}
                      /\ \A r \in up' : r.for # "release"
  BY <1>1, <1>2 DEF CtlInFlight, Granted, Answers, Flying, Formed, WellFormed
<1>4. QED
  BY <1>1, <1>3

(* A service is released that is not to be kept, under the id it has; no    *)
(* answer is there for the release yet.                                     *)
LEMMA ReleaseFacts ==
  ASSUME TypeOK, Ids, ReleaseNext
  PROVE  /\ pc = "main" /\ pc' = "loop" /\ Answers' = Answers
         /\ \A m \in Answers' : m.of # req'
         /\ req'.for = "release" /\ up' \subseteq up \cup {req'}
         /\ UNCHANGED <<inv, service_keep_cid, service_release_cid, held, before, refused, forgot,
                        lost, stale>>
         /\ \E t \in service_connected \ Kept :
               /\ req'.of = t /\ req'.cid = client_id[t]
               /\ service_connected' = service_connected \ {t}
               /\ client_id' = [client_id EXCEPT ![t] = 255]
<1>1. PICK t \in service_connected \ Kept :
          /\ pc = "main" /\ Starting("release", t, client_id[t])
          /\ pc' = "loop" /\ req'.for = "release" /\ req'.of = t /\ req'.cid = client_id[t]
          /\ service_connected' = service_connected \ {t}
          /\ client_id' = [client_id EXCEPT ![t] = 255]
          /\ UNCHANGED <<inv, service_keep_cid, service_release_cid, down, held, before,
                         refused, forgot, lost, stale>>
  BY ReleaseCases
<1>2. up' \subseteq up \cup {req'} /\ req'.id = <<runs, sent + 1>>
  BY <1>1 DEF Starting
<1>3. Answers' = Answers
  BY <1>1 DEF Answers
<1>4. \A m \in Answers : m.of.id # req'.id
  BY <1>1, <1>2 DEF Ids, Issued, TypeOK, Flying
<1>5. QED
  BY <1>1, <1>2, <1>3, <1>4

(* What is not accounted for stays so while a run lasts.                    *)
LEMMA StaysUnaccounted ==
  ASSUME lost \subseteq lost', refused \subseteq refused', NEW s, ~Unaccounted(s)'
  PROVE  ~Unaccounted(s)
BY DEF Unaccounted

(* An id that comes to be held is granted; one in the tool's hands stays    *)
(* there until it is released, kept, or the request about it given up.      *)
LEMMA NothingLeftStep ==
  ASSUME TypeOK, Formed, Ids, Closing, Connecting, Options, Known, Itself, LosingEnds,
         NothingLeft, [Next]_vars
  PROVE  NothingLeft'
<1> SUFFICES ASSUME ~stale', NEW s \in Services, ~Unaccounted(s)', NEW c \in held'[s]
             PROVE  c \in before'[s] \/ InHand(s, c)' \/ LeftAsAsked(s)'
  BY DEF NothingLeft
<1> DEFINE Goal == c \in before'[s] \/ InHand(s, c)' \/ LeftAsAsked(s)'
<1>1. /\ client_id \in [Services -> 0 .. 255] /\ held \in [Services -> SUBSET Cids]
      /\ service_connected \subseteq Services
  BY DEF TypeOK
<1>2. ASSUME ~stale, ~Unaccounted(s), c \in held[s]
      PROVE  c \in before[s] \/ InHand(s, c) \/ LeftAsAsked(s)
  BY <1>2 DEF NothingLeft
<1>3. CASE \E i \in Invocations : Start(i)
  BY <1>3, StartFacts
<1>4. CASE RunCommand \/ EndPass
  <2>1. /\ pc = "main" /\ UNCHANGED <<held, before, down, lost, refused, stale>>
        /\ \/ UNCHANGED <<service_connected, client_id>>
           \/ \E t \in Services \ service_connected, id \in Nat :
                 /\ service_connected' = service_connected \cup {t}
                 /\ client_id' = [client_id EXCEPT ![t] = Stored(id)]
    BY <1>4, ConnectsFacts DEF Connects
  <2>2. Granted(s)' = Granted(s)
    BY <2>1 DEF Granted, Answers
  <2>3. ~Unaccounted(s)
    BY <2>1 DEF Unaccounted
  <2>4. c \in before[s] \/ InHand(s, c)
    BY <1>2, <2>1, <2>3 DEF LeftAsAsked
  <2>5. s \in service_connected /\ client_id[s] = c
           => s \in service_connected' /\ client_id'[s] = c
    BY <1>1, <2>1
  <2>6. QED
    BY <2>1, <2>2, <2>4, <2>5 DEF InHand, Releasing
<1>5. CASE ReleaseNext
  <2>1. PICK t \in service_connected \ Kept :
            /\ req'.of = t /\ req'.cid = client_id[t]
            /\ service_connected' = service_connected \ {t}
            /\ client_id' = [client_id EXCEPT ![t] = 255]
    BY <1>5, ReleaseFacts
  <2>2. /\ pc = "main" /\ pc' = "loop" /\ Answers' = Answers
        /\ \A m \in Answers' : m.of # req'
        /\ req'.for = "release"
        /\ UNCHANGED <<held, before, refused, lost, stale>>
    BY <1>5, ReleaseFacts
  <2>3. Granted(s)' = Granted(s)
    BY <2>2 DEF Granted
  <2>4. ~Unaccounted(s)
    BY <2>2 DEF Unaccounted
  <2>5. c \in before[s] \/ InHand(s, c)
    BY <1>2, <2>2, <2>4 DEF LeftAsAsked
  <2>6. CASE s \in service_connected /\ client_id[s] = c
    <3>1. CASE s = t
      BY <2>1, <2>2, <2>6, <3>1 DEF InHand, Releasing
    <3>2. CASE s # t
      <4>1. s \in service_connected' /\ client_id'[s] = c
        BY <1>1, <2>1, <2>6, <3>2
      <4>2. QED
        BY <4>1 DEF InHand
    <3>3. QED
      BY <3>1, <3>2
  <2>7. QED
    BY <2>2, <2>3, <2>5, <2>6 DEF InHand, Releasing
<1>6. CASE Exit
  <2>1. /\ pc = "main" /\ pc' = "off" /\ service_connected \subseteq Kept
        /\ UNCHANGED <<inv, held, before, refused, lost, stale>>
    BY <1>6 DEF Exit, modemVars, givenUpVars, forgetVars
  <2>2. ~Unaccounted(s)
    BY <2>1 DEF Unaccounted
  <2>3. Granted(s) = {}
    BY <2>1, <2>2, NoGrants
  <2>4. c \in before[s] \/ s \in Kept
    BY <1>2, <2>1, <2>2, <2>3 DEF InHand, Releasing, LeftAsAsked
  <2>5. s \in Kept => Claimed(s) /\ s \notin inv.release
    BY <2>1 DEF Options, Kept
  <2>6. Claimed(s)' = Claimed(s)
    BY <2>1, SameClaims
  <2>7. QED
    BY <2>1, <2>4, <2>5, <2>6 DEF LeftAsAsked
<1>7. ASSUME NEW m \in Answers, ReceiveAnswer(m) PROVE Goal
  <2>1. /\ pc = "loop" /\ Answers' = Answers \ {m}
        /\ UNCHANGED <<req, held, before, refused, stale>> /\ lost \subseteq lost'
        /\ req.svc = CTL => m.of = req \/ (m.of \in lost /\ req \in lost')
        /\ \/ /\ m.ok /\ req.for = "connect" /\ m.of = req
              /\ service_connected' = service_connected \cup {req.of}
              /\ client_id' = [client_id EXCEPT ![req.of] = m.cid]
           \/ /\ ~(m.ok /\ req.for = "connect")
              /\ UNCHANGED <<service_connected, client_id>>
    BY <1>7, CompletedFacts DEF ReceiveAnswer
  <2>2. ~Unaccounted(s)
    BY <2>1, StaysUnaccounted
  <2>3. c \in before[s] \/ InHand(s, c)
    BY <1>2, <2>1, <2>2 DEF LeftAsAsked
  <2>4. CASE s \in service_connected /\ client_id[s] = c
    <3>1. req.for = "connect" => req.of # s
      BY <2>1, <2>4 DEF Connecting
    <3>2. s \in service_connected' /\ client_id'[s] = c
      BY <1>1, <2>1, <2>4, <3>1
    <3>3. QED
      BY <3>2 DEF InHand
  <2>5. ASSUME NEW n \in Granted(s), n.cid = c PROVE Goal
    <3>1. CASE n # m
      BY <2>1, <2>5, <3>1 DEF InHand, Granted
    <3>2. CASE n = m
      <4>1. n.of = req /\ n.ok /\ req.for = "connect" /\ req.of = s
        BY <2>1, <2>2, <2>5, NoGrants DEF Granted
      <4>2. s \in service_connected' /\ client_id'[s] = c
        BY <1>1, <2>1, <2>5, <3>2, <4>1
      <4>3. QED
        BY <4>2 DEF InHand
    <3>3. QED
      BY <3>1, <3>2
  <2>6. ~(Releasing(s) /\ \A n \in Answers : n.of # req)
    BY <2>1 DEF Releasing, Unaccounted, Formed, WellFormed
  <2>7. QED
    BY <2>1, <2>3, <2>4, <2>5, <2>6 DEF InHand
<1>8. CASE Fails
  <2>1. /\ pc = "loop" /\ Answers' = Answers
        /\ UNCHANGED <<service_connected, client_id, held, before, refused, stale>>
        /\ lost' = IF req.svc = CTL THEN lost \cup {req} ELSE lost
    BY <1>8 DEF Fails, CompleteBadly, GiveUp, serviceVars, forgetVars
  <2>2. ~Unaccounted(s)
    BY <2>1, StaysUnaccounted
  <2>3. ~Releasing(s)
    BY <2>1 DEF Releasing, Unaccounted, Formed, WellFormed
  <2>4. c \in before[s] \/ InHand(s, c)
    BY <1>2, <2>1, <2>2 DEF LeftAsAsked
  <2>5. QED
    BY <2>1, <2>3, <2>4 DEF InHand, Granted
<1>9. ASSUME NEW r \in up, ModemServes(r) PROVE Goal
  <2>1. /\ UNCHANGED <<pc, inv, req, service_connected, client_id, lost, stale, before>>
        /\ refused \subseteq refused'
        /\ Answers \subseteq Answers' /\ \A m \in Answers' \ Answers : m.of = r
    BY <1>9, ServesFacts
  <2>2. ~Unaccounted(s)
    BY <2>1, StaysUnaccounted
  <2>3. CASE c \notin held[s]
    <3>1. \E m \in Answers' : m.of = r /\ m.ok /\ m.cid = c /\ r.for = "connect" /\ r.of = s
      BY <1>1, <1>9, <2>3, ServesFacts
    <3>2. QED
      BY <3>1 DEF InHand, Granted
  <2>4. CASE c \in held[s]
    <3>1. c \in before[s] \/ InHand(s, c) \/ LeftAsAsked(s)
      BY <1>2, <2>1, <2>2, <2>4
    <3>2. LeftAsAsked(s)' = LeftAsAsked(s)
      BY <2>1, SameClaims DEF LeftAsAsked
    <3>3. Granted(s) \subseteq Granted(s)'
      BY <2>1 DEF Granted
    <3>4. ASSUME Releasing(s), req.cid = c PROVE r # req
      <4> SUFFICES ASSUME r = req PROVE FALSE
        OBVIOUS
      <4>1. r.for = "release" /\ r.of = s /\ r.cid = c
        BY <3>4 DEF Releasing
      <4>2. s \in refused' \/ c \notin held'[s]
        BY <1>1, <1>9, <2>4, <4>1, ServesFacts
      <4>3. QED
        BY <4>2 DEF Unaccounted
    <3>5. QED
      BY <2>1, <3>1, <3>2, <3>3, <3>4 DEF InHand, Releasing
  <2>5. QED
    BY <2>3, <2>4
<1>10. CASE Forgetting
  BY <1>10 DEF Forgetting
<1>11. CASE Quiet
  <2>1. /\ UNCHANGED <<pc, inv, req, service_connected, client_id, held, lost, stale, before,
                       refused>>
        /\ Answers' \subseteq Answers
        /\ pc = "loop" => \A m \in Answers \ Answers' : ~Matches(m)
    BY <1>11 DEF Quiet, flowVars, serviceVars, forgetVars
  <2>2. ~Unaccounted(s)
    BY <2>1, StaysUnaccounted
  <2>3. c \in before[s] \/ InHand(s, c) \/ LeftAsAsked(s)
    BY <1>2, <2>1, <2>2
  <2>4. LeftAsAsked(s)' = LeftAsAsked(s)
    BY <2>1, SameClaims DEF LeftAsAsked
  <2>5. Granted(s) \subseteq Granted(s)'
    BY <2>1, <2>2, NoGrants DEF Granted, Matches
  <2>6. QED
    BY <2>1, <2>3, <2>4, <2>5 DEF InHand, Releasing
<1>12. QED
  BY <1>3, <1>4, <1>5, <1>6, <1>7, <1>8, <1>9, <1>10, <1>11, Ways

(* Nothing is released that was held before: not an id the tool was given   *)
(* by the modem, for that one was free then, nor one the user has it keep.  *)
LEMMA NothingTakenStep ==
  ASSUME TypeOK, Formed, Ids, Closing, Connecting, Options, Known, Itself, LosingEnds,
         NothingTaken, [Next]_vars
  PROVE  NothingTaken'
<1> DEFINE Safe(s) == /\ before[s] \subseteq held[s]
                      /\ s \in service_connected => client_id[s] \notin before[s] \/ s \in Kept
                      /\ \A m \in Granted(s) : m.cid \notin before[s]
                      /\ \A r \in up : r.for = "release" /\ r.of = s => r.cid \notin before[s]
<1> SUFFICES ASSUME ~stale', NEW s \in Services, ~Exempt(s)'
             PROVE  Safe(s)'
  BY DEF NothingTaken
<1>1. /\ client_id \in [Services -> 0 .. 255] /\ held \in [Services -> SUBSET Cids]
      /\ service_connected \subseteq Services
  BY DEF TypeOK
<1>2. ASSUME UNCHANGED <<inv, stale>> PROVE Safe(s) /\ ~Exempt(s)
  BY <1>2, SameClaims DEF NothingTaken
<1>3. CASE \E i \in Invocations : Start(i)
  BY <1>3, StartFacts
<1>4. CASE RunCommand \/ EndPass
  <2>1. /\ UNCHANGED <<inv, held, before, service_release_cid, down, stale>>
        /\ \A r \in up' : r \in up \/ r.for # "release"
        /\ \/ /\ UNCHANGED <<service_connected, client_id>>
              /\ service_keep_cid \subseteq service_keep_cid'
           \/ \E t \in Services \ service_connected, id \in Nat :
                 /\ service_connected' = service_connected \cup {t}
                 /\ client_id' = [client_id EXCEPT ![t] = Stored(id)]
                 /\ service_keep_cid' = service_keep_cid \cup {t}
                 /\ Does(t, "set_client_id")
    BY <1>4, ConnectsFacts DEF Connects
  <2>2. Granted(s)' = Granted(s) /\ Safe(s) /\ ~Exempt(s)
    BY <1>2, <2>1 DEF Granted, Answers
  <2>3. s \in service_connected' => client_id'[s] \notin before[s] \/ s \in Kept'
    <3>1. s \in Kept => s \in Kept'
      BY <2>1 DEF Kept
    <3>2. CASE s \in service_connected
      BY <1>1, <2>1, <2>2, <3>1, <3>2
    <3>3. CASE s \in service_connected' /\ s \notin service_connected
      <4>1. s \in service_keep_cid' /\ Does(s, "set_client_id")
        BY <2>1, <3>3
      <4>2. pc # "off"
        BY <1>4, ConnectsFacts DEF Connects
      <4>3. s \notin service_release_cid'
        BY <2>1, <2>2, <4>1, <4>2 DEF Exempt, Options
      <4>4. QED
        BY <4>1, <4>3 DEF Kept
    <3>4. QED
      BY <3>2, <3>3
  <2>4. QED
    BY <2>1, <2>2, <2>3
<1>5. CASE ReleaseNext
  <2>1. PICK t \in service_connected \ Kept :
            /\ req'.of = t /\ req'.cid = client_id[t]
            /\ service_connected' = service_connected \ {t}
            /\ client_id' = [client_id EXCEPT ![t] = 255]
    BY <1>5, ReleaseFacts
  <2>2. /\ Answers' = Answers /\ up' \subseteq up \cup {req'}
        /\ UNCHANGED <<inv, service_keep_cid, service_release_cid, held, before, stale>>
    BY <1>5, ReleaseFacts
  <2>3. Granted(s)' = Granted(s) /\ Kept' = Kept /\ Safe(s)
    BY <1>2, <2>2 DEF Granted, Kept
  <2>4. t = s => req'.cid \notin before[s]
    BY <2>1, <2>3
  <2>5. s \in service_connected' => s \in service_connected /\ client_id'[s] = client_id[s]
    BY <1>1, <2>1
  <2>6. QED
    BY <2>1, <2>2, <2>3, <2>4, <2>5
<1>6. CASE Exit
  <2>1. service_connected' = {} /\ UNCHANGED <<inv, held, before, up, down, stale>>
    BY <1>6 DEF Exit, Fresh, modemVars, forgetVars
  <2>2. Granted(s)' = Granted(s)
    BY <2>1 DEF Granted, Answers
  <2>3. QED
    BY <1>2, <2>1, <2>2
<1>7. ASSUME NEW m \in Answers, ReceiveAnswer(m) PROVE Safe(s)'
  <2>1. /\ Answers' = Answers \ {m}
        /\ UNCHANGED <<inv, held, up, before, stale, service_keep_cid, service_release_cid>>
        /\ \/ /\ m \in Granted(req.of)
              /\ service_connected' = service_connected \cup {req.of}
              /\ client_id' = [client_id EXCEPT ![req.of] = m.cid]
           \/ UNCHANGED <<service_connected, client_id>>
    BY <1>7, CompletedFacts DEF ReceiveAnswer
  <2>2. Granted(s)' \subseteq Granted(s) /\ Kept' = Kept /\ Safe(s)
    BY <1>2, <2>1 DEF Granted, Kept
  <2>3. s \in service_connected' => client_id'[s] \notin before[s] \/ s \in Kept
    BY <1>1, <2>1, <2>2
  <2>4. QED
    BY <2>1, <2>2, <2>3
<1>8. CASE Fails
  <2>1. /\ Answers' = Answers
        /\ UNCHANGED <<inv, service_connected, client_id, service_keep_cid, service_release_cid,
                       held, before, up, stale>>
    BY <1>8 DEF Fails, CompleteBadly, serviceVars, forgetVars
  <2>2. Granted(s)' = Granted(s) /\ Kept' = Kept
    BY <2>1 DEF Granted, Kept
  <2>3. QED
    BY <1>2, <2>1, <2>2
<1>9. ASSUME NEW r \in up, ModemServes(r) PROVE Safe(s)'
  <2>1. /\ UNCHANGED <<inv, service_connected, client_id, service_keep_cid, service_release_cid,
                       stale, before>>
        /\ up' = up \ {r}
    BY <1>9, ServesFacts
  <2>2. Kept' = Kept /\ Safe(s)
    BY <1>2, <2>1 DEF Kept
  <2>3. before[s] \subseteq held'[s]
    BY <1>1, <1>9, <2>2, ServesFacts
  <2>4. ASSUME NEW m \in Granted(s)' PROVE m.cid \notin before[s]
    <3>1. m \in Answers' /\ m.ok /\ m.of.for = "connect" /\ m.of.of = s
      BY DEF Granted
    <3>2. CASE m \in Answers
      BY <2>2, <3>1, <3>2 DEF Granted
    <3>3. CASE m \notin Answers
      <4>1. m.of = r
        BY <1>9, <3>1, <3>3, ServesFacts
      <4>2. m.cid \notin held[s]
        BY <1>9, <3>1, <3>3, <4>1, ServesFacts
      <4>3. QED
        BY <2>2, <4>2
    <3>4. QED
      BY <3>2, <3>3
  <2>5. QED
    BY <2>1, <2>2, <2>3, <2>4
<1>10. CASE Forgetting
  BY <1>10 DEF Forgetting
<1>11. CASE Quiet
  <2>1. /\ UNCHANGED <<inv, service_connected, client_id, service_keep_cid, service_release_cid,
                       held, stale, before>>
        /\ Answers' \subseteq Answers /\ up' \subseteq up
    BY <1>11 DEF Quiet, flowVars, serviceVars, forgetVars
  <2>2. Granted(s)' \subseteq Granted(s) /\ Kept' = Kept
    BY <2>1 DEF Granted, Kept
  <2>3. QED
    BY <1>2, <2>1, <2>2
<1>12. QED
  BY <1>3, <1>4, <1>5, <1>6, <1>7, <1>8, <1>9, <1>10, <1>11, Ways

(* The id of a connected service is given back only by a release of its own, *)
(* and then it is connected no more.                                        *)
LEMMA OwnCidsStep ==
  ASSUME TypeOK, Formed, Ids, Closing, Connecting, Purposes, Known, Itself, LosingEnds,
         OwnCids, [Next]_vars
  PROVE  OwnCids'
<1> DEFINE Own(s) == /\ s \in service_connected /\ ~Does(s, "set_client_id")
                           => client_id[s] \in held[s]
                     /\ \A m \in Granted(s) : m.of \in lost \/ m.cid \in held[s]
<1> SUFFICES ASSUME ~stale', ~forgot', NEW s \in Services PROVE Own(s)'
  BY DEF OwnCids
<1>1. /\ client_id \in [Services -> 0 .. 255] /\ held \in [Services -> SUBSET Cids]
      /\ service_connected \subseteq Services
  BY DEF TypeOK
<1>2. ASSUME UNCHANGED <<inv, stale, forgot>>
      PROVE  Own(s) /\ Does(s, "set_client_id")' = Does(s, "set_client_id")
  BY <1>2, SameClaims DEF OwnCids
<1>3. CASE \E i \in Invocations : Start(i)
  BY <1>3, StartFacts
<1>4. CASE RunCommand \/ EndPass
  <2>1. /\ UNCHANGED <<inv, held, down, lost, stale, forgot>>
        /\ \/ UNCHANGED <<service_connected, client_id>>
           \/ \E t \in Services \ service_connected, id \in Nat :
                 /\ service_connected' = service_connected \cup {t}
                 /\ client_id' = [client_id EXCEPT ![t] = Stored(id)]
                 /\ Does(t, "set_client_id")
    BY <1>4, ConnectsFacts DEF Connects
  <2>2. Granted(s)' = Granted(s)
    BY <2>1 DEF Granted, Answers
  <2>3. s \in service_connected' => \/ s \in service_connected /\ client_id'[s] = client_id[s]
                                    \/ Does(s, "set_client_id")
    BY <1>1, <2>1
  <2>4. QED
    BY <1>2, <2>1, <2>2, <2>3
<1>5. CASE ReleaseNext
  <2>1. PICK t \in service_connected \ Kept :
            /\ service_connected' = service_connected \ {t}
            /\ client_id' = [client_id EXCEPT ![t] = 255]
    BY <1>5, ReleaseFacts
  <2>2. Answers' = Answers /\ UNCHANGED <<inv, held, forgot, lost, stale>>
    BY <1>5, ReleaseFacts
  <2>3. Granted(s)' = Granted(s)
    BY <2>2 DEF Granted
  <2>4. s \in service_connected' => s \in service_connected /\ client_id'[s] = client_id[s]
    BY <1>1, <2>1
  <2>5. QED
    BY <1>2, <2>2, <2>3, <2>4
<1>6. CASE Exit
  <2>1. service_connected' = {} /\ UNCHANGED <<inv, held, down, lost, forgot, stale>>
    BY <1>6 DEF Exit, Fresh, modemVars, givenUpVars, forgetVars
  <2>2. Granted(s)' = Granted(s)
    BY <2>1 DEF Granted, Answers
  <2>3. QED
    BY <1>2, <2>1, <2>2
<1>7. ASSUME NEW m \in Answers, ReceiveAnswer(m) PROVE Own(s)'
  <2>1. /\ Answers' = Answers \ {m} /\ lost \subseteq lost'
        /\ UNCHANGED <<inv, held, forgot, stale>>
        /\ \/ /\ m \in Granted(req.of) /\ lost = {}
              /\ service_connected' = service_connected \cup {req.of}
              /\ client_id' = [client_id EXCEPT ![req.of] = m.cid]
           \/ UNCHANGED <<service_connected, client_id>>
    BY <1>7, CompletedFacts DEF ReceiveAnswer
  <2>2. Granted(s)' \subseteq Granted(s)
    BY <2>1 DEF Granted
  <2>3. s \in service_connected' => \/ s \in service_connected /\ client_id'[s] = client_id[s]
                                    \/ client_id'[s] \in held[s]
    BY <1>1, <1>2, <2>1
  <2>4. QED
    BY <1>2, <2>1, <2>2, <2>3
<1>8. CASE Fails
  <2>1. /\ Answers' = Answers /\ lost \subseteq lost'
        /\ UNCHANGED <<inv, service_connected, client_id, held, forgot, stale>>
    BY <1>8 DEF Fails, CompleteBadly, GiveUp, serviceVars, forgetVars
  <2>2. QED
    BY <1>2, <2>1 DEF Granted
<1>9. ASSUME NEW r \in up, ModemServes(r) PROVE Own(s)'
  <2>1. /\ UNCHANGED <<pc, inv, service_connected, client_id, lost, stale, forgot>>
        /\ Answers \subseteq Answers' /\ \A m \in Answers' \ Answers : m.of = r
    BY <1>9, ServesFacts
  <2>2. Own(s) /\ Does(s, "set_client_id")' = Does(s, "set_client_id")
    BY <1>2, <2>1
  <2>3. CASE r.for = "release" /\ r.of = s
    <3>1. r.svc = CTL /\ (r \in lost \/ (pc = "loop" /\ r = req))
      BY <1>9, <2>1, <2>3 DEF Known, Formed, WellFormed, Flying
    <3>2. s \notin service_connected
      BY <2>1, <2>3, <3>1 DEF LosingEnds, Purposes
    <3>3. ASSUME NEW m \in Granted(s)' PROVE m.of \in lost
      <4>1. m \in Answers' /\ m.of.for = "connect"
        BY DEF Granted
      <4>2. m \in Answers
        BY <2>1, <2>3, <4>1
      <4>3. m.of.svc = CTL /\ (m.of \in lost \/ (pc = "loop" /\ m.of = req))
        BY <2>1, <4>1, <4>2 DEF Known, Formed, WellFormed, Flying
      <4>4. pc = "loop" /\ m.of = req => lost = {} /\ r # req
        BY <2>1, <2>3, <4>1 DEF LosingEnds, Closing
      <4>5. QED
        BY <3>1, <4>3, <4>4
    <3>4. QED
      BY <2>1, <3>2, <3>3
  <2>4. CASE ~(r.for = "release" /\ r.of = s)
    <3>1. held[s] \subseteq held'[s]
      BY <1>1, <1>9, <2>4, ServesFacts
    <3>2. ASSUME NEW m \in Granted(s)', m \notin Answers PROVE m.cid \in held'[s]
      <4>1. m \in Answers' /\ m.ok /\ m.of.for = "connect" /\ m.of.of = s
        BY DEF Granted
      <4>2. m.of = r
        BY <2>1, <3>2, <4>1
      <4>3. QED
        BY <1>1, <1>9, <3>2, <4>1, <4>2, ServesFacts
    <3>3. ASSUME NEW m \in Granted(s)', m \in Answers PROVE m \in Granted(s)
      BY <3>3 DEF Granted
    <3>4. QED
      BY <2>1, <2>2, <3>1, <3>2, <3>3
  <2>5. QED
    BY <2>3, <2>4
<1>10. CASE Forgetting
  BY <1>10 DEF Forgetting
<1>11. CASE Quiet
  <2>1. /\ UNCHANGED <<inv, service_connected, client_id, held, lost, stale, forgot>>
        /\ Answers' \subseteq Answers
    BY <1>11 DEF Quiet, flowVars, serviceVars, forgetVars
  <2>2. Granted(s)' \subseteq Granted(s)
    BY <2>1 DEF Granted
  <2>3. QED
    BY <1>2, <2>1, <2>2
<1>12. QED
  BY <1>3, <1>4, <1>5, <1>6, <1>7, <1>8, <1>9, <1>10, <1>11, Ways

(* The client ids' invariant, and what it rests on.                         *)
Keeping == Pending /\ Connecting /\ Held

LEMMA KeepingInductive ==
  /\ Init => Keeping
  /\ Keeping /\ [Next]_vars => Keeping'
<1>1. Init => Keeping
  <2> SUFFICES ASSUME Init PROVE Keeping
    OBVIOUS
  <2>1. /\ pc = "off" /\ held = before /\ lost = {} /\ up = {} /\ down = {}
        /\ service_connected = {}
    BY DEF Init
  <2>2. Answers = {} /\ Flying = {}
    BY <2>1 DEF Answers, Flying
  <2>3. Pending
    BY PendingInductive
  <2>4. QED
    BY <2>1, <2>2, <2>3
       DEF Keeping, Connecting, Held, Options, Purposes, Offline, Known, Itself, LosingEnds,
           NothingLeft, NothingTaken, OwnCids, Granted
<1>2. Keeping /\ [Next]_vars => Keeping'
  <2> SUFFICES ASSUME Keeping, [Next]_vars PROVE Keeping'
    OBVIOUS
  <2>1. Pending /\ TypeOK /\ Formed /\ Ids /\ Closing /\ Unique /\ Connecting
    BY DEF Keeping, Pending, Numbered
  <2>2. /\ Options /\ Purposes /\ Offline /\ Known /\ Itself /\ LosingEnds
        /\ NothingLeft /\ NothingTaken /\ OwnCids
    BY DEF Keeping, Held
  <2>3. Pending' /\ Connecting'
    BY <2>1, PendingInductive, ConnectingStep
  <2>4. Options' /\ Purposes' /\ Offline' /\ Known' /\ Itself' /\ LosingEnds'
    BY <2>1, <2>2, OptionsStep, PurposesStep, OfflineStep, KnownStep, ItselfStep, LosingEndsStep
  <2>5. NothingLeft' /\ NothingTaken' /\ OwnCids'
    BY <2>1, <2>2, NothingLeftStep, NothingTakenStep, OwnCidsStep
  <2>6. QED
    BY <2>3, <2>4, <2>5 DEF Keeping, Held
<1>3. QED
  BY <1>1, <1>2

(* A run, however it ends, leaves no client id behind but those it was asked *)
(* to keep, those it could not release and those whose allocation or        *)
(* release it gave up; and it takes none away that it was not asked to      *)
(* release (dev.c:305-397, uqmi.c:84-102), if CTL has nothing of an earlier *)
(* run to answer: RunLeavesNoTrace.                                         *)
THEOREM NoTraceCorrect == Spec => []RunLeavesNoTrace
<1>1. Keeping => RunLeavesNoTrace
  <2> SUFFICES ASSUME Keeping, pc = "off", ~stale, NEW s \in Services
               PROVE  /\ ~Claimed(s) \/ s \in inv.release => \/ Unaccounted(s)
                                                             \/ held[s] \subseteq before[s]
                      /\ ~Exempt(s) => before[s] \subseteq held[s]
    BY DEF RunLeavesNoTrace, Exempt
  <2>1. Formed /\ Known /\ Offline /\ NothingLeft /\ NothingTaken
    BY DEF Keeping, Pending, Numbered, Held
  <2>2. ASSUME ~Claimed(s) \/ s \in inv.release, ~Unaccounted(s), NEW c \in held[s]
        PROVE  c \in before[s]
    <3>1. Granted(s) = {}
      BY <2>1, <2>2, NoGrants
    <3>2. ~InHand(s, c) /\ ~LeftAsAsked(s)
      BY <2>1, <2>2, <3>1 DEF InHand, LeftAsAsked, Releasing, Offline
    <3>3. QED
      BY <2>1, <2>2, <3>2 DEF NothingLeft
  <2>3. QED
    BY <2>1, <2>2 DEF NothingTaken
<1>2. QED
  BY <1>1, KeepingInductive, PTL DEF Spec

(* Commands go out under a client id the modem has given the tool and holds, *)
(* unless the user named another or the modem started again unnoticed        *)
(* (dev.c:207-245, 305-350): SendsUnderItsOwnCid.                            *)
THEOREM OwnCidCorrect == Spec => []SendsUnderItsOwnCid
<1>1. Keeping => SendsUnderItsOwnCid
  <2> SUFFICES ASSUME Keeping, ~stale, ~forgot, NEW m \in up, m.for = "command", m.svc # CTL,
                      m.id \notin abandoned, ~Does(m.svc, "set_client_id")
               PROVE  m.cid \in held[m.svc]
    BY DEF SendsUnderItsOwnCid
  <2>1. TypeOK /\ Formed /\ OnlyPending /\ Purposes /\ OwnCids
    BY DEF Keeping, Pending, Numbered, Held
  <2>2. m = req /\ pc = "loop" /\ WellFormed(m)
    BY <2>1 DEF OnlyPending, Flying, Formed
  <2>3. m.of = m.svc /\ m.svc \in service_connected /\ m.cid = client_id[m.svc]
    BY <2>1, <2>2 DEF WellFormed, Purposes
  <2>4. QED
    BY <2>1, <2>2, <2>3 DEF OwnCids, TypeOK
<1>2. QED
  BY <1>1, KeepingInductive, PTL DEF Spec

=============================================================================
