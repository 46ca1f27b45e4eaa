---------------------------- MODULE UqmiDev_proofs ----------------------------
(* Proofs about the runs of the command line tool, for any services, command *)
(* lines and client ids, any number of runs and of faults.                   *)
EXTENDS UqmiDev, TLAPS, WellFoundedInduction, FiniteSetTheorems

-----------------------------------------------------------------------------
(* Lemmas about the operators.                                               *)

(* Min, which the code's walks in order of place stand for, is defined.     *)
LEMMA MinNat ==
  ASSUME NEW S \in SUBSET Nat, S # {}
  PROVE  Min(S) \in S /\ \A x \in S : Min(S) <= x
<1> DEFINE R == {p \in Nat \X Nat : p[1] < p[2]}
<1>1. IsWellFoundedOn(R, Nat)
  <2>1. OpToRel(<, Nat) = R
    BY Zenon DEF OpToRel
  <2>2. QED
    BY <2>1, NatLessThanWellFounded, Zenon
<1>2. PICK x \in S : \A y \in S : ~(<<y, x>> \in R)
  <2> HIDE DEF R
  <2>1. QED
    BY <1>1, WFMin
<1>3. ASSUME NEW y \in S PROVE x <= y
  <2>1. <<y, x>> \in Nat \X Nat /\ ~(<<y, x>>[1] < <<y, x>>[2])
    BY <1>2
  <2>2. QED
    BY <2>1
<1>4. QED
  BY <1>3 DEF Min

(* The command looked at next is one of the command line.                   *)
LEMMA NextToDo ==
  ASSUME TypeOK, ToDo # {}
  PROVE  /\ Min(ToDo) \in Nat \ {0} /\ Min(ToDo) >= at
         /\ inv.cmds[Min(ToDo)] \in Command
         /\ Min(ToDo) \in DOMAIN inv.cmds
         /\ (inv.cmds[Min(ToDo)].type = "option") = (pass = "options")
<1>1. inv.cmds \in Seq(Command) /\ DOMAIN inv.cmds = 1 .. Len(inv.cmds) /\ Len(inv.cmds) \in Nat
  BY DEF TypeOK, Invocation
<1>2. ToDo \in SUBSET Nat
  BY <1>1 DEF ToDo
<1>3. Min(ToDo) \in ToDo
  BY <1>2, MinNat
<1>4. /\ Min(ToDo) \in DOMAIN inv.cmds /\ Min(ToDo) >= at
      /\ (inv.cmds[Min(ToDo)].type = "option") = (pass = "options")
  BY <1>3, Zenon DEF ToDo
<1>5. inv.cmds[Min(ToDo)] \in Command /\ Min(ToDo) \in Nat \ {0}
  BY <1>1, <1>4
<1>6. QED
  BY <1>4, <1>5, Zenon

(* The service released next is one of those connected.                     *)
LEMMA NextRelease ==
  ASSUME TypeOK, service_connected \ Kept # {}
  PROVE  /\ Min(service_connected \ Kept) \in service_connected \ Kept
         /\ Min(service_connected \ Kept) \in Services
<1>1. service_connected \ Kept \in SUBSET Nat
  BY ServicesAssumption DEF TypeOK
<1>2. QED
  BY <1>1, MinNat DEF TypeOK

(* A request is well formed, and so is what starting it leaves.             *)
LEMMA StartingType ==
  ASSUME TypeOK, NEW purpose \in Purpose, NEW s \in Services \cup {CTL}, NEW c \in 0 .. 255,
         Starting(purpose, s, c)
  PROVE  /\ pc' = "loop" /\ req' \in RequestRecord /\ up' \subseteq RequestRecord
         /\ sent' \in Nat
<1> DEFINE to == IF purpose = "command" THEN s ELSE CTL
           r  == [id |-> <<runs, sent + 1>>, svc |-> to,
                  tid |-> IF to = CTL THEN ctl_tid ELSE tid[to],
                  for |-> purpose, of |-> s, cid |-> c]
<1>1. to \in Services \cup {CTL}
  OBVIOUS
<1>2. (IF to = CTL THEN ctl_tid ELSE tid[to]) \in Nat
  BY <1>1 DEF TypeOK
<1>3. <<runs, sent + 1>> \in RequestId
  BY DEF TypeOK, RequestId
<1>4. r \in RequestRecord
  BY <1>1, <1>2, <1>3 DEF RequestRecord
<1>5. pc' = "loop" /\ req' = r /\ up' = (IF dead THEN up ELSE up \cup {r}) /\ sent' = sent + 1
  BY DEF Starting
<1>6. QED
  BY <1>4, <1>5 DEF TypeOK

(* The counters of transaction ids stay natural numbers.                    *)
LEMMA TidTypes ==
  ASSUME TypeOK
  PROVE  /\ NextCtlTid \in Nat
         /\ \A s \in Services : NextTid(s) \in [Services -> Nat]
BY TidsAssumption DEF TypeOK, NextCtlTid, NextTid

-----------------------------------------------------------------------------
(* Types.                                                                    *)

(* The requests the modem has yet to answer, and those whose answers have   *)
(* not been read.                                                           *)
Answers == {m \in down : m.kind = "answer"}
Flying == up \cup {m.of : m \in Answers}

(* A request goes to the service it is for, or to CTL about one.            *)
WellFormed(r) ==
    /\ r.svc = IF r.for = "command" THEN r.of ELSE CTL
    /\ r.for \in {"connect", "release"} => r.of \in Services

Formed == \A r \in Flying \cup {req} : WellFormed(r)

(* Whatever a step does, the types stay right.                              *)
LEMMA TypeStep ==
  ASSUME TypeOK, Formed, [Next]_vars
  PROVE  TypeOK'
<1> USE DEF flowVars, serviceVars, boundVars, modemVars, historyVars, givenUpVars, forgetVars,
            process
<1>1. ASSUME NEW i \in Invocations, Start(i) PROVE TypeOK'
  <2>1. i \in Invocation /\ i.keep \subseteq Services /\ i.release \subseteq Services
        /\ i.timeout \in BOOLEAN
    BY InvocationsAssumption DEF Invocation
  <2>2. NoRequest \in RequestRecord
    BY DEF NoRequest, RequestRecord, RequestId, Purpose
  <2>3. stale' \in BOOLEAN
    BY <1>1 DEF Start, CtlInFlight
  <2>4. /\ pc' = "main" /\ pass' = "options" /\ at' = 1 /\ inv' = i /\ req' = NoRequest
        /\ service_connected' = {} /\ service_keep_cid' = i.keep
        /\ service_release_cid' = i.release
        /\ client_id' = [s \in Services |-> 0] /\ tid' = [s \in Services |-> 0]
        /\ ctl_tid' = 1 /\ timer' = i.timeout /\ runs' = runs + 1 /\ sent' = 0
        /\ before' = held /\ lost' = {} /\ refused' = {} /\ forgot' = FALSE
        /\ UNCHANGED <<faults, up, down, held, dead, abandoned, taken>>
    BY <1>1 DEF Start, Fresh
  <2>5. client_id' \in [Services -> 0 .. 255] /\ tid' \in [Services -> Nat]
    BY <2>4
  <2>6. timer' \in BOOLEAN /\ forgot' \in BOOLEAN
    BY <2>1, <2>4
  <2>7. QED
    BY <2>1, <2>2, <2>3, <2>4, <2>5, <2>6 DEF TypeOK
<1>2. ASSUME RunCommand PROVE TypeOK'
  <2> DEFINE j == Min(ToDo)
             c == inv.cmds[j]
  <2>1. /\ UNCHANGED <<inv, timer, boundVars, down, held, dead, before, abandoned, taken,
                       stale, lost, refused, forgot>>
        /\ ToDo # {}
        /\ Connect(j) \/ SendCommand(j) \/ SendCtl(j) \/ NoSending(j) \/ Refuse(j)
    BY <1>2 DEF RunCommand
  <2>2. j \in Nat \ {0} /\ c \in Command /\ c.svc \in Services \cup {CTL} /\ c.id \in Nat
    BY <2>1, NextToDo DEF Command
  <2>3. CASE Connect(j)
    <3>1. c.svc \in Services /\ Starting("connect", c.svc, 0)
      BY <2>2, <2>3 DEF Connect, NeedsConnection
    <3>2. pc' = "loop" /\ req' \in RequestRecord /\ up' \subseteq RequestRecord /\ sent' \in Nat
      BY <3>1, StartingType DEF Purpose
    <3>3. QED
      BY <2>1, <2>2, <2>3, <3>2, TidTypes DEF Connect, TypeOK
  <2>4. CASE SendCommand(j)
    <3>1. c.svc \in Services /\ Starting("command", c.svc, client_id[c.svc])
      BY <2>2, <2>4 DEF SendCommand
    <3>2. client_id[c.svc] \in 0 .. 255
      BY <3>1 DEF TypeOK
    <3>3. pc' = "loop" /\ req' \in RequestRecord /\ up' \subseteq RequestRecord /\ sent' \in Nat
      BY <3>1, <3>2, StartingType DEF Purpose
    <3>4. QED
      BY <2>1, <2>2, <2>4, <3>1, <3>3, TidTypes DEF SendCommand, TypeOK
  <2>5. CASE SendCtl(j)
    <3>1. Starting(IF c.does = "sync" THEN "sync" ELSE "command", CTL, 0)
      BY <2>5 DEF SendCtl
    <3>2. pc' = "loop" /\ req' \in RequestRecord /\ up' \subseteq RequestRecord /\ sent' \in Nat
      BY <3>1, StartingType DEF Purpose
    <3>3. QED
      BY <2>1, <2>2, <2>5, <3>2, TidTypes DEF SendCtl, TypeOK
  <2>6. CASE NoSending(j)
    <3>1. /\ c.does = "set_client_id" => c.svc \in Services
          /\ c.does = "get_client_id" => c.svc \in Services
      BY <2>2 DEF Command
    <3>2. Stored(c.id) \in 0 .. 255
      <4> HIDE DEF c
      <4>1. QED
        BY <2>2 DEF Stored
    <3>3. /\ service_connected' \subseteq Services
          /\ client_id' \in [Services -> 0 .. 255] /\ tid' \in [Services -> Nat]
      <4>1. CASE c.does = "set_client_id" /\ c.svc \notin service_connected
        <5>1. /\ service_connected' = service_connected \cup {c.svc}
              /\ client_id' = [client_id EXCEPT ![c.svc] = Stored(c.id)]
              /\ tid' = [tid EXCEPT ![c.svc] = 1]
          BY <2>6, <4>1 DEF NoSending
        <5> HIDE DEF c
        <5>2. QED
          BY <3>1, <3>2, <4>1, <5>1 DEF TypeOK
      <4>2. CASE ~(c.does = "set_client_id" /\ c.svc \notin service_connected)
        <5>1. UNCHANGED <<service_connected, client_id, tid>>
          BY <2>6, <4>2 DEF NoSending
        <5>2. QED
          BY <5>1 DEF TypeOK
      <4>3. QED
        BY <4>1, <4>2
    <3>4. service_keep_cid' \subseteq Services
      BY <2>6, <3>1 DEF NoSending, TypeOK
    <3>5. at' = j + 1 /\ UNCHANGED <<pc, pass, req, up, sent, service_release_cid, ctl_tid>>
      BY <2>6 DEF NoSending
    <3>6. QED
      BY <2>1, <2>2, <3>3, <3>4, <3>5 DEF TypeOK
  <2>7. CASE Refuse(j)
    BY <2>1, <2>7 DEF Refuse, TypeOK
  <2>8. QED
    BY <2>1, <2>3, <2>4, <2>5, <2>6, <2>7
<1>3. ASSUME EndPass PROVE TypeOK'
  BY <1>3 DEF EndPass, TypeOK
<1>4. ASSUME ReleaseNext PROVE TypeOK'
  <2> DEFINE s == Min(service_connected \ Kept)
  <2>1. s \in Services
    BY <1>4, NextRelease DEF ReleaseNext
  <2>2. Starting("release", s, client_id[s]) /\ client_id[s] \in 0 .. 255
    BY <1>4, <2>1 DEF ReleaseNext, TypeOK
  <2>3. pc' = "loop" /\ req' \in RequestRecord /\ up' \subseteq RequestRecord /\ sent' \in Nat
    BY <2>1, <2>2, StartingType DEF Purpose
  <2>4. QED
    BY <1>4, <2>1, <2>3, TidTypes DEF ReleaseNext, TypeOK
<1>5. ASSUME Exit PROVE TypeOK'
  <2>1. NoRequest \in RequestRecord
    BY DEF NoRequest, RequestRecord, RequestId, Purpose
  <2>2. /\ pc' = "off" /\ at' = 1 /\ req' = NoRequest /\ timer' = FALSE
        /\ service_connected' = {} /\ service_keep_cid' = {} /\ service_release_cid' = {}
        /\ client_id' = [s \in Services |-> 0] /\ tid' = [s \in Services |-> 0]
        /\ ctl_tid' = 1 /\ sent' = 0
        /\ UNCHANGED <<pass, inv, runs, faults, up, down, held, dead, before, abandoned,
                       taken, stale, lost, refused, forgot>>
    BY <1>5 DEF Exit, Fresh
  <2>3. /\ service_connected' \subseteq Services /\ service_keep_cid' \subseteq Services
        /\ service_release_cid' \subseteq Services
        /\ client_id' \in [Services -> 0 .. 255] /\ tid' \in [Services -> Nat]
    BY <2>2
  <2>4. timer' \in BOOLEAN /\ dead' \in BOOLEAN /\ stale' \in BOOLEAN /\ forgot' \in BOOLEAN
    BY <2>2 DEF TypeOK
  <2>5. QED
    BY <2>1, <2>2, <2>3, <2>4 DEF TypeOK
<1>6. ASSUME NEW m \in down, ReceiveAnswer(m) PROVE TypeOK'
  <2>1. /\ m.of \in RequestRecord /\ m.of.id \in RequestId /\ m.cid \in 0 .. 255
        /\ req \in RequestRecord /\ req.id \in RequestId
    BY <1>6 DEF ReceiveAnswer, TypeOK, Message, SyncIndication, RequestRecord
  <2>2. /\ taken' \subseteq RequestId \X RequestId /\ abandoned' \subseteq RequestId
        /\ lost' \subseteq RequestRecord
    BY <1>6, <2>1 DEF ReceiveAnswer, GiveUp, TypeOK
  <2>3. CASE m.ok
    <3>1. CompleteWell(m.cid)
      BY <1>6, <2>3 DEF ReceiveAnswer
    <3>2. req.for = "connect" => req.of \in Services
      BY DEF Formed, WellFormed
    <3>3. service_connected' \subseteq Services
      BY <3>1, <3>2 DEF CompleteWell, TypeOK
    <3>4. client_id' \in [Services -> 0 .. 255]
      <4>1. client_id' = [client_id EXCEPT ![req.of] = m.cid] \/ client_id' = client_id
        BY <3>1 DEF CompleteWell
      <4>2. client_id \in [Services -> 0 .. 255]
        BY DEF TypeOK
      <4>3. QED
        BY <2>1, <4>1, <4>2
    <3>5. tid' \in [Services -> Nat]
      BY <3>1, <3>2 DEF CompleteWell, TypeOK
    <3>6. /\ UNCHANGED <<inv, timer, runs, faults, up, held, dead, sent, before, refused,
                          forgot, stale>>
          /\ down' = down \ {m}
          /\ pc' = "main"
          /\ UNCHANGED <<pass, at, req, service_keep_cid, service_release_cid, ctl_tid>>
      BY <1>6, <3>1 DEF ReceiveAnswer, CompleteWell
    <3>7. QED
      BY <2>2, <3>3, <3>4, <3>5, <3>6 DEF TypeOK
  <2>4. CASE ~m.ok
    BY <1>6, <2>2, <2>4 DEF ReceiveAnswer, GiveUp, givenUpVars, CompleteBadly, TypeOK
  <2>5. QED
    BY <2>3, <2>4
<1>7. ASSUME NEW m \in down, DiscardAnswer(m) PROVE TypeOK'
  BY <1>7 DEF DiscardAnswer, TypeOK
<1>8. req.id \in RequestId
  BY DEF TypeOK, RequestRecord
<1>9. ASSUME NEW m \in down, ReceiveSync(m) PROVE TypeOK'
  BY <1>8, <1>9 DEF ReceiveSync, CompleteBadly, GiveUp, TypeOK
<1>10. ASSUME TimerFires PROVE TypeOK'
  BY <1>8, <1>10 DEF TimerFires, CompleteBadly, GiveUp, TypeOK
<1>11. ASSUME Signal PROVE TypeOK'
  BY <1>8, <1>11 DEF Signal, Fault, CompleteBadly, GiveUp, TypeOK
<1>12. ASSUME NEW r \in RequestRecord, NEW ok \in BOOLEAN, NEW c \in 0 .. 255, r \in up
       PROVE  up \ {r} \subseteq RequestRecord /\ down \cup {AnswerTo(r, ok, c)} \subseteq Message
  BY <1>12 DEF AnswerTo, Message, TypeOK
<1>13. ASSUME NEW r \in up,
              \/ ModemAllocates(r) \/ ModemReleases(r) \/ ModemSyncs(r) \/ ModemAnswers(r)
              \/ ModemRefuses(r)
       PROVE  TypeOK'
  <2>1. r \in RequestRecord /\ r.cid \in 0 .. 255
    BY DEF TypeOK, RequestRecord
  <2>2. \A c \in Cids : c \in 0 .. 255
    BY CidsAssumption
  <2>3. CASE ModemAllocates(r)
    <3>1. PICK c \in Cids : held' = [held EXCEPT ![r.of] = @ \cup {c}] /\ Replies(r, TRUE, c)
      BY <2>3 DEF ModemAllocates
    <3>2. up' \subseteq RequestRecord /\ down' \subseteq Message
      BY <1>12, <2>1, <2>2, <3>1 DEF Replies
    <3>3. held' \in [Services -> SUBSET Cids]
      BY <3>1 DEF TypeOK
    <3>4. QED
      BY <2>3, <3>1, <3>2, <3>3 DEF ModemAllocates, Replies, TypeOK
  <2>4. ASSUME NEW ok \in BOOLEAN, NEW c \in 0 .. 255, Replies(r, ok, c),
               held' \in [Services -> SUBSET Cids], faults' \in Nat,
               before' \in [Services -> SUBSET Cids], refused' \subseteq Services,
               forgot' \in BOOLEAN
        PROVE  TypeOK'
    <3>1. up' \subseteq RequestRecord /\ down' \subseteq Message
      BY <1>12, <2>1, <2>4 DEF Replies
    <3>2. UNCHANGED <<pc, pass, at, inv, req, service_connected, service_keep_cid,
                      service_release_cid, client_id, tid, ctl_tid, timer, runs, dead, sent,
                      abandoned, lost, taken, stale>>
      BY <2>4 DEF Replies
    <3>3. QED
      BY <2>4, <3>1, <3>2 DEF TypeOK
  <2>5. /\ held \in [Services -> SUBSET Cids] /\ faults \in Nat
        /\ before \in [Services -> SUBSET Cids] /\ refused \subseteq Services
        /\ forgot \in BOOLEAN
    BY DEF TypeOK
  <2>6. TRUE \in BOOLEAN /\ FALSE \in BOOLEAN /\ 0 \in 0 .. 255
    OBVIOUS
  <2>7. CASE ModemReleases(r)
    <3>1. held' \in [Services -> SUBSET Cids]
      BY <2>5, <2>7 DEF ModemReleases
    <3>2. Replies(r, TRUE, r.cid) /\ UNCHANGED <<faults, before, refused, forgot>>
      BY <2>7 DEF ModemReleases
    <3>3. QED
      BY <2>1, <2>4, <2>5, <2>6, <3>1, <3>2, Zenon
  <2>8. CASE ModemSyncs(r)
    <3>1. /\ held' \in [Services -> SUBSET Cids] /\ before' \in [Services -> SUBSET Cids]
          /\ forgot' \in BOOLEAN
      BY <2>8 DEF ModemSyncs, Forgets
    <3>2. Replies(r, TRUE, 0) /\ UNCHANGED <<faults, refused>>
      BY <2>8 DEF ModemSyncs, Forgets
    <3>3. QED
      BY <2>4, <2>5, <2>6, <3>1, <3>2, Zenon
  <2>9. CASE ModemAnswers(r)
    <3>1. Replies(r, TRUE, 0) /\ UNCHANGED <<held, faults, before, refused, forgot>>
      BY <2>9 DEF ModemAnswers
    <3>2. QED
      BY <2>4, <2>5, <2>6, <3>1, Zenon
  <2>10. CASE ModemRefuses(r)
    <3>1. Replies(r, FALSE, 0) /\ UNCHANGED <<held, before, forgot>>
      BY <2>10 DEF ModemRefuses
    <3>2. faults' \in Nat /\ refused' \subseteq Services
      <4>1. r.for = "release" => r.of \in Services
        BY DEF Formed, WellFormed, Flying
      <4>2. QED
        BY <2>5, <2>10, <4>1 DEF ModemRefuses, Fault
    <3>3. QED
      BY <2>4, <2>5, <2>6, <3>1, <3>2, Zenon
  <2>11. QED
    BY <1>13, <2>3, <2>7, <2>8, <2>9, <2>10
<1>14. ASSUME ModemReboots PROVE TypeOK'
  BY <1>14 DEF ModemReboots, Forgets, Fault, TypeOK, Message
<1>15. ASSUME ModemDies PROVE TypeOK'
  BY <1>15 DEF ModemDies, Fault, TypeOK
<1>16. ASSUME DeviceDrops PROVE TypeOK'
  BY <1>16 DEF DeviceDrops, TypeOK
<1>17. CASE UNCHANGED vars
  BY <1>17 DEF vars, TypeOK
<1>18. QED
  BY <1>1, <1>2, <1>3, <1>4, <1>5, <1>6, <1>7, <1>9, <1>10, <1>11, <1>13, <1>14, <1>15, <1>16,
     <1>17 DEF Next, Main, Receiving, Answering

-----------------------------------------------------------------------------
(* The shapes of steps.                                                      *)

(* A request is started, a release if and only if the run is closing.       *)
Asks ==
    /\ pc = "main"
    /\ \E p \in Purpose, s \in Services \cup {CTL}, c \in 0 .. 255 :
          /\ Starting(p, s, c)
          /\ p = "release" <=> pass = "closing"
          /\ p \in {"connect", "release"} => s \in Services
    /\ UNCHANGED <<pass, runs, down, abandoned, lost, taken, stale>>

(* The process goes on to its next request, or exits.                       *)
Moves ==
    /\ pc = "main"
    /\ \/ pc' = "main" /\ UNCHANGED <<req, sent>> /\ (pass = "closing" => pass' = "closing")
       \/ pc' = "off" /\ req' = NoRequest
    /\ UNCHANGED <<runs, up, down, abandoned, lost, taken, stale>>

(* The pending request is given up.                                         *)
Fails ==
    /\ pc = "loop"
    /\ CompleteBadly
    /\ GiveUp
    /\ Answers' = Answers
    /\ UNCHANGED <<up, runs, sent, held, forgetVars, taken, stale>>

(* The process does nothing; messages are lost, or one is answered.         *)
Serves ==
    /\ \/ up' \subseteq up /\ Answers' \subseteq Answers
       \/ \E r \in up, m \in Message :
             /\ m.kind = "answer" /\ m.of = r
             /\ up' = up \ {r}
             /\ Answers' = Answers \cup {m}
    /\ UNCHANGED <<flowVars, inv, req, serviceVars, ctl_tid, runs, sent, abandoned, lost, taken,
                   stale>>

(* What the process does not do itself completes its request or leaves it be.*)
LEMMA Steps ==
  ASSUME TypeOK, [Next]_vars
  PROVE  \/ \E i \in Invocations : Start(i)
         \/ RunCommand \/ EndPass \/ ReleaseNext \/ Exit
         \/ Fails \/ Serves
         \/ \E m \in down : ReceiveAnswer(m)
<1> USE DEF flowVars, serviceVars, boundVars, modemVars, historyVars, givenUpVars, forgetVars,
            process
<1>1. ASSUME NEW m \in down, DiscardAnswer(m) PROVE Serves
  BY <1>1 DEF DiscardAnswer, Serves, Answers
<1>2. ASSUME NEW m \in down, ReceiveSync(m) PROVE Fails
  BY <1>2 DEF ReceiveSync, Fails, Answers
<1>3. TimerFires => Fails
  BY DEF TimerFires, Fails, Answers
<1>4. Signal => Fails \/ Serves
  BY DEF Signal, Fails, Serves, Answers
<1>5. ASSUME NEW r \in up, NEW ok \in BOOLEAN, NEW c \in 0 .. 255, Replies(r, ok, c) PROVE Serves
  <2> DEFINE m == AnswerTo(r, ok, c)
  <2>1. r \in RequestRecord
    BY DEF TypeOK
  <2>2. m \in Message /\ m.kind = "answer" /\ m.of = r
    BY <2>1 DEF AnswerTo, Message
  <2>3. /\ up' = up \ {r} /\ down' = down \cup {m}
        /\ UNCHANGED <<flowVars, inv, req, serviceVars, ctl_tid, runs, sent, abandoned, lost,
                       taken, stale>>
    BY <1>5 DEF Replies
  <2> HIDE DEF m
  <2>4. Answers' = Answers \cup {m}
    BY <2>2, <2>3 DEF Answers
  <2>5. QED
    BY <2>2, <2>3, <2>4 DEF Serves, flowVars
<1>6. ASSUME NEW r \in up,
              \/ ModemAllocates(r) \/ ModemReleases(r) \/ ModemSyncs(r) \/ ModemAnswers(r)
              \/ ModemRefuses(r)
       PROVE  Serves
  <2>1. r.cid \in 0 .. 255
    BY DEF TypeOK, RequestRecord
  <2>2. \A c \in Cids : c \in 0 .. 255
    BY CidsAssumption
  <2>3. TRUE \in BOOLEAN /\ FALSE \in BOOLEAN /\ 0 \in 0 .. 255
    OBVIOUS
  <2>4. \/ \E c \in Cids : Replies(r, TRUE, c)
        \/ Replies(r, TRUE, r.cid) \/ Replies(r, TRUE, 0) \/ Replies(r, FALSE, 0)
    BY <1>6, Zenon DEF ModemAllocates, ModemReleases, ModemSyncs, ModemAnswers, ModemRefuses
  <2>5. QED
    BY <1>5, <2>1, <2>2, <2>3, <2>4, Zenon
<1>7. ModemReboots => Serves
  BY DEF ModemReboots, Serves, Answers, SyncIndication
<1>8. ModemDies => Serves
  BY DEF ModemDies, Serves, Answers
<1>9. DeviceDrops => Serves
  BY DEF DeviceDrops, Serves, Answers
<1>10. UNCHANGED vars => Serves
  BY DEF vars, Serves, Answers
<1>11. QED
  BY <1>1, <1>2, <1>3, <1>4, <1>6, <1>7, <1>8, <1>9, <1>10, Zenon
     DEF Next, Main, Receiving, Answering

(* Every step has one of these shapes, or begins a run, or completes the    *)
(* pending request with an answer.                                          *)
LEMMA Shapes ==
  ASSUME TypeOK, [Next]_vars
  PROVE  \/ \E i \in Invocations : Start(i)
         \/ Asks \/ Moves \/ Fails \/ Serves
         \/ \E m \in down : ReceiveAnswer(m)
<1> USE DEF flowVars, serviceVars, boundVars, modemVars, historyVars, givenUpVars, forgetVars
<1>1. ASSUME RunCommand PROVE Asks \/ Moves
  <2> DEFINE j == Min(ToDo)
             c == inv.cmds[j]
  <2>1. /\ UNCHANGED <<inv, timer, boundVars, down, held, dead, before, abandoned, taken,
                       stale, lost, refused, forgot>>
        /\ ToDo # {} /\ pc = "main" /\ pass # "closing"
        /\ Connect(j) \/ SendCommand(j) \/ SendCtl(j) \/ NoSending(j) \/ Refuse(j)
    BY <1>1 DEF RunCommand
  <2>2. c \in Command /\ c.svc \in Services \cup {CTL}
    BY <2>1, NextToDo DEF Command
  <2>3. CASE Connect(j)
    <3>1. c.svc \in Services /\ Starting("connect", c.svc, 0) /\ UNCHANGED pass
      BY <2>2, <2>3 DEF Connect, NeedsConnection
    <3>2. "connect" \in Purpose /\ 0 \in 0 .. 255
      BY DEF Purpose
    <3>3. QED
      BY <2>1, <3>1, <3>2, Zenon DEF Asks
  <2>4. CASE SendCommand(j)
    <3>1. c.svc \in Services /\ Starting("command", c.svc, client_id[c.svc]) /\ UNCHANGED pass
      BY <2>2, <2>4 DEF SendCommand
    <3>2. "command" \in Purpose /\ client_id[c.svc] \in 0 .. 255
      BY <3>1 DEF TypeOK, Purpose
    <3>3. QED
      BY <2>1, <2>2, <3>1, <3>2 DEF Asks
  <2>5. CASE SendCtl(j)
    <3>1. /\ Starting("sync", CTL, 0) \/ Starting("command", CTL, 0)
          /\ UNCHANGED pass
      BY <2>5 DEF SendCtl
    <3>2. "command" \in Purpose /\ "sync" \in Purpose /\ 0 \in 0 .. 255
          /\ CTL \in Services \cup {CTL}
      BY DEF Purpose
    <3>3. QED
      BY <2>1, <3>1, <3>2 DEF Asks
  <2>6. CASE NoSending(j)
    BY <2>1, <2>6 DEF NoSending, Moves
  <2>7. CASE Refuse(j)
    BY <2>1, <2>7 DEF Refuse, Moves
  <2>8. QED
    BY <2>1, <2>3, <2>4, <2>5, <2>6, <2>7
<1>2. EndPass => Moves
  BY DEF EndPass, Moves
<1>3. ASSUME ReleaseNext PROVE Asks
  <2> DEFINE s == Min(service_connected \ Kept)
  <2>1. s \in Services
    BY <1>3, NextRelease DEF ReleaseNext
  <2>2. /\ Starting("release", s, client_id[s]) /\ client_id[s] \in 0 .. 255
        /\ pc = "main" /\ pass = "closing"
        /\ UNCHANGED <<pass, runs, down, abandoned, lost, taken, stale>>
    BY <1>3, <2>1 DEF ReleaseNext, TypeOK
  <2>3. "release" \in Purpose
    BY DEF Purpose
  <2>4. QED
    BY <2>1, <2>2, <2>3 DEF Asks
<1>4. Exit => Moves
  BY DEF Exit, Fresh, Moves
<1>5. QED
  BY <1>1, <1>2, <1>3, <1>4, Steps

(* What a shape does to the messages in flight.                             *)
LEMMA AsksFlying ==
  ASSUME TypeOK, Asks
  PROVE  /\ pc' = "loop" /\ sent' = sent + 1 /\ Answers' = Answers
         /\ req' \in RequestRecord /\ req'.id = <<runs, sent + 1>> /\ WellFormed(req')
         /\ req'.for = "release" <=> pass = "closing"
         /\ up' \subseteq up \cup {req'} /\ Flying' \subseteq Flying \cup {req'}
<1>1. PICK p \in Purpose, s \in Services \cup {CTL}, c \in 0 .. 255 :
          /\ Starting(p, s, c)
          /\ p = "release" <=> pass = "closing"
          /\ p \in {"connect", "release"} => s \in Services
  BY DEF Asks
<1>2. /\ pc' = "loop" /\ req' \in RequestRecord /\ sent' = sent + 1
      /\ up' \subseteq up \cup {req'}
  BY <1>1, StartingType DEF Starting
<1>3. /\ req'.id = <<runs, sent + 1>> /\ req'.for = p /\ req'.of = s
      /\ req'.svc = IF p = "command" THEN s ELSE CTL
  BY <1>1 DEF Starting
<1>4. Answers' = Answers
  BY DEF Asks, Answers
<1>5. Flying' \subseteq Flying \cup {req'}
  BY <1>2, <1>4 DEF Flying
<1>6. QED
  BY <1>1, <1>2, <1>3, <1>4, <1>5 DEF WellFormed

(* Other steps put no new request in flight.                                *)
LEMMA OthersFlying ==
  /\ Serves => Flying' \subseteq Flying
  /\ Moves \/ (\E i \in Invocations : Start(i))
       => up' = up /\ Answers' = Answers /\ Flying' = Flying
  /\ Fails \/ (\E m \in down : ReceiveAnswer(m))
       => up' = up /\ Answers' \subseteq Answers /\ Flying' \subseteq Flying
<1>1. Serves => Flying' \subseteq Flying
  BY DEF Serves, Flying
<1>2. Moves \/ (\E i \in Invocations : Start(i))
        => up' = up /\ Answers' = Answers /\ Flying' = Flying
  BY DEF Moves, Start, modemVars, Flying, Answers
<1>3. Fails \/ (\E m \in down : ReceiveAnswer(m))
        => up' = up /\ Answers' \subseteq Answers
  BY DEF Fails, ReceiveAnswer, Answers
<1>4. QED
  BY <1>1, <1>2, <1>3 DEF Flying

(* Every request in flight is formed as its purpose says.                   *)
LEMMA FormedStep ==
  ASSUME TypeOK, Formed, [Next]_vars
  PROVE  Formed'
<1>1. WellFormed(NoRequest)
  BY DEF WellFormed, NoRequest
<1>2. CASE Asks
  BY <1>2, AsksFlying DEF Formed, WellFormed
<1>3. CASE ~Asks
  <2>1. Flying' \subseteq Flying
    BY <1>3, Shapes, OthersFlying
  <2>2. req' \in {req, NoRequest}
    BY <1>3, Shapes DEF Start, Fresh, Moves, Fails, CompleteBadly, CompleteWell, Serves,
                        ReceiveAnswer
  <2>3. QED
    BY <1>1, <2>1, <2>2 DEF Formed, WellFormed
<1>4. QED
  BY <1>2, <1>3

(* Initially there is no request to go wrong.                               *)
LEMMA TypeInit == Init => TypeOK /\ Formed
<1> SUFFICES ASSUME Init PROVE TypeOK /\ Formed
  OBVIOUS
<1>1. Idle \in Invocation
  BY DEF Idle, Invocation
<1>2. NoRequest \in RequestRecord /\ WellFormed(NoRequest)
  BY DEF NoRequest, RequestRecord, RequestId, Purpose, WellFormed
<1>3. /\ client_id \in [Services -> 0 .. 255] /\ tid \in [Services -> Nat]
      /\ held \in [Services -> SUBSET Cids] /\ before \in [Services -> SUBSET Cids]
  BY DEF Init
<1>4. timer \in BOOLEAN /\ dead \in BOOLEAN /\ stale \in BOOLEAN /\ forgot \in BOOLEAN
  BY DEF Init
<1>5. TypeOK
  BY <1>1, <1>2, <1>3, <1>4 DEF Init, TypeOK
<1>6. QED
  BY <1>2, <1>5 DEF Init, Formed, Flying, Answers

(* The tool's state is well typed, whatever it is called with and whatever  *)
(* the modem does: every request concerns a service it can be sent to, every*)
(* client id fits its eight bits.                                           *)
THEOREM TypeCorrect == Spec => []TypeOK
<1>1. TypeOK /\ Formed /\ [Next]_vars => TypeOK' /\ Formed'
  BY TypeStep, FormedStep
<1>2. QED
  BY TypeInit, <1>1, PTL DEF Spec

-----------------------------------------------------------------------------
(* A run that gives a request up.                                            *)

(* Requests are numbered in the order of their starting: one known to the   *)
(* modem or given up was started in this run or in an earlier one.          *)
Issued(i) == i[1] <= runs /\ (pc # "off" /\ i[1] = runs => i[2] <= sent)

Ids ==
    /\ \A r \in Flying : Issued(r.id)
    /\ \A a \in abandoned : Issued(a)
    /\ pc = "loop" => req.id = <<runs, sent>>

(* Closing, a run starts releases and nothing else.                         *)
Closing == pc = "loop" => (req.for = "release" <=> pass = "closing")

(* The requests given up without a wrong answer.                            *)
GivenUp == abandoned \ {p[1] : p \in taken}

GaveUp == \A a \in GivenUp : pc # "off" /\ a[1] = runs => pass = "closing"

Numbered == TypeOK /\ Formed /\ Ids /\ Closing /\ GaveUp

(* Numbers stay those of requests that were started.                        *)
LEMMA IdsStep ==
  ASSUME TypeOK, Ids, [Next]_vars
  PROVE  Ids'
<1> USE DEF Ids, Issued
<1>1. /\ runs \in Nat /\ sent \in Nat /\ \A r \in Flying : r.id \in Nat \X Nat
      /\ abandoned \subseteq Nat \X Nat
  BY DEF TypeOK, Flying, Answers, RequestRecord, RequestId, Message, SyncIndication
<1>2. CASE \E i \in Invocations : Start(i)
  <2>1. runs' = runs + 1 /\ pc' = "main" /\ abandoned' = abandoned /\ Flying' = Flying
    BY <1>2, OthersFlying DEF Start
  <2>2. QED
    BY <1>1, <2>1
<1>3. CASE Asks
  <2>1. /\ pc = "main" /\ pc' = "loop" /\ sent' = sent + 1 /\ runs' = runs
        /\ req'.id = <<runs, sent + 1>> /\ Flying' \subseteq Flying \cup {req'}
        /\ abandoned' = abandoned
    BY <1>3, AsksFlying DEF Asks
  <2>2. QED
    BY <1>1, <2>1
<1>4. CASE Moves
  <2>1. /\ runs' = runs /\ pc = "main" /\ (pc' = "off" \/ (pc' = "main" /\ sent' = sent))
        /\ abandoned' = abandoned /\ Flying' = Flying
    BY <1>4, OthersFlying DEF Moves
  <2>2. QED
    BY <1>1, <2>1
<1>5. CASE Fails
  <2>1. /\ pc = "loop" /\ pc' = "main" /\ sent' = sent /\ runs' = runs
        /\ abandoned' = abandoned \cup {req.id} /\ Flying' \subseteq Flying
    BY <1>5, OthersFlying DEF Fails, GiveUp, CompleteBadly
  <2>2. QED
    BY <1>1, <2>1
<1>6. CASE Serves
  <2>1. UNCHANGED <<pc, req, runs, sent, abandoned>> /\ Flying' \subseteq Flying
    BY <1>6, OthersFlying DEF Serves, flowVars
  <2>2. QED
    BY <1>1, <2>1
<1>7. CASE \E m \in down : ReceiveAnswer(m)
  <2>1. /\ pc = "loop" /\ pc' = "main" /\ sent' = sent /\ runs' = runs
        /\ abandoned' \subseteq abandoned \cup {req.id} /\ Flying' \subseteq Flying
    BY <1>7, OthersFlying DEF ReceiveAnswer, GiveUp, givenUpVars, CompleteBadly, CompleteWell, boundVars
  <2>2. QED
    BY <1>1, <2>1
<1>8. QED
  BY <1>2, <1>3, <1>4, <1>5, <1>6, <1>7, Shapes

(* A run stays closing once it is, and begins to when it gives a request up.*)
LEMMA GaveUpStep ==
  ASSUME TypeOK, Ids, Closing, GaveUp, [Next]_vars
  PROVE  Closing' /\ GaveUp'
<1> USE DEF Closing, GaveUp, GivenUp
<1>1. /\ runs \in Nat /\ abandoned \subseteq Nat \X Nat
      /\ req.for \in Purpose /\ pass \in {"options", "commands", "closing"}
  BY DEF TypeOK, RequestRecord, RequestId
<1>2. CASE \E i \in Invocations : Start(i)
  <2>1. runs' = runs + 1 /\ pc' = "main" /\ UNCHANGED <<abandoned, taken>>
    BY <1>2 DEF Start
  <2>2. \A a \in abandoned : a[1] <= runs
    BY DEF Ids, Issued
  <2>3. QED
    BY <1>1, <2>1, <2>2
<1>3. CASE Asks
  <2>1. /\ pc = "main" /\ UNCHANGED <<pass, runs, abandoned, taken>>
        /\ req'.for = "release" <=> pass = "closing"
    BY <1>3, AsksFlying DEF Asks
  <2>2. QED
    BY <2>1
<1>4. CASE Moves
  <2>1. /\ pc = "main" /\ UNCHANGED <<runs, abandoned, taken>>
        /\ pc' = "off" \/ (pc' = "main" /\ (pass = "closing" => pass' = "closing"))
    BY <1>4 DEF Moves
  <2>2. GivenUp' = GivenUp
    BY <2>1
  <2>3. QED
    BY <2>1, <2>2
<1>5. CASE Fails
  <2>1. /\ pc = "loop" /\ pc' = "main" /\ runs' = runs /\ taken' = taken
        /\ abandoned' = abandoned \cup {req.id}
        /\ pass' = "closing"
    BY <1>5 DEF Fails, GiveUp, CompleteBadly, Failed
  <2>2. QED
    BY <2>1
<1>6. CASE Serves
  BY <1>6 DEF Serves, flowVars
<1>7. CASE \E m \in down : ReceiveAnswer(m)
  <2>1. PICK m \in down : ReceiveAnswer(m)
    BY <1>7
  <2>2. /\ pc = "loop" /\ pc' = "main" /\ runs' = runs /\ (pass = "closing" => pass' = "closing")
    BY <2>1 DEF ReceiveAnswer, GiveUp, givenUpVars, CompleteBadly, CompleteWell, boundVars
  <2>3. \/ UNCHANGED <<taken, abandoned>>
        \/ /\ taken' = taken \cup {<<req.id, m.of.id>>}
           /\ abandoned' = abandoned \cup {req.id}
    BY <2>1 DEF ReceiveAnswer, GiveUp, givenUpVars
  <2>4. ASSUME NEW a \in GivenUp' PROVE a \in GivenUp
    <3>1. CASE UNCHANGED <<taken, abandoned>>
      BY <3>1
    <3>2. CASE /\ taken' = taken \cup {<<req.id, m.of.id>>}
               /\ abandoned' = abandoned \cup {req.id}
      <4>1. <<req.id, m.of.id>>[1] = req.id /\ <<req.id, m.of.id>> \in taken'
        BY <3>2
      <4>2. a # req.id /\ a \in abandoned
        BY <3>2, <4>1
      <4>3. QED
        BY <3>2, <4>2
    <3>3. QED
      BY <2>3, <3>1, <3>2
  <2>5. QED
    BY <2>2, <2>4
<1>8. QED
  BY <1>2, <1>3, <1>4, <1>5, <1>6, <1>7, Shapes

(* The numbering and what follows from it are inductive.                    *)
LEMMA NumberedInductive ==
  /\ Init => Numbered
  /\ Numbered /\ [Next]_vars => Numbered'
<1>1. Init => Numbered
  BY TypeInit DEF Init, Numbered, Ids, Closing, GaveUp, GivenUp, Flying, Answers
<1>2. Numbered /\ [Next]_vars => Numbered'
  <2> SUFFICES ASSUME Numbered, [Next]_vars PROVE Numbered'
    OBVIOUS
  <2>1. TypeOK /\ Formed /\ Ids /\ Closing /\ GaveUp
    BY DEF Numbered
  <2>2. TypeOK' /\ Formed' /\ Ids' /\ Closing' /\ GaveUp'
    BY <2>1, TypeStep, FormedStep, IdsStep, GaveUpStep
  <2>3. QED
    BY <2>2 DEF Numbered
<1>3. QED
  BY <1>1, <1>2

(* Once a run has given a request up, for its timer, a signal or the        *)
(* modem's reboot, it asks the modem for nothing but releases               *)
(* (commands.c:228-270): StopsWhenItGivesUp.                                *)
THEOREM GivingUpCorrect == Spec => []StopsWhenItGivesUp
<1>1. Init => StopsWhenItGivesUp
  BY DEF Init, StopsWhenItGivesUp
<1>2. Numbered /\ StopsWhenItGivesUp /\ [Next]_vars => StopsWhenItGivesUp'
  <2> SUFFICES ASSUME Numbered, StopsWhenItGivesUp, [Next]_vars,
                      NEW m \in up', NEW a \in GivenUp', a[1] = m.id[1], a[2] < m.id[2]
               PROVE  m.for = "release"
    BY DEF StopsWhenItGivesUp, GivenUp
  <2> USE DEF GivenUp
  <2>1. TypeOK /\ Ids /\ GaveUp
    BY DEF Numbered
  <2>2. \A x \in up : x.id \in Nat \X Nat /\ x.id[1] \in Nat /\ x.id[2] \in Nat
    BY <2>1 DEF TypeOK, RequestRecord, RequestId
  <2>3. CASE Asks
    <3>1. /\ GivenUp' = GivenUp /\ up' \subseteq up \cup {req'} /\ pc = "main"
          /\ req'.id = <<runs, sent + 1>> /\ (req'.for = "release" <=> pass = "closing")
      BY <2>1, <2>3, AsksFlying DEF Asks
    <3>2. CASE m \in up
      BY <3>1, <3>2 DEF StopsWhenItGivesUp
    <3>3. CASE m = req'
      BY <2>1, <3>1, <3>3 DEF GaveUp
    <3>4. QED
      BY <3>1, <3>2, <3>3
  <2>4. CASE ~Asks
    <3>1. m \in up
      BY <2>1, <2>4, Shapes, OthersFlying DEF Serves, flowVars
    <3>2. CASE a \in GivenUp
      BY <3>1, <3>2 DEF StopsWhenItGivesUp
    <3>3. CASE a \notin GivenUp
      <4>1. pc = "loop" /\ a = req.id
        BY <2>1, <2>4, <3>3, Shapes DEF Start, Moves, Fails, Serves, ReceiveAnswer, GiveUp, givenUpVars
      <4>2. a = <<runs, sent>> /\ m \in Flying /\ Issued(m.id)
        BY <2>1, <3>1, <4>1 DEF Ids, Flying
      <4>3. QED
        BY <2>1, <2>2, <3>1, <4>1, <4>2 DEF Issued, TypeOK
    <3>4. QED
      BY <3>2, <3>3
  <2>5. QED
    BY <2>3, <2>4
<1>3. QED
  BY <1>1, <1>2, NumberedInductive, PTL DEF Spec

-----------------------------------------------------------------------------
(* Answers and the requests they complete.                                   *)

(* A request is with the modem, or answered, but not both, nor twice.       *)
Unique ==
    /\ \A q, r \in up : q.id = r.id => q = r
    /\ \A m, n \in Answers : m.of.id = n.of.id => m = n
    /\ \A q \in up, m \in Answers : q.id # m.of.id

(* What is in flight is the pending request, or one that was given up.      *)
OnlyPending == \A r \in Flying : r.id \in abandoned \/ (pc = "loop" /\ r = req)

Pending == Numbered /\ Unique /\ OnlyPending

(* A new request has a number of its own, and an answer takes its place.    *)
LEMMA UniqueStep ==
  ASSUME TypeOK, Ids, Unique, [Next]_vars
  PROVE  Unique'
<1> USE DEF Unique
<1>1. CASE Asks
  <2>1. /\ up' \subseteq up \cup {req'} /\ Answers' = Answers
        /\ req'.id = <<runs, sent + 1>> /\ pc # "off"
    BY <1>1, AsksFlying DEF Asks
  <2>2. \A r \in Flying : r.id # req'.id
    BY <2>1 DEF Ids, Issued, TypeOK
  <2>3. QED
    BY <2>1, <2>2 DEF Flying
<1>2. CASE Serves
  <2>1. CASE up' \subseteq up /\ Answers' \subseteq Answers
    BY <2>1
  <2>2. ASSUME NEW r \in up, NEW m \in Message, m.of = r, up' = up \ {r},
               Answers' = Answers \cup {m}
        PROVE  Unique'
    BY <2>2
  <2>3. QED
    BY <1>2, <2>1, <2>2 DEF Serves, flowVars
<1>3. CASE ~Asks /\ ~Serves
  <2>1. up' = up /\ Answers' \subseteq Answers
    BY <1>3, Shapes, OthersFlying
  <2>2. QED
    BY <2>1
<1>4. QED
  BY <1>1, <1>2, <1>3

(* No request is left behind but those given up.                            *)
LEMMA OnlyPendingStep ==
  ASSUME TypeOK, Unique, OnlyPending, [Next]_vars
  PROVE  OnlyPending'
<1> USE DEF OnlyPending
<1>1. CASE Asks
  <2>1. /\ Flying' \subseteq Flying \cup {req'} /\ abandoned' = abandoned
        /\ pc = "main" /\ pc' = "loop"
    BY <1>1, AsksFlying DEF Asks
  <2>2. QED
    BY <2>1
<1>2. CASE Fails
  <2>1. Flying' \subseteq Flying /\ abandoned' = abandoned \cup {req.id}
    BY <1>2, OthersFlying DEF Fails, GiveUp
  <2>2. QED
    BY <2>1
<1>3. CASE Serves
  <2>1. Flying' \subseteq Flying /\ UNCHANGED <<pc, req, abandoned>>
    BY <1>3, OthersFlying DEF Serves, flowVars
  <2>2. QED
    BY <2>1
<1>4. CASE Moves \/ \E i \in Invocations : Start(i)
  <2>1. Flying' = Flying /\ abandoned' = abandoned /\ pc # "loop"
    BY <1>4, OthersFlying DEF Moves, Start
  <2>2. QED
    BY <2>1
<1>5. ASSUME NEW m \in down, ReceiveAnswer(m) PROVE OnlyPending'
  <2>1. /\ up' = up /\ Answers' = Answers \ {m} /\ m \in Answers
        /\ abandoned \subseteq abandoned' /\ (m.of.id # req.id => req.id \in abandoned')
    BY <1>5 DEF ReceiveAnswer, GiveUp, givenUpVars, Answers
  <2>2. Flying' \subseteq Flying
    BY <2>1 DEF Flying
  <2>3. CASE m.of.id # req.id
    BY <2>1, <2>2, <2>3
  <2>4. CASE m.of.id = req.id
    <3>1. ASSUME NEW r \in Flying' PROVE r.id # req.id
      <4>1. r \in up \/ \E n \in Answers \ {m} : r = n.of
        BY <2>1 DEF Flying
      <4>2. QED
        BY <2>1, <2>4, <4>1 DEF Unique
    <3>2. QED
      BY <2>1, <2>2, <3>1
  <2>5. QED
    BY <2>3, <2>4
<1>6. QED
  BY <1>1, <1>2, <1>3, <1>4, <1>5, Shapes

(* So the pending requests are told apart.                                  *)
LEMMA PendingInductive ==
  /\ Init => Pending
  /\ Pending /\ [Next]_vars => Pending'
<1>1. Init => Pending
  BY NumberedInductive DEF Init, Pending, Unique, OnlyPending, Flying, Answers
<1>2. Pending /\ [Next]_vars => Pending'
  <2> SUFFICES ASSUME Pending, [Next]_vars PROVE Pending'
    OBVIOUS
  <2>1. Numbered /\ TypeOK /\ Ids /\ Unique /\ OnlyPending
    BY DEF Pending, Numbered
  <2>2. Numbered' /\ Unique' /\ OnlyPending'
    BY <2>1, NumberedInductive, UniqueStep, OnlyPendingStep
  <2>3. QED
    BY <2>2 DEF Pending
<1>3. QED
  BY <1>1, <1>2

-----------------------------------------------------------------------------
(* Transaction ids within a run.                                             *)

(* Command lines for which the counters of transaction ids last: a run      *)
(* sends, for every option and command, one request, and connects and       *)
(* releases each service once.                                              *)
Most(cmds) == 2 * Len(cmds) + 2 * Cardinality(Services)

ShortLines ==
    \A i \in Invocations : Most(i.cmds) + 1 < CtlTids /\ Most(i.cmds) + 1 < ServiceTids

(* The commands a run is done with, and the connection it waits for.        *)
Handled ==
    CASE pass = "options"  -> at - 1
      [] pass = "commands" -> Len(inv.cmds) + at - 1
      [] pass = "closing"  -> 2 * Len(inv.cmds)

Waiting == IF pc = "loop" /\ req.for = "connect" THEN 1 ELSE 0

FewSent ==
    pc # "off" =>
        /\ inv \in Invocations
        /\ at - 1 <= Len(inv.cmds)
        /\ pass # "closing" => sent <= Handled + Cardinality(service_connected) + Waiting
        /\ pass = "closing" => sent + Cardinality(service_connected) <= Most(inv.cmds)

(* A service is connected that is not.                                      *)
Connecting ==
    pc = "loop" /\ req.for = "connect" => req.of \in Services \ service_connected

(* Sizes of sets of services.                                               *)
LEMMA Sizes ==
  ASSUME NEW S \in SUBSET Services
  PROVE  /\ IsFiniteSet(S) /\ Cardinality(S) \in Nat /\ Cardinality(Services) \in Nat
         /\ Cardinality(S) <= Cardinality(Services)
         /\ \A s \in Services \ S : /\ Cardinality(S \cup {s}) = Cardinality(S) + 1
                                    /\ Cardinality(S) + 1 <= Cardinality(Services)
         /\ \A s \in S : Cardinality(S \ {s}) = Cardinality(S) - 1
<1>1. IsFiniteSet(Services)
  BY ServicesAssumption
<1>2. /\ IsFiniteSet(S) /\ Cardinality(S) \in Nat /\ Cardinality(Services) \in Nat
      /\ Cardinality(S) <= Cardinality(Services)
  BY <1>1, FS_Subset, FS_CardinalityType
<1>3. ASSUME NEW s \in Services \ S
      PROVE  /\ Cardinality(S \cup {s}) = Cardinality(S) + 1
             /\ Cardinality(S) + 1 <= Cardinality(Services)
  <2>1. Cardinality(S \cup {s}) = Cardinality(S) + 1
    BY <1>2, <1>3, FS_AddElement
  <2>2. Cardinality(S \cup {s}) <= Cardinality(Services)
    BY <1>1, <1>3, FS_Subset
  <2>3. QED
    BY <2>1, <2>2
<1>4. ASSUME NEW s \in S PROVE Cardinality(S \ {s}) = Cardinality(S) - 1
  BY <1>2, <1>4, FS_RemoveElement
<1>5. QED
  BY <1>2, <1>3, <1>4

(* What RunCommand does to the state the counting needs.                    *)
LEMMA RunCommandCases ==
  ASSUME TypeOK, RunCommand
  PROVE  /\ pc = "main" /\ pass # "closing"
         /\ UNCHANGED <<inv, timer, boundVars, down, held, dead, before, abandoned, taken,
                        stale, lost, refused, forgot>>
         /\ Min(ToDo) \in Nat \ {0} /\ at <= Min(ToDo) /\ Min(ToDo) <= Len(inv.cmds)
         /\ inv.cmds[Min(ToDo)] \in Command
         /\ LET j == Min(ToDo)
                c == inv.cmds[j]
            IN  /\ Connect(j) \/ SendCommand(j) \/ SendCtl(j) \/ NoSending(j) \/ Refuse(j)
                /\ Connect(j) => /\ c.svc \in Services \ service_connected
                                 /\ pc' = "loop" /\ sent' = sent + 1
                                 /\ req'.for = "connect" /\ req'.of = c.svc
                /\ SendCommand(j) => /\ c.svc \in service_connected
                                     /\ pc' = "loop" /\ sent' = sent + 1
                                     /\ req'.for = "command"
                /\ SendCtl(j) => /\ c.svc = CTL
                                 /\ pc' = "loop" /\ sent' = sent + 1
                                 /\ req'.for \in {"command", "sync"}
<1> DEFINE j == Min(ToDo)
           c == inv.cmds[j]
<1>1. /\ UNCHANGED <<inv, timer, boundVars, down, held, dead, before, abandoned, taken,
                     stale, lost, refused, forgot>>
      /\ ToDo # {} /\ pc = "main" /\ pass # "closing"
      /\ Connect(j) \/ SendCommand(j) \/ SendCtl(j) \/ NoSending(j) \/ Refuse(j)
  BY DEF RunCommand, givenUpVars, forgetVars
<1>2. /\ c \in Command /\ c.svc \in Services \cup {CTL} /\ j \in Nat \ {0} /\ at <= j
      /\ j <= Len(inv.cmds)
  <2>1. inv.cmds \in Seq(Command)
    BY DEF TypeOK, Invocation
  <2>2. c \in Command /\ j \in Nat \ {0} /\ j >= at /\ j \in DOMAIN inv.cmds
    BY <1>1, NextToDo
  <2>3. at \in Nat
    BY DEF TypeOK
  <2> HIDE DEF j
  <2>4. at <= j /\ j <= Len(inv.cmds)
    BY <2>1, <2>2, <2>3
  <2>5. QED
    BY <2>2, <2>4 DEF Command
<1>3. Connect(j) => /\ c.svc \in Services \ service_connected
                    /\ pc' = "loop" /\ sent' = sent + 1
                    /\ req'.for = "connect" /\ req'.of = c.svc
  BY <1>2 DEF Connect, NeedsConnection, Starting
<1>4. SendCommand(j) => /\ c.svc \in service_connected
                        /\ pc' = "loop" /\ sent' = sent + 1
                        /\ req'.for = "command"
  BY <1>2 DEF SendCommand, NeedsConnection, Starting
<1>5. SendCtl(j) => /\ c.svc = CTL
                    /\ pc' = "loop" /\ sent' = sent + 1
                    /\ req'.for \in {"command", "sync"}
  BY <1>2 DEF SendCtl, Starting
<1> HIDE DEF j
<1>6. QED
  BY <1>1, <1>2, <1>3, <1>4, <1>5, Zenon DEF j

(* And what ReleaseNext does.                                               *)
LEMMA ReleaseCases ==
  ASSUME TypeOK, ReleaseNext
  PROVE  \E s \in service_connected \ Kept :
            /\ pc = "main" /\ pass = "closing"
            /\ Starting("release", s, client_id[s])
            /\ pc' = "loop" /\ sent' = sent + 1 /\ req'.for = "release" /\ req'.of = s
            /\ req'.cid = client_id[s]
            /\ service_connected' = service_connected \ {s}
            /\ client_id' = [client_id EXCEPT ![s] = 255]
            /\ tid' = [tid EXCEPT ![s] = 0]
            /\ ctl_tid' = NextCtlTid
            /\ UNCHANGED <<pass, at, inv, service_keep_cid, service_release_cid, timer,
                           boundVars, down, held, dead, before, abandoned, taken,
                           stale, lost, refused, forgot>>
<1> DEFINE s == Min(service_connected \ Kept)
<1>1. s \in service_connected \ Kept
  BY NextRelease DEF ReleaseNext
<1>2. /\ pc = "main" /\ pass = "closing"
      /\ Starting("release", s, client_id[s])
      /\ service_connected' = service_connected \ {s}
      /\ client_id' = [client_id EXCEPT ![s] = 255]
      /\ tid' = [tid EXCEPT ![s] = 0]
      /\ ctl_tid' = NextCtlTid
      /\ UNCHANGED <<pass, at, inv, service_keep_cid, service_release_cid, timer,
                     boundVars, down, held, dead, before, abandoned, taken,
                     stale, lost, refused, forgot>>
  BY DEF ReleaseNext, givenUpVars, forgetVars
<1> HIDE DEF s
<1>3. /\ pc' = "loop" /\ sent' = sent + 1 /\ req'.for = "release" /\ req'.of = s
      /\ req'.cid = client_id[s]
  BY <1>2 DEF Starting
<1>4. QED
  BY <1>1, <1>2, <1>3

(* A run connects what is not connected, and nothing while it closes.       *)
LEMMA ConnectingStep ==
  ASSUME TypeOK, Connecting, [Next]_vars
  PROVE  Connecting'
<1> USE DEF Connecting
<1>1. CASE RunCommand
  <2> DEFINE j == Min(ToDo)
  <2>1. CASE Connect(j)
    BY <1>1, <2>1, RunCommandCases DEF Connect, serviceVars
  <2>2. CASE ~Connect(j)
    <3>1. pc' = "main" \/ req'.for # "connect"
      BY <1>1, <2>2, RunCommandCases DEF NoSending, Refuse
    <3>2. QED
      BY <3>1
  <2>3. QED
    BY <2>1, <2>2
<1>2. CASE ReleaseNext
  BY <1>2, ReleaseCases
<1>3. CASE Serves
  BY <1>3 DEF Serves, flowVars, serviceVars
<1>4. CASE ~RunCommand /\ ~ReleaseNext /\ ~Serves
  <2>1. pc' # "loop"
    BY <1>4, Steps DEF Start, EndPass, Exit, Fails, ReceiveAnswer, CompleteBadly, CompleteWell
  <2>2. QED
    BY <2>1
<1>5. QED
  BY <1>1, <1>2, <1>3, <1>4

(* A run sends no more than Most, since every command is done with once and *)
(* every service connected and released once.                               *)
LEMMA FewSentStep ==
  ASSUME TypeOK, Connecting, Closing, FewSent, [Next]_vars
  PROVE  FewSent'
<1> DEFINE L == Len(inv.cmds)
           N == Cardinality(Services)
           K == Cardinality(service_connected)
<1>1. /\ L \in Nat /\ at \in Nat \ {0} /\ sent \in Nat
      /\ pass \in {"options", "commands", "closing"} /\ service_connected \in SUBSET Services
      /\ inv.cmds \in Seq(Command)
  BY DEF TypeOK, Invocation
<1>2. /\ K \in Nat /\ N \in Nat /\ K <= N
      /\ \A s \in Services \ service_connected :
            Cardinality(service_connected \cup {s}) = K + 1 /\ K + 1 <= N
      /\ \A s \in service_connected : Cardinality(service_connected \ {s}) = K - 1
  BY <1>1, Sizes
<1>3. Most(inv.cmds) = 2 * L + 2 * N
  BY DEF Most
<1>4. ASSUME NEW i \in Invocations, Start(i) PROVE FewSent'
  <2>1. /\ inv' = i /\ at' = 1 /\ pass' = "options" /\ sent' = 0 /\ pc' = "main"
        /\ service_connected' = {}
    BY <1>4 DEF Start, Fresh
  <2>2. Len(i.cmds) \in Nat
    BY InvocationsAssumption DEF Invocation
  <2>3. Cardinality({}) = 0
    BY FS_EmptySet
  <2>4. QED
    BY <2>1, <2>2, <2>3 DEF FewSent, Handled, Waiting
<1>5. pc # "off" /\ pass # "closing" => sent <= Handled + K + Waiting
  BY DEF FewSent
<1>6. CASE RunCommand
  <2> DEFINE j == Min(ToDo)
             c == inv.cmds[j]
  <2>1. /\ pc = "main" /\ pass # "closing" /\ inv' = inv
        /\ j \in Nat \ {0} /\ at <= j /\ j <= L
        /\ c \in Command
    BY <1>6, RunCommandCases
  <2>2. Waiting = 0 /\ inv \in Invocations
    BY <2>1 DEF Waiting, FewSent
  <2>3. /\ pass = "options" => sent <= at - 1 + K
        /\ pass = "commands" => sent <= L + at - 1 + K
    BY <1>1, <1>2, <1>5, <2>1, <2>2 DEF Handled
  <2>4. CASE Connect(j)
    <3>1. /\ pc' = "loop" /\ sent' = sent + 1 /\ req'.for = "connect" /\ at' = j
          /\ pass' = pass /\ service_connected' = service_connected
      BY <1>6, <2>4, RunCommandCases DEF Connect, serviceVars
    <3>2. Waiting' = 1
      BY <3>1 DEF Waiting
    <3> HIDE DEF j
    <3>3. Handled' = IF pass = "options" THEN j - 1 ELSE L + j - 1
      BY <1>1, <2>1, <3>1 DEF Handled
    <3>4. sent' <= Handled' + Cardinality(service_connected') + Waiting'
      <4> HIDE DEF L, K
      <4>1. Cardinality(service_connected') = K
        BY <3>1 DEF K
      <4>2. QED
        BY <1>1, <1>2, <2>1, <2>3, <3>1, <3>2, <3>3, <4>1
    <3>5. QED
      BY <1>1, <2>1, <2>2, <3>1, <3>4 DEF FewSent
  <2>5. CASE SendCommand(j) \/ SendCtl(j)
    <3>1. /\ pc' = "loop" /\ sent' = sent + 1 /\ at' = j + 1
          /\ pass' = pass /\ service_connected' = service_connected
      BY <1>6, <2>5 DEF SendCommand, SendCtl, Starting, serviceVars
    <3>2. Waiting' \in {0, 1}
      BY DEF Waiting
    <3> HIDE DEF j
    <3>3. Handled' = IF pass = "options" THEN j ELSE L + j
      BY <1>1, <2>1, <3>1 DEF Handled
    <3>4. sent' <= Handled' + Cardinality(service_connected') + Waiting'
      <4> HIDE DEF L, K
      <4>1. Cardinality(service_connected') = K
        BY <3>1 DEF K
      <4>2. QED
        BY <1>1, <1>2, <2>1, <2>3, <3>1, <3>2, <3>3, <4>1
    <3>5. QED
      BY <1>1, <2>1, <2>2, <3>1, <3>4 DEF FewSent
  <2>6. CASE NoSending(j)
    <3>1. /\ pc' = "main" /\ sent' = sent /\ at' = j + 1 /\ pass' = pass
      BY <2>1, <2>6 DEF NoSending
    <3>2. \/ service_connected' = service_connected
          \/ /\ service_connected' = service_connected \cup {c.svc}
             /\ c.svc \in Services \ service_connected
      BY <2>1, <2>6 DEF NoSending, Command
    <3>3. Waiting' = 0 /\ Cardinality(service_connected') \in {K, K + 1}
      BY <1>2, <3>1, <3>2 DEF Waiting
    <3> HIDE DEF j
    <3>4. Handled' = IF pass = "options" THEN j ELSE L + j
      BY <1>1, <2>1, <3>1 DEF Handled
    <3>5. sent' <= Handled' + Cardinality(service_connected') + Waiting'
      <4> HIDE DEF L, K
      <4>1. QED
        BY <1>1, <1>2, <2>1, <2>3, <3>1, <3>3, <3>4
    <3>6. QED
      BY <1>1, <2>1, <2>2, <3>1, <3>5 DEF FewSent
  <2>7. CASE Refuse(j)
    <3>1. /\ pc' = "main" /\ sent' = sent /\ at' = at /\ pass' = "closing"
          /\ service_connected' = service_connected
      BY <2>1, <2>7 DEF Refuse, serviceVars
    <3>2. at - 1 <= L
      BY <2>1 DEF FewSent
    <3>3. sent' + Cardinality(service_connected') <= Most(inv.cmds)
      <4> HIDE DEF L, K, N, j
      <4>1. Cardinality(service_connected') = K
        BY <3>1 DEF K
      <4>2. QED
        BY <1>1, <1>2, <1>3, <2>1, <2>3, <3>1, <3>2, <4>1
    <3>4. QED
      BY <2>1, <2>2, <3>1, <3>2, <3>3 DEF FewSent
  <2>8. QED
    BY <1>6, <2>4, <2>5, <2>6, <2>7, RunCommandCases
<1>7. CASE EndPass
  <2>1. /\ pc = "main" /\ pc' = "main" /\ pass # "closing" /\ at' = 1
        /\ pass' = IF pass = "options" THEN "commands" ELSE "closing"
        /\ UNCHANGED <<inv, sent, service_connected>>
    BY <1>7 DEF EndPass, serviceVars, historyVars
  <2>2. Waiting = 0 /\ Waiting' = 0 /\ inv \in Invocations /\ at - 1 <= L
    BY <2>1 DEF Waiting, FewSent
  <2>3. /\ pass = "options" => sent <= at - 1 + K
        /\ pass = "commands" => sent <= L + at - 1 + K
    BY <1>1, <1>2, <1>5, <2>1, <2>2 DEF Handled
  <2>4. CASE pass = "options"
    <3>1. /\ pass' = "commands" /\ Handled' = L
          /\ Cardinality(service_connected') = K
      BY <1>1, <2>1, <2>4 DEF Handled
    <3>2. sent' <= Handled' + Cardinality(service_connected') + Waiting'
      <4> HIDE DEF L, K
      <4>1. QED
        BY <1>1, <1>2, <2>1, <2>2, <2>3, <2>4, <3>1
    <3>3. QED
      BY <1>1, <2>1, <2>2, <3>1, <3>2 DEF FewSent
  <2>5. CASE pass = "commands"
    <3>1. pass' = "closing" /\ Cardinality(service_connected') = K
      BY <2>1, <2>5
    <3>2. sent' + Cardinality(service_connected') <= Most(inv.cmds)
      <4> HIDE DEF L, K, N
      <4>1. QED
        BY <1>1, <1>2, <1>3, <2>1, <2>2, <2>3, <2>5, <3>1
    <3>3. QED
      BY <1>1, <2>1, <2>2, <3>1, <3>2 DEF FewSent
  <2>6. QED
    BY <1>1, <2>1, <2>4, <2>5
<1>8. CASE ReleaseNext
  <2>1. PICK s \in service_connected \ Kept :
            /\ pc = "main" /\ pass = "closing" /\ pc' = "loop" /\ sent' = sent + 1
            /\ service_connected' = service_connected \ {s}
            /\ UNCHANGED <<pass, at, inv>>
    BY <1>8, ReleaseCases
  <2>2. Cardinality(service_connected') = K - 1
    BY <1>2, <2>1
  <2>3. QED
    BY <1>1, <1>2, <1>3, <2>1, <2>2 DEF FewSent, Most
<1>9. CASE Exit
  BY <1>9 DEF Exit, FewSent
<1>10. CASE Fails \/ \E m \in down : ReceiveAnswer(m)
  <2>1. /\ pc = "loop" /\ pc' = "main" /\ sent' = sent /\ UNCHANGED <<at, inv>>
        /\ pass' = pass \/ pass' = "closing"
    BY <1>10 DEF Fails, ReceiveAnswer, CompleteBadly, CompleteWell
  <2>2. \/ /\ req.for = "connect" => pass' = "closing"
           /\ service_connected' = service_connected
        \/ /\ req.for = "connect" /\ pass' = pass
           /\ service_connected' = service_connected \cup {req.of}
    BY <1>10 DEF Fails, ReceiveAnswer, CompleteBadly, Failed, CompleteWell, serviceVars
  <2>3. req.for = "connect" => req.of \in Services \ service_connected /\ pass # "closing"
    BY <2>1 DEF Connecting, Closing
  <2>4. Waiting' = 0 /\ Waiting = (IF req.for = "connect" THEN 1 ELSE 0)
    BY <2>1 DEF Waiting
  <2>5. \/ /\ req.for = "connect" => pass' = "closing"
           /\ Cardinality(service_connected') = K
        \/ req.for = "connect" /\ pass' = pass /\ Cardinality(service_connected') = K + 1
    BY <1>2, <2>2, <2>3
  <2>6. inv \in Invocations /\ at - 1 <= L
    BY <2>1 DEF FewSent
  <2>7. /\ pass = "options" => sent <= at - 1 + K + Waiting
        /\ pass = "commands" => sent <= L + at - 1 + K + Waiting
        /\ pass = "closing" => sent + K <= 2 * L + 2 * N
    BY <1>1, <1>2, <1>3, <1>5, <2>1 DEF Handled, FewSent
  <2>8. req.for = "connect" => K + 1 <= N
    BY <1>2, <2>3
  <2>9. ASSUME pass' = "closing"
        PROVE  sent' + Cardinality(service_connected') <= Most(inv.cmds)
    <3>1. Cardinality(service_connected') = K
          \/ (pass = "closing" /\ req.for = "connect")
      BY <2>5, <2>9
    <3> HIDE DEF L, K, N
    <3>2. QED
      BY <1>1, <1>2, <1>3, <2>1, <2>3, <2>4, <2>6, <2>7, <2>8, <2>9, <3>1
  <2>10. ASSUME pass' # "closing"
         PROVE  sent' <= Handled' + Cardinality(service_connected') + Waiting'
    <3>1. pass' = pass /\ pass # "closing"
      BY <2>1, <2>10
    <3>2. Handled' = IF pass = "options" THEN at - 1 ELSE L + at - 1
      BY <1>1, <2>1, <3>1 DEF Handled
    <3> HIDE DEF L, K, N
    <3>3. QED
      BY <1>1, <1>2, <2>1, <2>4, <2>5, <2>7, <3>1, <3>2
  <2>11. /\ pc' # "off" /\ inv' \in Invocations /\ at' - 1 <= Len(inv'.cmds)
         /\ inv' = inv
    BY <2>1, <2>6
  <2> HIDE DEF L, K, N
  <2>12. QED
    BY <2>9, <2>10, <2>11 DEF FewSent
<1>11. CASE Serves
  BY <1>11 DEF Serves, FewSent, Handled, Waiting, flowVars, serviceVars
<1>12. QED
  BY <1>4, <1>6, <1>7, <1>8, <1>9, <1>10, <1>11, Steps

OfRun(r) == r.id[1] = runs

(* What has been counted is below the counter: of CTL, and of a service     *)
(* since it was connected; before, none is of the service.                  *)
CtlCounted ==
    pc # "off" =>
        /\ ctl_tid \in 1 .. sent + 1
        /\ \A r \in Flying : OfRun(r) /\ r.svc = CTL => r.tid < ctl_tid

ServicesCounted ==
    pc # "off" => \A s \in service_connected :
        /\ tid[s] \in 1 .. sent + 1
        /\ \A r \in Flying : OfRun(r) /\ r.svc = s => r.tid < tid[s]

NoneBefore ==
    pc # "off" /\ pass # "closing" =>
        \A r \in Flying : OfRun(r) => r.svc \in {CTL} \cup service_connected

(* Only the pending request has its number, in this run.                    *)
Told ==
    pc = "loop" => \A r \in Flying :
        OfRun(r) /\ r.svc = req.svc /\ r.tid = req.tid => r.id = req.id

Counted == CtlCounted /\ ServicesCounted /\ NoneBefore /\ Told

Lasting == FewSent /\ Connecting

(* The counters last as long as the run.                                    *)
LEMMA CountersLast ==
  (ShortLines /\ TypeOK /\ Lasting /\ pc # "off") => (sent + 1 < CtlTids /\ sent + 1 < ServiceTids)
<1> SUFFICES ASSUME ShortLines, TypeOK, FewSent, Connecting, pc # "off"
             PROVE  sent + 1 < CtlTids /\ sent + 1 < ServiceTids
  BY DEF Lasting
<1> DEFINE N == Cardinality(Services)
           K == Cardinality(service_connected)
           L == Len(inv.cmds)
<1>1. /\ inv \in Invocations /\ sent \in Nat /\ service_connected \in SUBSET Services
      /\ at \in Nat /\ pass \in {"options", "commands", "closing"} /\ L \in Nat
      /\ at - 1 <= L /\ CtlTids \in Nat /\ ServiceTids \in Nat
  BY TidsAssumption DEF TypeOK, FewSent, Invocation
<1>2. N \in Nat /\ K \in Nat /\ K <= N
  BY <1>1, Sizes
<1>3. 2 * L + 2 * N + 1 < CtlTids /\ 2 * L + 2 * N + 1 < ServiceTids
  BY <1>1 DEF ShortLines, Most
<1>4. CASE pass = "closing"
  <2>1. sent + K <= 2 * L + 2 * N
    BY <1>4 DEF FewSent, Most
  <2> HIDE DEF N, K, L
  <2>2. QED
    BY <1>1, <1>2, <1>3, <2>1
<1>5. CASE pass # "closing"
  <2>1. sent <= Handled + K + Waiting
    BY <1>5 DEF FewSent
  <2>2. Handled \in {at - 1, L + at - 1}
    BY <1>1, <1>5 DEF Handled
  <2>3. Waiting \in {0, 1} /\ (Waiting = 1 => K + 1 <= N)
    <3> SUFFICES ASSUME Waiting = 1 PROVE K + 1 <= N
      BY DEF Waiting
    <3>1. req.of \in Services \ service_connected
      BY DEF Waiting, Connecting
    <3>2. QED
      BY <1>1, <3>1, Sizes
  <2> HIDE DEF N, K, L
  <2>4. QED
    BY <1>1, <1>2, <1>3, <2>1, <2>2, <2>3
<1>6. QED
  BY <1>4, <1>5

(* Also after a step.                                                       *)
LEMMA CountersLastNext ==
  (ShortLines /\ TypeOK /\ Lasting /\ pc # "off" => sent + 1 < CtlTids /\ sent + 1 < ServiceTids)'
BY CountersLast, PTL

(* The shapes of steps again, as the counters see them: a request to a      *)
(* service, one to CTL, a release, a service that becomes connected, and    *)
(* nothing of the kind.                                                     *)
AsksService(s) ==
    /\ Asks
    /\ s \in service_connected
    /\ req'.svc = s /\ req'.tid = tid[s]
    /\ tid' = NextTid(s)
    /\ UNCHANGED <<ctl_tid, service_connected>>

AsksCtl ==
    /\ Asks
    /\ req'.svc = CTL /\ req'.tid = ctl_tid
    /\ ctl_tid' = NextCtlTid
    /\ UNCHANGED <<tid, service_connected>>

Releases(s) ==
    /\ Asks
    /\ pass = "closing"
    /\ req'.svc = CTL /\ req'.tid = ctl_tid
    /\ ctl_tid' = NextCtlTid
    /\ s \in service_connected
    /\ service_connected' = service_connected \ {s}
    /\ tid' = [tid EXCEPT ![s] = 0]

Settles(s) ==
    /\ pc # "off" /\ pass # "closing" /\ pc' = "main"
    /\ s \in Services \ service_connected
    /\ service_connected' = service_connected \cup {s}
    /\ tid' = [tid EXCEPT ![s] = 1]
    /\ Flying' \subseteq Flying
    /\ UNCHANGED <<ctl_tid, sent, runs, pass>>

Rests ==
    /\ pc # "off" \/ pc' = "off"
    /\ Flying' \subseteq Flying
    /\ pc' # "off" =>
          /\ UNCHANGED <<ctl_tid, tid, service_connected, sent, runs>>
          /\ pass = "closing" => pass' = "closing"
          /\ pc' = "loop" => pc = "loop" /\ req' = req

LEMMA CountingShapes ==
  ASSUME TypeOK, Closing, Connecting, [Next]_vars
  PROVE  \/ \E i \in Invocations : Start(i)
         \/ \E s \in Services : AsksService(s) \/ Releases(s) \/ Settles(s)
         \/ AsksCtl \/ Rests
<1> USE DEF flowVars, serviceVars, boundVars, modemVars, historyVars, givenUpVars, forgetVars
<1>1. service_connected \subseteq Services /\ Services \subseteq Nat \ {0}
  BY ServicesAssumption DEF TypeOK, CTL
<1>2. CASE RunCommand
  <2> DEFINE j == Min(ToDo)
             c == inv.cmds[j]
  <2>1. /\ pc = "main" /\ pass # "closing" /\ inv' = inv
        /\ c \in Command
        /\ UNCHANGED <<inv, timer, boundVars, down, held, dead, before, abandoned, taken,
                       stale, lost, refused, forgot>>
    BY <1>2, RunCommandCases
  <2>2. Asks \/ Moves \/ Fails \/ Serves
    BY <1>2, <2>1, Shapes DEF Start, ReceiveAnswer
  <2>3. pc' = "loop" => Asks
    BY <2>1, <2>2 DEF Moves, Fails, Serves
  <2>4. CASE Connect(j)
    <3>1. /\ c.svc \in Services \ service_connected /\ pc' = "loop"
          /\ Starting("connect", c.svc, 0) /\ ctl_tid' = NextCtlTid /\ UNCHANGED serviceVars
      BY <1>2, <2>4, RunCommandCases DEF Connect
    <3>2. req'.svc = CTL /\ req'.tid = ctl_tid
      BY <3>1 DEF Starting
    <3>3. QED
      BY <2>3, <3>1, <3>2 DEF AsksCtl
  <2>5. CASE SendCommand(j)
    <3>1. /\ c.svc \in service_connected /\ pc' = "loop"
          /\ Starting("command", c.svc, client_id[c.svc]) /\ tid' = NextTid(c.svc)
          /\ UNCHANGED <<service_connected, ctl_tid>>
      BY <1>2, <2>5, RunCommandCases DEF SendCommand
    <3>2. req'.svc = c.svc /\ req'.tid = tid[c.svc]
      BY <1>1, <3>1 DEF Starting, CTL
    <3>3. QED
      BY <1>1, <2>3, <3>1, <3>2 DEF AsksService
  <2>6. CASE SendCtl(j)
    <3>1. /\ pc' = "loop"
          /\ Starting("sync", CTL, 0) \/ Starting("command", CTL, 0)
          /\ ctl_tid' = NextCtlTid /\ UNCHANGED serviceVars
      BY <1>2, <2>6, RunCommandCases DEF SendCtl
    <3>2. req'.svc = CTL /\ req'.tid = ctl_tid
      BY <3>1 DEF Starting
    <3>3. QED
      BY <2>3, <3>1, <3>2 DEF AsksCtl
  <2>7. CASE NoSending(j)
    <3>1. /\ UNCHANGED <<pc, pass, req, up, sent, ctl_tid, down, runs>>
          /\ \/ /\ service_connected' = service_connected \cup {c.svc}
                /\ tid' = [tid EXCEPT ![c.svc] = 1]
                /\ c.svc \in Services \ service_connected
             \/ UNCHANGED <<service_connected, tid>>
      BY <2>1, <2>7 DEF NoSending, Command
    <3>2. Flying' = Flying
      BY <3>1 DEF Flying, Answers
    <3>3. QED
      BY <2>1, <3>1, <3>2 DEF Settles, Rests
  <2>8. CASE Refuse(j)
    <3>1. UNCHANGED <<pc, req, up, sent, ctl_tid, down, runs, service_connected, tid>>
      BY <2>1, <2>8 DEF Refuse
    <3>2. Flying' = Flying
      BY <3>1 DEF Flying, Answers
    <3>3. QED
      BY <2>1, <3>1, <3>2 DEF Rests
  <2>9. QED
    BY <1>2, <2>4, <2>5, <2>6, <2>7, <2>8, RunCommandCases
<1>3. CASE EndPass
  BY <1>3 DEF EndPass, Rests, Flying, Answers
<1>4. CASE ReleaseNext
  <2>1. PICK s \in service_connected \ Kept :
            /\ pc = "main" /\ pass = "closing"
            /\ Starting("release", s, client_id[s])
            /\ pc' = "loop"
            /\ service_connected' = service_connected \ {s}
            /\ tid' = [tid EXCEPT ![s] = 0]
            /\ ctl_tid' = NextCtlTid
    BY <1>4, ReleaseCases
  <2>2. req'.svc = CTL /\ req'.tid = ctl_tid
    BY <2>1 DEF Starting
  <2>3. Asks
    BY <2>1, Shapes DEF Start, Moves, Fails, Serves, ReceiveAnswer, GiveUp, givenUpVars
  <2>4. QED
    BY <1>1, <2>1, <2>2, <2>3 DEF Releases
<1>5. CASE Exit
  BY <1>5 DEF Exit, Rests, Flying, Answers
<1>6. CASE Fails
  BY <1>6, OthersFlying DEF Fails, CompleteBadly, Rests
<1>7. CASE Serves
  BY <1>7, OthersFlying DEF Serves, Rests
<1>8. CASE \E m \in down : ReceiveAnswer(m)
  <2>1. /\ pc = "loop" /\ pc' = "main" /\ Flying' \subseteq Flying
        /\ UNCHANGED <<ctl_tid, sent, runs>>
        /\ pass' = pass \/ pass' = "closing"
    BY <1>8, OthersFlying DEF ReceiveAnswer, CompleteBadly, CompleteWell
  <2>2. \/ UNCHANGED <<service_connected, tid>>
        \/ /\ req.for = "connect"
           /\ service_connected' = service_connected \cup {req.of}
           /\ tid' = [tid EXCEPT ![req.of] = 1]
           /\ pass' = pass
    BY <1>8 DEF ReceiveAnswer, CompleteBadly, CompleteWell
  <2>3. req.for = "connect" => req.of \in Services \ service_connected /\ pass # "closing"
    BY <2>1 DEF Connecting, Closing
  <2>4. QED
    BY <2>1, <2>2, <2>3 DEF Settles, Rests
<1>9. QED
  BY <1>2, <1>3, <1>4, <1>5, <1>6, <1>7, <1>8, Steps

(* Numbers of the run are below those of the run's counters for good.       *)
LEMMA CountedStep ==
  ASSUME ShortLines, Numbered, Lasting, Counted, TypeOK', Lasting', [Next]_vars
  PROVE  Counted'
<1> USE DEF OfRun
<1>1. TypeOK /\ Ids /\ Closing /\ Connecting /\ CtlCounted /\ ServicesCounted /\ NoneBefore /\ Told
  BY DEF Numbered, Lasting, Counted
<1>2. /\ runs \in Nat /\ sent \in Nat /\ ctl_tid \in Nat /\ tid \in [Services -> Nat]
      /\ service_connected \subseteq Services /\ Services \subseteq Nat \ {CTL}
      /\ CtlTids \in Nat \ {0} /\ ServiceTids \in Nat \ {0}
  BY <1>1, ServicesAssumption, TidsAssumption DEF TypeOK
<1>3. \A r \in Flying : r.id \in Nat \X Nat /\ r.id[1] \in Nat /\ r.tid \in Nat
  BY <1>1 DEF TypeOK, Flying, Answers, RequestRecord, RequestId, Message, SyncIndication
<1>4. pc' # "off" => sent' + 1 < CtlTids /\ sent' + 1 < ServiceTids
  BY CountersLastNext
<1>5. Asks => /\ pc = "main" /\ pc' = "loop" /\ sent' = sent + 1 /\ UNCHANGED <<runs, pass>>
              /\ Flying' \subseteq Flying \cup {req'} /\ req'.id = <<runs, sent + 1>>
              /\ req'.id[1] = runs
  BY <1>1, AsksFlying DEF Asks
<1>6. CASE \E i \in Invocations : Start(i)
  <2>1. /\ pc' = "main" /\ runs' = runs + 1 /\ Flying' = Flying /\ ctl_tid' = 1 /\ sent' = 0
        /\ service_connected' = {}
    BY <1>6, OthersFlying DEF Start, Fresh
  <2>2. \A r \in Flying : r.id[1] <= runs
    BY <1>1 DEF Ids, Issued
  <2>3. \A r \in Flying' : ~OfRun(r)'
    BY <1>2, <1>3, <2>1, <2>2
  <2>4. QED
    BY <2>1, <2>3 DEF Counted, CtlCounted, ServicesCounted, NoneBefore, Told
<1>7. ASSUME NEW s \in Services, AsksService(s) PROVE Counted'
  <2>1. /\ s \in service_connected /\ req'.svc = s /\ req'.tid = tid[s] /\ tid' = NextTid(s)
        /\ UNCHANGED <<ctl_tid, service_connected>> /\ Asks
    BY <1>7 DEF AsksService
  <2>2. tid[s] \in 1 .. sent + 1 /\ sent + 2 < ServiceTids
    BY <1>1, <1>2, <1>4, <1>5, <2>1 DEF ServicesCounted
  <2>3. tid' = [tid EXCEPT ![s] = tid[s] + 1]
    <3>1. (tid[s] + 1) % ServiceTids = tid[s] + 1
      BY <1>2, <2>2
    <3>2. QED
      BY <2>1, <3>1 DEF NextTid
  <2>4. CtlCounted'
    BY <1>1, <1>2, <1>5, <2>1 DEF CtlCounted
  <2>5. ServicesCounted'
    <3> SUFFICES ASSUME NEW t \in service_connected
                 PROVE  /\ tid'[t] \in 1 .. sent + 2
                        /\ \A r \in Flying \cup {req'} :
                              r.id[1] = runs /\ r.svc = t => r.tid < tid'[t]
      BY <1>2, <1>5, <2>1 DEF ServicesCounted
    <3>1. /\ tid[t] \in 1 .. sent + 1 /\ t \in Services
          /\ \A r \in Flying : r.id[1] = runs /\ r.svc = t => r.tid < tid[t]
      BY <1>1, <1>2, <1>5, <2>1 DEF ServicesCounted
    <3>2. tid'[t] = IF t = s THEN tid[t] + 1 ELSE tid[t]
      BY <1>2, <2>3, <3>1
    <3>3. QED
      BY <1>2, <1>3, <2>1, <3>1, <3>2
  <2>6. NoneBefore'
    BY <1>1, <1>5, <2>1 DEF NoneBefore
  <2>7. \A r \in Flying : r.id[1] = runs /\ r.svc = s => r.tid < tid[s]
    BY <1>1, <1>5, <2>1 DEF ServicesCounted
  <2>8. Told'
    BY <1>2, <1>3, <1>5, <2>1, <2>7 DEF Told
  <2>9. QED
    BY <2>4, <2>5, <2>6, <2>8 DEF Counted
<1>8. ASSUME Asks, req'.svc = CTL, req'.tid = ctl_tid, ctl_tid' = NextCtlTid
      PROVE  CtlCounted' /\ Told'
  <2>1. /\ ctl_tid \in 1 .. sent + 1 /\ sent + 2 < CtlTids
        /\ \A r \in Flying : r.id[1] = runs /\ r.svc = CTL => r.tid < ctl_tid
    BY <1>1, <1>2, <1>4, <1>5, <1>8 DEF CtlCounted
  <2>2. ctl_tid' = ctl_tid + 1
    BY <1>2, <1>8, <2>1 DEF NextCtlTid
  <2>3. CtlCounted'
    BY <1>2, <1>3, <1>5, <1>8, <2>1, <2>2 DEF CtlCounted
  <2>4. Told'
    BY <1>2, <1>3, <1>5, <1>8, <2>1 DEF Told
  <2>5. QED
    BY <2>3, <2>4
<1>9. CASE AsksCtl
  <2>1. /\ Asks /\ req'.svc = CTL /\ req'.tid = ctl_tid /\ ctl_tid' = NextCtlTid
        /\ UNCHANGED <<tid, service_connected>>
    BY <1>9 DEF AsksCtl
  <2>2. ServicesCounted'
    <3> SUFFICES ASSUME NEW t \in service_connected
                 PROVE  /\ tid[t] \in 1 .. sent + 2
                        /\ \A r \in Flying \cup {req'} :
                              r.id[1] = runs /\ r.svc = t => r.tid < tid[t]
      BY <1>2, <1>5, <2>1 DEF ServicesCounted
    <3>1. /\ tid[t] \in 1 .. sent + 1 /\ t # CTL
          /\ \A r \in Flying : r.id[1] = runs /\ r.svc = t => r.tid < tid[t]
      BY <1>1, <1>2, <1>5, <2>1 DEF ServicesCounted
    <3>2. QED
      BY <1>2, <2>1, <3>1
  <2>3. NoneBefore'
    BY <1>1, <1>5, <2>1 DEF NoneBefore
  <2>4. QED
    BY <1>8, <2>1, <2>2, <2>3 DEF Counted
<1>10. ASSUME NEW s \in Services, Releases(s) PROVE Counted'
  <2>1. /\ Asks /\ req'.svc = CTL /\ req'.tid = ctl_tid /\ ctl_tid' = NextCtlTid
        /\ s \in service_connected /\ service_connected' = service_connected \ {s}
        /\ tid' = [tid EXCEPT ![s] = 0] /\ pass = "closing"
    BY <1>10 DEF Releases
  <2>2. ServicesCounted'
    <3> SUFFICES ASSUME NEW t \in service_connected \ {s}
                 PROVE  /\ tid'[t] \in 1 .. sent + 2
                        /\ \A r \in Flying \cup {req'} :
                              r.id[1] = runs /\ r.svc = t => r.tid < tid'[t]
      BY <1>2, <1>5, <2>1 DEF ServicesCounted
    <3>1. /\ tid[t] \in 1 .. sent + 1 /\ t # CTL /\ tid'[t] = tid[t]
          /\ \A r \in Flying : r.id[1] = runs /\ r.svc = t => r.tid < tid[t]
      BY <1>1, <1>2, <1>5, <2>1 DEF ServicesCounted
    <3>2. QED
      BY <1>2, <2>1, <3>1
  <2>3. NoneBefore'
    BY <1>5, <2>1 DEF NoneBefore
  <2>4. QED
    BY <1>8, <2>1, <2>2, <2>3 DEF Counted
<1>11. ASSUME NEW s \in Services, Settles(s) PROVE Counted'
  <2>1. /\ pc # "off" /\ pass # "closing" /\ pc' = "main"
        /\ s \in Services \ service_connected
        /\ service_connected' = service_connected \cup {s}
        /\ tid' = [tid EXCEPT ![s] = 1]
        /\ Flying' \subseteq Flying
        /\ UNCHANGED <<ctl_tid, sent, runs, pass>>
    BY <1>11 DEF Settles
  <2>2. \A r \in Flying : r.id[1] = runs => r.svc # s
    BY <1>1, <1>2, <2>1 DEF NoneBefore
  <2>3. ServicesCounted'
    <3> SUFFICES ASSUME NEW t \in service_connected \cup {s}
                 PROVE  /\ tid'[t] \in 1 .. sent + 1
                        /\ \A r \in Flying : r.id[1] = runs /\ r.svc = t => r.tid < tid'[t]
      BY <1>2, <2>1 DEF ServicesCounted
    <3>1. CASE t = s
      BY <1>2, <2>1, <2>2, <3>1
    <3>2. CASE t # s
      BY <1>1, <1>2, <2>1, <3>2 DEF ServicesCounted
    <3>3. QED
      BY <3>1, <3>2
  <2>4. CtlCounted'
    BY <1>1, <2>1 DEF CtlCounted
  <2>5. NoneBefore'
    BY <1>1, <2>1 DEF NoneBefore
  <2>6. Told'
    BY <2>1 DEF Told
  <2>7. QED
    BY <2>3, <2>4, <2>5, <2>6 DEF Counted
<1>12. CASE Rests
  <2>1. CASE pc' = "off"
    BY <2>1 DEF Counted, CtlCounted, ServicesCounted, NoneBefore, Told
  <2>2. CASE pc' # "off"
    <3>1. /\ pc # "off" /\ Flying' \subseteq Flying
          /\ UNCHANGED <<ctl_tid, tid, service_connected, sent, runs>>
          /\ pass = "closing" => pass' = "closing"
          /\ pc' = "loop" => pc = "loop" /\ req' = req
      BY <1>12, <2>2 DEF Rests
    <3>2. CtlCounted' /\ ServicesCounted'
      BY <1>1, <3>1 DEF CtlCounted, ServicesCounted
    <3>3. NoneBefore' /\ Told'
      BY <1>1, <3>1 DEF NoneBefore, Told
    <3>4. QED
      BY <3>2, <3>3 DEF Counted
  <2>3. QED
    BY <2>1, <2>2
<1>13. QED
  BY <1>1, <1>6, <1>7, <1>9, <1>10, <1>11, <1>12, CountingShapes

(* What the answers need, with the numbers of a run told apart.             *)
Matching == Pending /\ Lasting /\ Counted

(* It is inductive, for command lines the counters last for.                *)
LEMMA MatchingInductive ==
  ASSUME ShortLines
  PROVE  /\ Init => Matching
         /\ Matching /\ [Next]_vars => Matching'
<1>1. Init => Matching
  BY PendingInductive DEF Init, Matching, Lasting, FewSent, Connecting, Counted, CtlCounted,
                          ServicesCounted, NoneBefore, Told
<1>2. Matching /\ [Next]_vars => Matching'
  <2> SUFFICES ASSUME Matching, [Next]_vars PROVE Matching'
    OBVIOUS
  <2>1. Pending /\ Numbered /\ Lasting /\ Counted
    BY DEF Matching, Pending
  <2>2. TypeOK /\ Closing /\ FewSent /\ Connecting
    BY <2>1 DEF Numbered, Lasting
  <2>3. Pending'
    BY <2>1, PendingInductive
  <2>4. TypeOK'
    BY <2>3 DEF Pending, Numbered
  <2>5. Lasting'
    BY <2>2, FewSentStep, ConnectingStep DEF Lasting
  <2>6. Counted'
    BY <2>1, <2>4, <2>5, CountedStep
  <2>7. QED
    BY <2>3, <2>5, <2>6 DEF Matching
<1>3. QED
  BY <1>1, <1>2

(* An answer completes its own request, or one that took the transaction id *)
(* of a request given up by an earlier run (dev.c:140-163, 418), as long as *)
(* the command lines are short enough for no run to use up the transaction  *)
(* ids of CTL: AnswersReachTheirRequest.                                    *)
THEOREM AnswersCorrect ==
  ASSUME ShortLines
  PROVE  Spec => []AnswersReachTheirRequest
<1>1. Init => AnswersReachTheirRequest
  BY DEF Init, AnswersReachTheirRequest
<1>2. Matching /\ AnswersReachTheirRequest /\ [Next]_vars => AnswersReachTheirRequest'
  <2> SUFFICES ASSUME Matching, AnswersReachTheirRequest, [Next]_vars,
                      NEW p \in taken', p[1] # p[2]
               PROVE  p[2] \in abandoned' /\ p[2][1] < p[1][1]
    BY DEF AnswersReachTheirRequest
  <2>1. TypeOK /\ Ids /\ OnlyPending /\ Told
    BY DEF Matching, Pending, Numbered, Counted
  <2>2. abandoned \subseteq abandoned'
    BY <2>1, Shapes DEF Start, Asks, Moves, Fails, GiveUp, givenUpVars, Serves, ReceiveAnswer
  <2>3. CASE p \in taken
    BY <2>2, <2>3 DEF AnswersReachTheirRequest
  <2>4. CASE p \notin taken
    <3>1. PICK m \in down : ReceiveAnswer(m)
      BY <2>1, <2>4, Shapes DEF Start, Asks, Moves, Fails, Serves
    <3>2. /\ pc = "loop" /\ m \in Answers /\ Matches(m)
          /\ m.of.id # req.id /\ p = <<req.id, m.of.id>>
      BY <2>4, <3>1 DEF ReceiveAnswer, Answers
    <3>3. m.of \in Flying /\ m.of.id \in Nat \X Nat
      BY <2>1, <3>2 DEF Flying, TypeOK, Answers, Message, SyncIndication, RequestRecord, RequestId
    <3>4. m.of.id \in abandoned
      BY <2>1, <3>2, <3>3 DEF OnlyPending
    <3>5. m.of.id[1] # runs
      BY <2>1, <3>2, <3>3 DEF Told, OfRun, Matches
    <3>6. m.of.id[1] <= runs /\ req.id[1] = runs
      BY <2>1, <3>2, <3>3 DEF Ids, Issued
    <3>7. QED
      BY <2>1, <2>2, <3>2, <3>3, <3>4, <3>5, <3>6 DEF TypeOK
  <2>5. QED
    BY <2>3, <2>4
<1>3. QED
  BY <1>1, <1>2, MatchingInductive, PTL DEF Spec

=============================================================================
