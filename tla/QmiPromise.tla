------------------------------- MODULE QmiPromise -------------------------------
(***************************************************************************)
(* What the request layer of uqmid promises to the state machines and ubus *)
(* handlers that issue calls on it, whatever it takes to keep it: a call    *)
(* issued on a service the modem has is written to the modem once, is       *)
(* answered by the answer the modem gave to it or not at all, and is        *)
(* dropped when its service is closed, together with every other call       *)
(* waiting there.  Of transaction ids, client ids, their allocation and     *)
(* release, lists and timers the callers see nothing.                       *)
(***************************************************************************)
EXTENDS Integers

CONSTANTS
    Services,  \* the services a modem may offer, CTL excepted
    CTL,       \* the service that is there as long as the device is open
    Calls,     \* the calls that may be issued
    Target     \* the service each is issued on

VARIABLES
    present,  \* the services that calls can be issued on
    listed,   \* has the modem said which services it has?
    stage,    \* per call: new, waiting (to be sent), sent, answered or dropped
    wire,     \* the calls on their way to the modem
    replies   \* the calls whose answers are on their way back

vars == <<present, listed, stage, wire, replies>>

Stages == {"new", "waiting", "sent", "answered", "dropped"}

Init ==
    /\ present = {CTL}
    /\ listed = FALSE
    /\ stage = [c \in Calls |-> "new"]
    /\ wire = {} /\ replies = {}

(* The calls S, which were waiting, are written to the modem.               *)
Written(S, before) == [c \in Calls |-> IF c \in S THEN "sent" ELSE before[c]]

WaitingOn(s) == {c \in Calls : Target[c] = s /\ stage[c] = "waiting"}

(* A call is issued: it waits, or it is sent with all that wait before it.  *)
Issue(c) ==
    /\ Target[c] \in present
    /\ stage[c] = "new"
    /\ LET issued == [stage EXCEPT ![c] = "waiting"]
       IN  \/ stage' = issued /\ UNCHANGED wire
           \/ LET S == WaitingOn(Target[c]) \cup {c}
              IN  stage' = Written(S, issued) /\ wire' = wire \cup S
    /\ UNCHANGED <<present, listed, replies>>

(* What waits for a service is sent, all of it.                             *)
Send(s) ==
    /\ stage' = Written(WaitingOn(s), stage)
    /\ wire' = wire \cup WaitingOn(s)
    /\ UNCHANGED <<present, listed, replies>>

(* The modem answers a call, or never does.                                 *)
Reply(c) ==
    /\ c \in wire
    /\ wire' = wire \ {c}
    /\ replies' \in {replies, replies \cup {c}}
    /\ UNCHANGED <<present, listed, stage>>

(* The answer completes the call it answers; if that was dropped meanwhile, *)
(* it completes none.                                                       *)
Answer(c) ==
    /\ c \in replies
    /\ replies' = replies \ {c}
    /\ stage' = [stage EXCEPT ![c] = IF @ = "sent" THEN "answered" ELSE @]
    /\ stage[c] \in {"sent", "dropped"}
    /\ UNCHANGED <<present, listed, wire>>

(* The modem's services become available, once.                             *)
List(S) ==
    /\ CTL \in present /\ ~listed
    /\ listed' = TRUE
    /\ present' = present \cup S
    /\ UNCHANGED <<stage, wire, replies>>

(* Services are closed, and take what is unanswered with them; CTL is       *)
(* closed with all the others.                                              *)
Close(S) ==
    /\ S \subseteq present
    /\ CTL \in S => S = present
    /\ present' = present \ S
    /\ stage' = [c \in Calls |-> IF Target[c] \in S /\ stage[c] \in {"waiting", "sent"}
                                 THEN "dropped" ELSE stage[c]]
    /\ UNCHANGED <<listed, wire, replies>>

Next ==
    \/ \E c \in Calls : Issue(c) \/ Reply(c) \/ Answer(c)
    \/ \E s \in Services : Send(s)
    \/ \E S \in SUBSET Services : List(S)
    \/ \E S \in SUBSET (Services \cup {CTL}) : Close(S)

Spec == Init /\ [][Next]_vars

=============================================================================
