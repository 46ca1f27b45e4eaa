------------------------------- MODULE ModemLife -------------------------------
(***************************************************************************)
(* What a modem promises to those who add, configure, remove and dump it    *)
(* over ubus (uqmid.proto.sh is one of them): which way it goes from being  *)
(* added to being gone, what must have happened before it is connected, and *)
(* which of their calls it heeds.  Of requests, answers, timers and the     *)
(* events between its machines they see nothing.                            *)
(***************************************************************************)

VARIABLES
    life,        \* the part of its life it is in
    configured,  \* was it ever configured?
    failed,      \* did a connection fail to start?
    simReady,    \* is its SIM ready?
    carries,     \* was its interface set up for raw IP, as agreed with the modem?
    call         \* the call it has yet to heed: configure, remove or none

vars == <<life, configured, failed, simReady, carries, call>>

(* A modem is starting until its radio is off, and off until a connection   *)
(* is wanted; then it waits for its SIM, is prepared, connects and is live. *)
(* It is broken if it does not start, and ends closing and gone.            *)
Init ==
    /\ life = "starting"
    /\ configured = FALSE /\ failed = FALSE /\ simReady = FALSE /\ carries = FALSE
    /\ call = "none"

-----------------------------------------------------------------------------
(* The calls.  One is served at a time, and none of a modem that is gone.   *)

Configure ==
    /\ life # "gone" /\ call = "none"
    /\ configured' = TRUE
    /\ call' = "configure"
    /\ UNCHANGED <<life, failed, simReady, carries>>

Remove ==
    /\ life \notin {"closing", "gone"} /\ call = "none"
    /\ call' = "remove"
    /\ UNCHANGED <<life, configured, failed, simReady, carries>>

(* A modem that is off heeds every call.  Any other only keeps what it was  *)
(* configured with.                                                         *)
PassOver ==
    /\ call = "configure" /\ life # "off"
    /\ call' = "none"
    /\ UNCHANGED <<life, configured, failed, simReady, carries>>

Close ==
    /\ call = "remove"
    /\ life' = "closing"
    /\ call' = "none"
    /\ UNCHANGED <<configured, failed, simReady, carries>>

(* The device is closed, or its connection died.                            *)
Vanish ==
    /\ life # "gone" /\ call = "none"
    /\ life' = "gone"
    /\ UNCHANGED <<configured, failed, simReady, carries, call>>

-----------------------------------------------------------------------------
(* The way of the modem.                                                     *)

Goes(from, to) ==
    /\ life = from /\ call = "none"
    /\ life' = to
    /\ UNCHANGED <<configured, simReady, carries, call>>

Start == Goes("starting", "off") /\ UNCHANGED failed
Break == Goes("starting", "broken") /\ UNCHANGED failed

(* A connection is wanted when the modem is told so or was configured       *)
(* before; not again, untold, once a connection failed.                     *)
Wanted == call = "configure" \/ (call = "none" /\ configured /\ ~failed)

Connect ==
    /\ life = "off" /\ Wanted
    /\ life' = IF simReady THEN "prepared" ELSE "waiting"
    /\ call' = "none"
    /\ UNCHANGED <<configured, failed, simReady, carries>>

Proceed == simReady /\ Goes("waiting", "prepared") /\ UNCHANGED failed

(* The interface is touched while the modem is prepared.  The agreement can *)
(* come late, when the modem is already closing.                            *)
Carry ==
    /\ call = "none"
    /\ \/ life = "prepared" /\ carries' \in BOOLEAN
       \/ life = "closing" /\ carries' = TRUE
    /\ UNCHANGED <<life, configured, failed, simReady, call>>

Search == carries /\ Goes("prepared", "connecting") /\ UNCHANGED failed
Succeed == Goes("connecting", "live") /\ UNCHANGED failed
Fail == Goes("connecting", "off") /\ failed' = TRUE

(* A SIM that became ready stays so.                                        *)
Unlock ==
    /\ life # "gone" /\ call = "none"
    /\ simReady' = TRUE
    /\ UNCHANGED <<life, configured, failed, carries, call>>

Next ==
    \/ Configure \/ Remove \/ PassOver \/ Close \/ Vanish
    \/ Start \/ Break \/ Connect \/ Proceed \/ Carry \/ Search \/ Succeed \/ Fail
    \/ Unlock

Spec == Init /\ [][Next]_vars

=============================================================================
