------------------------------- MODULE FsmEngine -------------------------------
(***************************************************************************)
(* What the state machines of uqmid share: the engine that dispatches       *)
(* events to them (uqmid/osmocom/fsm.c) and the requests they have          *)
(* outstanding.  A modem has two machines, MODEM and its child SIM.         *)
(*                                                                         *)
(* An event is dispatched by a function call, and a handler may dispatch    *)
(* another before it returns.  "todo" is that stack of calls: while it is   *)
(* not empty no callback of uloop can run, so nothing else happens.         *)
(*                                                                         *)
(* A request is answered at most once, by the callback it was sent with:    *)
(* what QmiServices shows of the layer below is taken for granted here.     *)
(***************************************************************************)
EXTENDS Naturals, Sequences, SequencesExt

CONSTANT InOrder  \* TRUE if each service of the modem answers in the order it was asked

ASSUME InOrderAssumption == InOrder \in BOOLEAN

VARIABLES
    at,       \* per machine: its state
    timer,    \* is the timer of MODEM pending?  That of SIM has no effect.
    T,        \* the number its timer was started with
    todo,     \* the events being dispatched, the innermost first
    asked,    \* per service: its requests not yet answered, the oldest first
    services, \* the services the modem has offered and the daemon not yet freed
    crashed,  \* has a request been sent on a service that does not exist?
    gone      \* were the modem and its machines freed?

engineVars == <<at, timer, T, todo, asked, services, crashed, gone>>

(* The service each request is sent on.                                     *)
ServiceOf ==
    [sync |-> "CTL", version |-> "CTL",
     model |-> "DMS", manuf |-> "DMS", revision |-> "DMS", ids |-> "DMS",
     get_opmode |-> "DMS", set_low_power |-> "DMS", set_online |-> "DMS",
     profile_list |-> "WDS", modify_profile |-> "WDS", start_network |-> "WDS",
     stop_network |-> "WDS", current_settings |-> "WDS", data_format |-> "WDA",
     subscribe |-> "NAS", serving_system |-> "NAS", network_search |-> "NAS",
     slot_status |-> "UIM", card_status |-> "UIM", read_imsi |-> "UIM",
     verify_pin |-> "UIM", unblock_pin |-> "UIM"]

Kinds == DOMAIN ServiceOf
Services == {ServiceOf[r] : r \in Kinds}

Running == ~gone /\ ~crashed
Idle == Running /\ todo = <<>>

(* An event on its way to a machine; arg is what its data pointer says.     *)
Event(machine, ev, arg) == [to |-> machine, ev |-> ev, arg |-> arg]
ToModem(ev) == Event("MODEM", ev, "none")
ToSim(ev) == Event("SIM", ev, "none")

-----------------------------------------------------------------------------
(* Dispatching.                                                              *)

Arriving(machine) == Running /\ todo # <<>> /\ Head(todo).to = machine

(* The event is in the mask "in" of the machine's state, and its handler    *)
(* returns after dispatching the events "nested".                           *)
Handle(machine, ev, in, nested) ==
    /\ Arriving(machine)
    /\ Head(todo).ev = ev
    /\ ev \in in[at[machine]]
    /\ todo' = nested \o Tail(todo)

(* Any other event has no effect, but for those handled in every state.     *)
Drop(machine, in, allstate) ==
    /\ Arriving(machine)
    /\ Head(todo).ev \notin in[at[machine]] \cup allstate
    /\ todo' = Tail(todo)
    /\ UNCHANGED <<at, timer, T, asked, services, crashed, gone>>

-----------------------------------------------------------------------------
(* Requests.                                                                 *)

(* One request at most is sent on each service.  uqmi_service_send_msg      *)
(* dereferences the service, found or not.                                  *)
Queued(requests) ==
    [s \in Services |-> IF \E r \in requests : ServiceOf[r] = s
                        THEN Append(asked[s], CHOOSE r \in requests : ServiceOf[r] = s)
                        ELSE asked[s]]
Send(requests) ==
    IF \A r \in requests : ServiceOf[r] \in services
    THEN asked' = Queued(requests) /\ UNCHANGED crashed
    ELSE crashed' = TRUE /\ UNCHANGED asked

(* Some handlers look for the service first and do without it.              *)
IfPresent(service, request) == IF service \in services THEN {request} ELSE {}

(* The answer to a request is given to its callback, which dispatches the   *)
(* events "posted" one after the other.                                     *)
Answered(request, posted) ==
    /\ Idle
    /\ LET s == ServiceOf[request] IN
       \E i \in DOMAIN asked[s] :
          /\ asked[s][i] = request
          /\ InOrder => i = 1
          /\ asked' = [asked EXCEPT ![s] = RemoveAt(@, i)]
    /\ todo' = posted
    /\ UNCHANGED <<at, timer, T, crashed, gone>>

(* Nothing but requests comes of an event that leaves the state as it is.   *)
OnlySends(requests) == Send(requests) /\ UNCHANGED <<at, timer, T>>

-----------------------------------------------------------------------------
(* Changing state.  A change the mask "out" of the state does not permit is *)
(* refused, and its onenter not called.  "requests" is what onenter sends.  *)
(* The onenter of some states changes at once to another: path is the       *)
(* sequence of states entered.                                              *)

Permitted(out, path) ==
    \A i \in DOMAIN path : path[i] \in out[IF i = 1 THEN at["MODEM"] ELSE path[i - 1]]

(* The number of the timer is set with the timer only.                      *)
WrongChangeModem(out, path, timed, number, requests) ==
    IF Permitted(out, path)
    THEN /\ at' = [at EXCEPT !["MODEM"] = Last(path)]
         /\ timer' = timed /\ T' = IF timed THEN number ELSE T
         /\ Send(requests)
    ELSE UNCHANGED <<at, timer, T, asked, crashed>>

ChangeModem(out, path, timed, number, requests) ==
    IF Permitted(out, path)
    THEN /\ at' = [at EXCEPT !["MODEM"] = Last(path)]
         /\ timer' = timed /\ T' = number
         /\ Send(requests)
    ELSE UNCHANGED <<at, timer, T, asked, crashed>>

ChangeSim(out, new, requests) ==
    /\ IF new \in out[at["SIM"]]
       THEN at' = [at EXCEPT !["SIM"] = new] /\ Send(requests)
       ELSE UNCHANGED <<at, asked, crashed>>
    /\ UNCHANGED <<timer, T>>

=============================================================================
