------------------------------- MODULE ModemFsm -------------------------------
(***************************************************************************)
(* The MODEM machine (uqmid/modem_fsm.c), which brings a modem from its     *)
(* first synchronisation to a running data connection: it learns the        *)
(* services, identifies the modem, switches the radio off, waits for a      *)
(* configuration and for the SIM, writes the profile, configures the kernel *)
(* interface, switches the radio on, waits for a network and starts the     *)
(* connection.                                                             *)
(*                                                                         *)
(* The callback that answers a request only dispatches events; the handlers *)
(* of the states act on those their state admits, whichever request the     *)
(* event came from.                                                         *)
(***************************************************************************)
EXTENDS SimFsm, Wwan

CONSTANTS
    Offered,   \* the sets of services a modem may list in its version answer
    Radios,    \* the operating modes a modem may start in
    Links,     \* the settings its network interface may have before
    MaxAsked   \* (bound) with so many requests unanswered, no timer repeats one and
               \* the user does not configure the modem

ASSUME OfferedAssumption == \A s \in Offered : "CTL" \in s /\ s \subseteq Services
ASSUME RadiosAssumption == Radios \subseteq {"online", "low", "other"}
ASSUME LinksAssumption == Links \subseteq Interface
ASSUME MaxAskedAssumption == MaxAsked \in Nat

VARIABLES
    error,     \* modem->state.error is set
    link,      \* (external) the settings of the network interface
    agreed,    \* has the modem agreed to raw-ip since they were last written?
    radio,     \* (external) the modem's operating mode: online, low or another
    coverage   \* (external) is there a network to register with?

modemVars == <<error, link, agreed, radio, coverage>>
others == <<services, gone, simVars>>

ModemInit ==
    /\ error = FALSE
    /\ link \in Links
    /\ agreed = FALSE
    /\ radio \in Radios
    /\ coverage \in BOOLEAN

modem_in_events ==
    [IDLE |-> {"REQ_START"},
     RESYNC |-> {"RX_SYNC"},
     GET_VERSION |-> {"RX_VERSION"},
     GET_MODEL |-> {"RX_MODEL", "RX_MANUFACTURER", "RX_REVISION", "RX_IMEI"},
     POWEROFF |-> {"RX_POWEROFF", "RX_POWERON", "RX_POWERSET", "REQ_CONFIGURED"},
     WAIT_UIM |-> {"REQ_SIM_READY"},
     CONFIGURE_MODEM |-> {"RX_CONFIGURED", "RX_GET_PROFILE_LIST", "RX_MODIFIED_PROFILE"},
     CONFIGURE_KERNEL |-> {"RX_SUCCEED"},
     POWERON |-> {"RX_POWEROFF", "RX_POWERON", "RX_POWERSET"},
     NETSEARCH |-> {"RX_REGISTERED", "RX_UNREGISTERED", "RX_SEARCHING", "RX_FAILED",
                    "RX_SUBSCRIBED", "RX_SUBSCRIBE_FAILED"},
     REGISTERED |-> {},
     START_IFACE |-> {"RX_SUCCEED", "RX_FAILED", "RX_DISABLE_AUTOCONNECT_SUCCESS"},
     LIVE |-> {"RX_SUCCEED", "RX_FAILED"},
     FAILED |-> {}, DESTROY |-> {}]

ModemStates == DOMAIN modem_in_events

(* Every state but DESTROY itself may change to DESTROY.                    *)
modem_out_states ==
    LET mask ==
        [IDLE |-> {"RESYNC"}, RESYNC |-> {"GET_VERSION", "FAILED"},
         GET_VERSION |-> {"GET_MODEL"}, GET_MODEL |-> {"POWEROFF"},
         POWEROFF |-> {"CONFIGURE_MODEM", "WAIT_UIM"}, WAIT_UIM |-> {"CONFIGURE_MODEM"},
         CONFIGURE_MODEM |-> {"CONFIGURE_KERNEL"}, CONFIGURE_KERNEL |-> {"POWERON"},
         POWERON |-> {"NETSEARCH"}, NETSEARCH |-> {"REGISTERED"},
         REGISTERED |-> {"START_IFACE"}, START_IFACE |-> {"LIVE", "POWEROFF"},
         LIVE |-> {}, FAILED |-> {}, DESTROY |-> {}]
    IN [s \in ModemStates |-> IF s = "DESTROY" THEN {} ELSE mask[s] \cup {"DESTROY"}]

N_NONE == 0
N_RESEND == 1
N_FAILURE == 2

-----------------------------------------------------------------------------
(* The callbacks of the requests.                                            *)

(* A request whose callback dispatches one event when it went well and      *)
(* another when it did not.                                                 *)
Outcome(request, good, bad) ==
    /\ \/ Answered(request, <<ToModem(good)>>)
       \/ request \in Faulty /\ Answered(request, <<ToModem(bad)>>)
    /\ UNCHANGED <<services, simVars, modemVars>>

ctl_sync_request_cb == Outcome("sync", "RX_SYNC", "RX_FAILED")

(* An answer without services, or an error, goes on as well.                *)
uqmid_modem_version_cb ==
    /\ Answered("version", <<ToModem("RX_VERSION")>>)
    /\ \/ \E offered \in Offered : services' = services \cup offered
       \/ "version" \in Faulty /\ UNCHANGED services
    /\ UNCHANGED <<simVars, modemVars>>

(* What the modem is and who made it makes no difference, nor does it if    *)
(* the modem does not say.                                                  *)
get_model_cb == Outcome("model", "RX_MODEL", "RX_MODEL")
get_manuf_cb == Outcome("manuf", "RX_MANUFACTURER", "RX_MANUFACTURER")
get_revision_cb == Outcome("revision", "RX_REVISION", "RX_REVISION")
get_ids_cb == Outcome("ids", "RX_IMEI", "RX_IMEI")

(* An answer without a mode counts as failed and then as online, and any    *)
(* mode that is not low power as online.                                    *)
dms_get_operating_mode_cb ==
    /\ \/ /\ radio = "low"
          /\ Answered("get_opmode", <<ToModem("RX_POWEROFF")>>)
       \/ /\ radio # "low"
          /\ Answered("get_opmode", <<ToModem("RX_POWERON")>>)
       \/ /\ "get_opmode" \in Faulty
          /\ Answered("get_opmode", <<ToModem("RX_FAILED")>>)
       \/ /\ "no_mode" \in Faulty
          /\ Answered("get_opmode", <<ToModem("RX_FAILED"), ToModem("RX_POWERON")>>)
    /\ UNCHANGED <<services, simVars, modemVars>>

(* The modem switches the radio before it answers.                          *)
SetRequest == [low |-> "set_low_power", online |-> "set_online"]

dms_set_operating_mode_cb ==
    \E mode \in DOMAIN SetRequest :
       LET request == SetRequest[mode] IN
       /\ \/ Answered(request, <<ToModem("RX_POWERSET")>>) /\ radio' = mode
          \/ /\ request \in Faulty
             /\ Answered(request, <<ToModem("RX_FAILED")>>)
             /\ UNCHANGED radio
       /\ UNCHANGED <<services, simVars, error, link, agreed, coverage>>

(* A list without a 3GPP profile is reported as an error, arg 1.            *)
wds_get_profile_list_cb ==
    /\ \/ Answered("profile_list", <<ToModem("RX_GET_PROFILE_LIST")>>)
       \/ /\ "profile_list" \in Faulty
          /\ \E posted \in {ToModem("RX_FAILED"),
                            Event("MODEM", "RX_GET_PROFILE_LIST", "error")} :
                Answered("profile_list", <<posted>>)
    /\ UNCHANGED <<services, simVars, modemVars>>

(* The error it reports is not looked at.                                   *)
wds_modify_profile_cb ==
    Outcome("modify_profile", "RX_MODIFIED_PROFILE", "RX_MODIFIED_PROFILE")

(* Only raw-ip will do; the event names the message it answers.             *)
wda_set_data_format_cb ==
    /\ \/ /\ Answered("data_format", <<Event("MODEM", "RX_SUCCEED", "data_format")>>)
          /\ agreed' = TRUE
       \/ /\ "data_format" \in Faulty
          /\ Answered("data_format", <<ToModem("RX_FAILED")>>)
          /\ UNCHANGED agreed
    /\ UNCHANGED <<services, simVars, error, link, radio, coverage>>

subscribe_result_cb == Outcome("subscribe", "RX_SUBSCRIBED", "RX_SUBSCRIBE_FAILED")

(* Without its radio the modem registers with no network.  A registration   *)
(* state the daemon does not know is passed over.                           *)
Registered == coverage /\ radio = "online"

get_serving_system_cb ==
    /\ \/ /\ Registered
          /\ Answered("serving_system", <<ToModem("RX_REGISTERED")>>)
       \/ /\ ~Registered
          /\ \E ev \in {"RX_UNREGISTERED", "RX_SEARCHING"} :
                Answered("serving_system", <<ToModem(ev)>>)
       \/ /\ "serving_system" \in Faulty
          /\ \E posted \in {<<>>, <<ToModem("RX_FAILED")>>} :
                Answered("serving_system", posted)
    /\ UNCHANGED <<services, simVars, modemVars>>

nas_force_search_cb ==
    /\ \/ Answered("network_search", <<>>)
       \/ /\ "network_search" \in Faulty
          /\ Answered("network_search", <<ToModem("RX_FAILED")>>)
    /\ UNCHANGED <<services, simVars, modemVars>>

(* A connection is given a handle.  NO_EFFECT with one counts as success.   *)
wds_start_network_cb ==
    /\ \/ Answered("start_network", <<ToModem("RX_SUCCEED")>>)
       \/ \E reason \in {"call_failed", "no_effect"} \cap Faulty :
             Answered("start_network", <<Event("MODEM", "RX_FAILED", reason)>>)
       \/ /\ "start_network" \in Faulty
          /\ Answered("start_network", <<ToModem("RX_FAILED")>>)
    /\ UNCHANGED <<services, simVars, modemVars>>

wds_stop_network_cb ==
    Outcome("stop_network", "RX_DISABLE_AUTOCONNECT_SUCCESS", "RX_FAILED")

(* Settings that lack something are reported as failed, and then as read.   *)
wds_get_current_settings_cb ==
    /\ \/ Answered("current_settings", <<ToModem("RX_SUCCEED")>>)
       \/ /\ "current_settings" \in Faulty
          /\ \E rest \in {<<>>, <<ToModem("RX_SUCCEED")>>} :
                Answered("current_settings", <<ToModem("RX_FAILED")>> \o rest)
    /\ UNCHANGED <<services, simVars, modemVars>>

-----------------------------------------------------------------------------
(* The handlers of the states, and the onenter of the states they change to.*)

On(ev) == Handle("MODEM", ev, modem_in_events, <<>>)
OnIn(state, events) == at["MODEM"] = state /\ \E ev \in events : On(ev)

Enter(path, timed, number, requests) ==
    ChangeModem(modem_out_states, path, timed, number, requests)

modem_st_unconfigured ==
    /\ OnIn("IDLE", {"REQ_START"})
    /\ Enter(<<"RESYNC">>, TRUE, N_FAILURE, {"sync"})
    /\ UNCHANGED <<others, modemVars>>

modem_st_resync ==
    /\ OnIn("RESYNC", {"RX_SYNC"})
    /\ Enter(<<"GET_VERSION">>, TRUE, N_NONE, {"version"})
    /\ UNCHANGED <<others, modemVars>>

(* The SIM machine is started first: what it sends precedes what GET_MODEL  *)
(* sends.                                                                   *)
modem_st_get_version ==
    /\ OnIn("GET_VERSION", {"RX_VERSION"})
    /\ at' = [at EXCEPT !["MODEM"] = "GET_MODEL", !["SIM"] = StartedSim]
    /\ timer' = FALSE /\ T' = N_NONE
    /\ Send(StartRequest \cup {"model"})
    /\ UNCHANGED <<others, modemVars>>

NextQuestion == [RX_MODEL |-> "manuf", RX_MANUFACTURER |-> "revision", RX_REVISION |-> "ids"]

modem_st_get_model_asks ==
    /\ OnIn("GET_MODEL", DOMAIN NextQuestion)
    /\ OnlySends({NextQuestion[Head(todo).ev]})
    /\ UNCHANGED <<others, modemVars>>

modem_st_get_model_done ==
    /\ OnIn("GET_MODEL", {"RX_IMEI"})
    /\ Enter(<<"POWEROFF">>, TRUE, N_NONE, IfPresent("DMS", "get_opmode"))
    /\ UNCHANGED <<others, modemVars>>

modem_st_poweroff_asks ==
    /\ \/ OnIn("POWEROFF", {"RX_POWERON"}) /\ OnlySends({"set_low_power"})
       \/ OnIn("POWEROFF", {"RX_POWERSET"}) /\ OnlySends({"get_opmode"})
    /\ UNCHANGED <<others, modemVars>>

(* modem_st_wait_uim_onenter: with the SIM ready there is nothing to wait   *)
(* for.                                                                     *)
WrongEnterWaitUim == Enter(<<"WAIT_UIM">>, FALSE, N_NONE, {})
WrongEntersAnyway ==
    Enter(<<"WAIT_UIM", "CONFIGURE_MODEM">>, FALSE, N_NONE, {"profile_list"})
EnterWaitUim ==
    IF at["SIM"] = "READY"
    THEN Enter(<<"WAIT_UIM", "CONFIGURE_MODEM">>, FALSE, N_NONE, {"profile_list"})
    ELSE Enter(<<"WAIT_UIM">>, FALSE, N_NONE, {})

(* With the radio off the machine waits for the user, unless he has spoken; *)
(* after an error he must speak again.                                      *)
WrongGoesOn == config.configured
GoesOn == config.configured /\ ~error

modem_st_poweroff_off ==
    /\ OnIn("POWEROFF", {"RX_POWEROFF"})
    /\ IF GoesOn
       THEN EnterWaitUim
       ELSE timer' = FALSE /\ UNCHANGED <<at, T, asked, crashed>>
    /\ UNCHANGED <<others, modemVars>>

modem_st_poweroff_configured ==
    /\ OnIn("POWEROFF", {"REQ_CONFIGURED"})
    /\ EnterWaitUim
    /\ UNCHANGED <<others, modemVars>>

modem_st_wait_uim ==
    /\ OnIn("WAIT_UIM", {"REQ_SIM_READY"})
    /\ Enter(<<"CONFIGURE_MODEM">>, FALSE, N_NONE, {"profile_list"})
    /\ UNCHANGED <<others, modemVars>>

(* Without a profile nothing more happens.                                  *)
modem_st_configure_modem_profile ==
    /\ OnIn("CONFIGURE_MODEM", {"RX_GET_PROFILE_LIST"})
    /\ OnlySends(IF Head(todo).arg = "error" THEN {} ELSE {"modify_profile"})
    /\ UNCHANGED <<others, modemVars>>

(* modem_st_configure_kernel_onenter sets the interface up.  The first step *)
(* to fail ends it, with nothing sent.                                      *)
modem_st_configure_modem_done ==
    /\ OnIn("CONFIGURE_MODEM", {"RX_MODIFIED_PROFILE"})
    /\ \E outcome \in configure_kernel(link) :
          /\ outcome.ok \/ "kernel" \in Faulty
          /\ outcome.net.refused = {} \/ "refused" \in Faulty
          /\ link' = outcome.net
          /\ Enter(<<"CONFIGURE_KERNEL">>, TRUE, N_NONE,
                   IF outcome.ok THEN {"data_format"} ELSE {})
    /\ agreed' = FALSE
    /\ UNCHANGED <<others, error, radio, coverage>>

(* A success of another request than the data format is not meant.          *)
WrongForDataFormat == TRUE
ForDataFormat == Head(todo).arg = "data_format"

modem_st_configure_kernel ==
    /\ OnIn("CONFIGURE_KERNEL", {"RX_SUCCEED"})
    /\ IF ForDataFormat
       THEN Enter(<<"POWERON">>, FALSE, N_NONE, IfPresent("DMS", "get_opmode"))
       ELSE OnlySends({})
    /\ UNCHANGED <<others, modemVars>>

modem_st_poweron_off ==
    /\ OnIn("POWERON", {"RX_POWEROFF"})
    /\ OnlySends({"set_online"})
    /\ UNCHANGED <<others, modemVars>>

WrongRadioIsOn == {"RX_POWERSET", "RX_POWERON", "RX_POWEROFF"}
RadioIsOn == {"RX_POWERSET", "RX_POWERON"}

modem_st_poweron_on ==
    /\ OnIn("POWERON", RadioIsOn)
    /\ Enter(<<"NETSEARCH">>, TRUE, N_NONE, {"subscribe"})
    /\ UNCHANGED <<others, modemVars>>

modem_st_netsearch_asks ==
    /\ \/ /\ OnIn("NETSEARCH", {"RX_SUBSCRIBED", "RX_SUBSCRIBE_FAILED"})
          /\ OnlySends({"serving_system"})
       \/ /\ OnIn("NETSEARCH", {"RX_UNREGISTERED"})
          /\ OnlySends({"network_search"})
       \/ /\ OnIn("NETSEARCH", {"RX_SEARCHING"})
          /\ OnlySends({})
    /\ UNCHANGED <<others, modemVars>>

modem_st_netsearch_failed ==
    /\ OnIn("NETSEARCH", {"RX_FAILED"})
    /\ timer' = TRUE
    /\ UNCHANGED <<at, T, asked, crashed, others, modemVars>>

(* modem_st_registered_onenter goes on to START_IFACE.                      *)
modem_st_netsearch_registered ==
    /\ OnIn("NETSEARCH", {"RX_REGISTERED"})
    /\ Enter(<<"REGISTERED", "START_IFACE">>, TRUE, N_NONE, {"start_network"})
    /\ UNCHANGED <<others, modemVars>>

(* A failed call is left to the timer, which must then be running.          *)
modem_st_start_iface_retries ==
    /\ \/ /\ OnIn("START_IFACE", {"RX_DISABLE_AUTOCONNECT_SUCCESS"})
          /\ Send({"start_network"}) /\ UNCHANGED T
       \/ /\ OnIn("START_IFACE", {"RX_FAILED"})
          /\ \/ Head(todo).arg = "call_failed" /\ T' = N_RESEND /\ Send({})
             \/ Head(todo).arg = "no_effect" /\ UNCHANGED T /\ Send({"stop_network"})
    /\ UNCHANGED <<at, timer, others, modemVars>>

modem_st_start_iface_failed ==
    /\ OnIn("START_IFACE", {"RX_FAILED"})
    /\ Head(todo).arg \notin {"call_failed", "no_effect"}
    /\ error' = TRUE
    /\ Enter(<<"POWEROFF">>, FALSE, N_NONE, IfPresent("DMS", "get_opmode"))
    /\ UNCHANGED <<others, link, agreed, radio, coverage>>

modem_st_start_iface_done ==
    /\ OnIn("START_IFACE", {"RX_SUCCEED"})
    /\ Enter(<<"LIVE">>, FALSE, N_NONE, {"current_settings"})
    /\ UNCHANGED <<others, modemVars>>

modem_st_live ==
    /\ OnIn("LIVE", {"RX_SUCCEED", "RX_FAILED"})
    /\ OnlySends({})
    /\ UNCHANGED <<others, modemVars>>

(* modem_fsm_allstate_action: closing the device is the business of         *)
(* QmiServices; the services it frees are in module Modem.                  *)
modem_fsm_allstate_action ==
    /\ Arriving("MODEM")
    /\ Head(todo).ev = "REQ_DESTROY"
    /\ todo' = Tail(todo)
    /\ Enter(<<"DESTROY">>, FALSE, N_NONE, {})
    /\ UNCHANGED <<others, modemVars>>

-----------------------------------------------------------------------------
(* modem_fsm_timer_cb.  The services it looks for exist: the state it runs  *)
(* in was not entered without them.                                         *)

Expires == Idle /\ timer
FewAsked ==
    Cardinality({p \in Services \X (1 .. MaxAsked) : p[2] <= Len(asked[p[1]])}) < MaxAsked

WrongPollAgain == FALSE
PollAgain == TRUE

TimerPolls ==
    /\ Expires /\ at["MODEM"] = "NETSEARCH" /\ FewAsked
    /\ Send({"serving_system"})
    /\ timer' = PollAgain
    /\ UNCHANGED <<at, T, todo, others, modemVars>>

TimerResends ==
    /\ Expires /\ at["MODEM"] = "START_IFACE" /\ T = N_RESEND /\ FewAsked
    /\ Send({"start_network"})
    /\ UNCHANGED <<at, timer, T, todo, others, modemVars>>

TimerFails ==
    /\ Expires /\ at["MODEM"] \notin {"NETSEARCH", "START_IFACE"} /\ T = N_FAILURE
    /\ Enter(<<"FAILED">>, FALSE, N_NONE, {})
    /\ UNCHANGED <<todo, others, modemVars>>

(* Any other timer has no effect but to be over.                            *)
TimerIgnored ==
    /\ Expires
    /\ \/ at["MODEM"] = "START_IFACE" /\ T # N_RESEND
       \/ at["MODEM"] \notin {"NETSEARCH", "START_IFACE"} /\ T # N_FAILURE
    /\ timer' = FALSE
    /\ UNCHANGED <<at, T, asked, crashed, todo, others, modemVars>>

-----------------------------------------------------------------------------

ModemCallback ==
    \/ ctl_sync_request_cb \/ uqmid_modem_version_cb
    \/ get_model_cb \/ get_manuf_cb \/ get_revision_cb \/ get_ids_cb
    \/ dms_get_operating_mode_cb \/ dms_set_operating_mode_cb
    \/ wds_get_profile_list_cb \/ wds_modify_profile_cb
    \/ wda_set_data_format_cb
    \/ subscribe_result_cb \/ get_serving_system_cb \/ nas_force_search_cb
    \/ wds_start_network_cb \/ wds_stop_network_cb \/ wds_get_current_settings_cb

ModemHandler ==
    \/ modem_st_unconfigured \/ modem_st_resync \/ modem_st_get_version
    \/ modem_st_get_model_asks \/ modem_st_get_model_done
    \/ modem_st_poweroff_asks \/ modem_st_poweroff_off \/ modem_st_poweroff_configured
    \/ modem_st_wait_uim
    \/ modem_st_configure_modem_profile \/ modem_st_configure_modem_done
    \/ modem_st_configure_kernel
    \/ modem_st_poweron_off \/ modem_st_poweron_on
    \/ modem_st_netsearch_asks \/ modem_st_netsearch_failed
    \/ modem_st_netsearch_registered
    \/ modem_st_start_iface_retries \/ modem_st_start_iface_failed
    \/ modem_st_start_iface_done
    \/ modem_st_live
    \/ modem_fsm_allstate_action
    \/ Drop("MODEM", modem_in_events, {"REQ_DESTROY"}) /\ UNCHANGED <<simVars, modemVars>>

TimerCallback == TimerPolls \/ TimerResends \/ TimerFails \/ TimerIgnored

=============================================================================
