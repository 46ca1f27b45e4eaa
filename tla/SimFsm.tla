-------------------------------- MODULE SimFsm --------------------------------
(***************************************************************************)
(* The SIM machine of a modem (uqmid/sim_fsm.c): it asks the modem for the  *)
(* state of the card, tries the configured PIN or PUK at most once, reads   *)
(* the IMSI and tells MODEM when the card is ready.                         *)
(*                                                                         *)
(* The machine has a timer too, but its timer_cb does nothing whatever the  *)
(* state, so it is left out.  So are the states WAIT_UIM_PRESENT and        *)
(* DESTROY, which nothing enters.  One card is modelled, in the first slot, *)
(* and one PIN, for PIN1 or the UPIN that replaces it.                      *)
(***************************************************************************)
EXTENDS FsmEngine

CONSTANTS
    Given,    \* the configurations the user may give
    Cards,    \* the cards that may be inserted: a sequence of applications each
    Faulty    \* the requests that may fail, and what else may go wrong

VARIABLES
    config,   \* what the user configured: has he at all, a pin, a puk
    sim,      \* modem->sim: state, pin_retries, puk_retries, pin_tried, puk_tried
    card      \* (external) the card itself

simVars == <<config, sim, card>>

Retries == 0 .. 255  \* a byte in the answers of the modem
PinStates == {"NOT_INITIALIZED", "NOT_VERIFIED", "VERIFIED", "DISABLED",
              "BLOCKED", "PERMANENTLY_BLOCKED"}
(* A card asks for its PIN, or its PUK, while there are tries left.         *)
Application ==
    {app \in [usable : BOOLEAN, pinState : PinStates, pin : Retries, puk : Retries] :
        /\ app.pinState = "NOT_VERIFIED" => app.pin > 0
        /\ app.pinState = "BLOCKED" => app.puk > 0}
SimStates == {"UNKNOWN", "PIN_REQUIRED", "PUK_REQUIRED", "READY", "SIM_BLOCKED"}

ASSUME GivenAssumption ==
    Given \subseteq [configured : {TRUE}, pin : BOOLEAN, puk : BOOLEAN]
ASSUME CardsAssumption == Cards \subseteq Seq(Application)
(* The other faults are answers the daemon tells from a plain error, a step *)
(* of the set-up of the network interface that fails, and a setting that    *)
(* the kernel refuses.                                                      *)
ASSUME FaultyAssumption ==
    Faulty \subseteq
        Kinds \cup {"no_mode", "call_failed", "no_effect", "kernel", "refused"}

Configurations == [configured : BOOLEAN, pin : BOOLEAN, puk : BOOLEAN]
SimRecord == [state : SimStates, pinRetries : Retries, pukRetries : Retries,
              pinTried : BOOLEAN, pukTried : BOOLEAN]

SimInit ==
    /\ config = [configured |-> FALSE, pin |-> FALSE, puk |-> FALSE]
    /\ sim = [state |-> "UNKNOWN", pinRetries |-> 0, pukRetries |-> 0,
              pinTried |-> FALSE, pukTried |-> FALSE]
    /\ card \in Cards

(* sim_states: the events a state handles and the states it may change to.  *)
sim_in_events ==
    [IDLE |-> {"REQ_START"},
     GET_INFO |-> {"GET_SLOT_FAILED", "VALID_ICCID", "NO_UIM_FOUND", "CARD_STATUS_VALID",
                   "GET_IMSI_SUCCESS", "GET_IMSI_FAILED"},
     READY |-> {}, CHV_PIN |-> {}, CHV_PUK |-> {}, FAIL_PIN_REQUIRED |-> {},
     FAIL_PUK_REQUIRED |-> {}, FAIL_NO_SIM_PRESENT |-> {}, FAILED |-> {}]

sim_out_states ==
    [IDLE |-> {"GET_INFO"},
     GET_INFO |-> {"READY", "CHV_PIN", "CHV_PUK", "FAIL_NO_SIM_PRESENT"},
     READY |-> {"GET_INFO"},
     CHV_PIN |-> {"CHV_PUK", "GET_INFO"},
     CHV_PUK |-> {"CHV_PIN", "GET_INFO"},
     FAIL_PIN_REQUIRED |-> {"GET_INFO"}, FAIL_PUK_REQUIRED |-> {"GET_INFO"},
     FAIL_NO_SIM_PRESENT |-> {"GET_INFO"}, FAILED |-> {"GET_INFO"}]

-----------------------------------------------------------------------------
(* The callbacks of the requests.                                            *)

(* uim_get_slot_status_cb: an active slot with an ICCID is reported before  *)
(* the event that none was found, which is dispatched in any case.          *)
uim_get_slot_status_cb ==
    /\ \/ /\ "slot_status" \in Faulty
          /\ Answered("slot_status", <<ToSim("GET_SLOT_FAILED")>>)
       \/ Answered("slot_status", <<ToSim("NO_UIM_FOUND")>>)
       \/ Answered("slot_status", <<ToSim("VALID_ICCID"), ToSim("NO_UIM_FOUND")>>)
    /\ UNCHANGED <<services, simVars>>

uim_pin_to_uqmi_state ==
    [NOT_INITIALIZED |-> "UNKNOWN", DISABLED |-> "READY", VERIFIED |-> "READY",
     NOT_VERIFIED |-> "PIN_REQUIRED", BLOCKED |-> "PUK_REQUIRED",
     PERMANENTLY_BLOCKED |-> "SIM_BLOCKED"]

Usable == \E j \in DOMAIN card : card[j].usable

(* The application whose PIN protects the card: the first usable one.       *)
Active == CHOOSE j \in DOMAIN card : /\ card[j].usable
                                     /\ \A k \in 1 .. j - 1 : ~card[k].usable

(* The application whose PIN is read: applications[i], i being the index    *)
(* not of the application but of the card.                                  *)
Read == 1

(* uim_get_card_status_cb.                                                  *)
uim_get_card_status_cb ==
    /\ \/ /\ "card_status" \in Faulty
          /\ Answered("card_status", <<ToSim("UIM_FAILED")>>)
          /\ UNCHANGED sim
       \/ /\ Usable
          /\ Answered("card_status", <<ToSim("CARD_STATUS_VALID")>>)
          /\ sim' = [sim EXCEPT !.state = uim_pin_to_uqmi_state[card[Read].pinState],
                                !.pinRetries = card[Read].pin,
                                !.pukRetries = card[Read].puk]
       \/ /\ ~Usable
          /\ Answered("card_status", <<Event("SIM", "NO_UIM_FOUND", "card_status")>>)
          /\ UNCHANGED sim
    /\ UNCHANGED <<services, config, card>>

(* uim_read_imsi_cb: an IMSI that cannot be decoded is reported as failed   *)
(* and then as read; a record without data as an event of another name.     *)
uim_read_imsi_cb ==
    /\ \/ Answered("read_imsi", <<ToSim("GET_IMSI_SUCCESS")>>)
       \/ /\ "read_imsi" \in Faulty
          /\ \E posted \in {<<ToSim("GET_IMSI_FAILED")>>, <<ToSim("RX_FAILED")>>,
                            <<ToSim("GET_IMSI_FAILED"), ToSim("GET_IMSI_SUCCESS")>>} :
                Answered("read_imsi", posted)
    /\ UNCHANGED <<services, simVars>>

(* The card after a wrong PIN, after a wrong PUK, and after a right one.    *)
WrongPin(app) ==
    [app EXCEPT !.pin = @ - 1,
                !.pinState = IF app.pin > 1 THEN @
                             ELSE IF app.puk > 0 THEN "BLOCKED" ELSE "PERMANENTLY_BLOCKED"]
WrongPuk(app) ==
    [app EXCEPT !.puk = @ - 1,
                !.pinState = IF app.puk = 1 THEN "PERMANENTLY_BLOCKED" ELSE @]
Unlocked(app) == [app EXCEPT !.pin = 3, !.pinState = "VERIFIED"]

(* The response to a PIN or PUK reports the tries left, or does not.        *)
RetriesReported(app) ==
    \/ sim' = [sim EXCEPT !.pinRetries = app.pin, !.pukRetries = app.puk]
    \/ UNCHANGED sim

(* uim_verify_pin_cb.                                                       *)
uim_verify_pin_cb ==
    /\ \/ /\ "verify_pin" \in Faulty
          /\ Answered("verify_pin", <<ToSim("PIN_INVALID")>>)
          /\ card[Active].pinState = "NOT_VERIFIED"
          /\ card' = [card EXCEPT ![Active] = WrongPin(@)]
       \/ /\ \E ev \in {"PIN_VERIFIED", "REFRESH"} : Answered("verify_pin", <<ToSim(ev)>>)
          /\ card' = [card EXCEPT ![Active] = Unlocked(@)]
    /\ RetriesReported(card'[Active])
    /\ UNCHANGED <<services, config>>

(* uim_unblock_pin_cb.                                                      *)
uim_unblock_pin_cb ==
    /\ \/ /\ "unblock_pin" \in Faulty
          /\ Answered("unblock_pin", <<ToSim("PUK_INVALID")>>)
          /\ card[Active].pinState = "BLOCKED"
          /\ card' = [card EXCEPT ![Active] = WrongPuk(@)]
       \/ /\ \E ev \in {"PUK_VERIFIED", "REFRESH"} : Answered("unblock_pin", <<ToSim(ev)>>)
          /\ card' = [card EXCEPT ![Active] = Unlocked(@)]
    /\ RetriesReported(card'[Active])
    /\ UNCHANGED <<services, config>>

-----------------------------------------------------------------------------
(* The handlers of the states.                                               *)

(* What sim_st_idle does with REQ_START, which MODEM dispatches while it    *)
(* handles an event of its own: the state and the request of GET_INFO.      *)
StartedSim == IF at["SIM"] = "IDLE" THEN "GET_INFO" ELSE at["SIM"]
WrongStartRequest == IF at["SIM"] = "IDLE" THEN {"slot_status"} ELSE {}
StartRequest == IF at["SIM"] = "IDLE" THEN IfPresent("UIM", "slot_status") ELSE {}

(* sim_st_get_info, the answer to a slot status: the card status is asked   *)
(* for, whether a slot was found or not.                                    *)
sim_st_get_info_slot ==
    /\ \E ev \in {"GET_SLOT_FAILED", "VALID_ICCID", "NO_UIM_FOUND"} :
          Handle("SIM", ev, sim_in_events, <<>>)
    /\ Head(todo).arg = "none"
    /\ OnlySends(IfPresent("UIM", "card_status"))
    /\ UNCHANGED <<services, gone, simVars>>

(* sim_st_get_info, a card status without an application.                   *)
sim_st_get_info_no_card ==
    /\ Handle("SIM", "NO_UIM_FOUND", sim_in_events, <<>>)
    /\ Head(todo).arg = "card_status"
    /\ ChangeSim(sim_out_states, "FAIL_NO_SIM_PRESENT", {})
    /\ UNCHANGED <<services, gone, simVars>>

(* sim_st_get_info, a card status with one.                                 *)
sim_st_get_info_card ==
    /\ Handle("SIM", "CARD_STATUS_VALID", sim_in_events, <<>>)
    /\ OnlySends(IfPresent("UIM", "read_imsi"))
    /\ UNCHANGED <<services, gone, simVars>>

ImsiRead(nested) ==
    \E ev \in {"GET_IMSI_FAILED", "GET_IMSI_SUCCESS"} : Handle("SIM", ev, sim_in_events, nested)

WrongReadyEvent == <<>>
ReadyEvent == <<ToModem("REQ_SIM_READY")>>

(* sim_st_get_info, once the IMSI was read or not, on a card that is ready: *)
(* sim_st_ready_on_enter tells MODEM.                                       *)
sim_st_ready_on_enter ==
    /\ ImsiRead(ReadyEvent)
    /\ sim.state = "READY"
    /\ ChangeSim(sim_out_states, "READY", {})
    /\ UNCHANGED <<services, gone, simVars>>

(* ... on a card that is missing or cannot be used any more.                *)
sim_st_get_info_fails ==
    /\ ImsiRead(<<>>)
    /\ \/ sim.state = "UNKNOWN" /\ ChangeSim(sim_out_states, "FAIL_NO_SIM_PRESENT", {})
       \/ sim.state = "SIM_BLOCKED" /\ ChangeSim(sim_out_states, "FAILED", {})
    /\ UNCHANGED <<services, gone, simVars>>

(* More than one try must be left, and none made yet.                       *)
WrongMayTryPin == sim.pinRetries >= 1 /\ ~sim.pinTried /\ config.pin
MayTryPin == sim.pinRetries >= 2 /\ ~sim.pinTried /\ config.pin
WrongMayTryPuk == sim.pukRetries >= 1 /\ ~sim.pukTried /\ config.puk /\ config.pin
MayTryPuk == sim.pukRetries >= 2 /\ ~sim.pukTried /\ config.puk /\ config.pin

(* ... on a card that asks for its PIN.  sim_st_chv_pin_on_enter, unable to *)
(* try one, asks for a change the masks refuse: the machine stays there.    *)
sim_st_chv_pin_on_enter ==
    /\ ImsiRead(<<>>)
    /\ sim.state = "PIN_REQUIRED"
    /\ ChangeSim(sim_out_states, "CHV_PIN", IF MayTryPin THEN {"verify_pin"} ELSE {})
    /\ sim' = [sim EXCEPT !.pinTried = @ \/ MayTryPin]
    /\ UNCHANGED <<services, gone, config, card>>

(* ... on a card that asks for its PUK.                                     *)
sim_st_chv_puk_on_enter ==
    /\ ImsiRead(<<>>)
    /\ sim.state = "PUK_REQUIRED"
    /\ ChangeSim(sim_out_states, "CHV_PUK", IF MayTryPuk THEN {"unblock_pin"} ELSE {})
    /\ sim' = [sim EXCEPT !.pukTried = @ \/ MayTryPuk]
    /\ UNCHANGED <<services, gone, config, card>>

-----------------------------------------------------------------------------

SimCallback ==
    \/ uim_get_slot_status_cb
    \/ uim_get_card_status_cb
    \/ uim_read_imsi_cb
    \/ uim_verify_pin_cb
    \/ uim_unblock_pin_cb

SimHandler ==
    \/ sim_st_get_info_slot
    \/ sim_st_get_info_no_card
    \/ sim_st_get_info_card
    \/ sim_st_ready_on_enter
    \/ sim_st_get_info_fails
    \/ sim_st_chv_pin_on_enter
    \/ sim_st_chv_puk_on_enter
    \/ Drop("SIM", sim_in_events, {}) /\ UNCHANGED simVars

=============================================================================
