-------------------------------- MODULE UqmiDms --------------------------------
(* The device management commands: uqmi/commands-dms.c.                     *)
EXTENDS UqmiHandlers

oper_modes == {"online", "low_power", "factory_test", "offline", "reset", "shutting_down",
               "persistent_low_power", "mode_only_low_power"}

DmsStatic == [dms_req_data |-> <<>>]

-----------------------------------------------------------------------------
(* Options: the PINs the commands below need.                               *)

dms_set_pin(s, a) == Done(Put(s, {<<"dms_req_data", "pin">>}, a))
dms_set_new_pin(s, a) == Done(Put(s, {<<"dms_req_data", "new_pin">>}, a))
dms_set_puk(s, a) == Done(Put(s, {<<"dms_req_data", "puk">>}, a))

-----------------------------------------------------------------------------
(* Commands.                                                                 *)

dms_get_capabilities(s) == Plain(s, "dms_get_capabilities")
dms_get_pin_status(s) == Plain(s, "dms_get_pin_status")

dms_verify_pin(s, a, id) ==
    Request(s, IF id = 1 THEN "dms_verify_pin1" ELSE "dms_verify_pin2",
            [pin_id |-> id, pin |-> a])

(* The PIN the change is for is noted before anything is checked.           *)
dms_set_pin_protection(s, a, id) ==
    LET t == Set(s, "dms_req_data", [pin_id |-> id])
        d == t.dms_req_data
    IN  IF "pin" \in DOMAIN d /\ Is(a, {"disabled", "enabled"})
        THEN Request(t, IF id = 1 THEN "dms_set_pin1_protection" ELSE "dms_set_pin2_protection",
                     [pin_id |-> id, pin |-> d.pin, protection_enabled |-> Word(a) = "enabled"])
        ELSE Exit(t)

dms_change_pin(s, id) ==
    LET t == Set(s, "dms_req_data", [pin_id |-> id])
        d == t.dms_req_data
    IN  IF {"pin", "new_pin"} \subseteq DOMAIN d
        THEN Request(t, IF id = 1 THEN "dms_change_pin1" ELSE "dms_change_pin2",
                     [pin_id |-> id, old_pin |-> d.pin, new_pin |-> d.new_pin])
        ELSE Exit(t)

dms_unblock_pin(s, id) ==
    LET d == s.dms_req_data
    IN  IF {"puk", "new_pin"} \subseteq DOMAIN d
        THEN Request(s, IF id = 1 THEN "dms_unblock_pin1" ELSE "dms_unblock_pin2",
                     [pin_id |-> id, puk |-> d.puk, new_pin |-> d.new_pin])
        ELSE Exit(s)

dms_get_ids(s, c) == Plain(s, c)
dms_reset(s) == Plain(s, "dms_reset")
dms_get_operating_mode(s) == Plain(s, "dms_get_operating_mode")

dms_set_operating_mode(s, a) ==
    IF Is(a, oper_modes)
    THEN Request(s, "dms_set_operating_mode", [mode |-> Word(a)])
    ELSE Exit(s)

dms_set_fcc_authentication(s) == Plain(s, "dms_set_fcc_authentication")

-----------------------------------------------------------------------------
(* Printing.                                                                 *)

dms_get_capabilities_cb ==
    Show("info", {"max_tx_channel_rate", "max_rx_channel_rate", "data_service", "sim",
                  "networks"})

dms_get_pin_status_cb(t) ==
    UNION {If(t, "pin1_status", {"pin1_status", "pin1_verify_tries", "pin1_unblock_tries"}),
           If(t, "pin2_status", {"pin2_status", "pin2_verify_tries", "pin2_unblock_tries"})}

dms_get_iccid_cb(t) == If(t, "iccid", {"iccid"})
dms_get_imsi_cb(t) == If(t, "imsi", {"imsi"})
dms_get_msisdn_cb(t) == If(t, "msisdn", {"msisdn"})
dms_get_imei_cb(t) == If(t, "imei", {"imei"})
dms_get_operating_mode_cb == Show("mode", {"mode"})

-----------------------------------------------------------------------------
(* __uqmi_dms_commands.                                                     *)

DmsOptions == {"dms_set_pin", "dms_set_puk", "dms_set_new_pin"}
DmsIds == {"dms_get_iccid", "dms_get_imsi", "dms_get_imei", "dms_get_msisdn"}
DmsCommands == {"dms_get_capabilities", "dms_get_pin_status", "dms_verify_pin1",
                "dms_verify_pin2", "dms_set_pin1_protection", "dms_set_pin2_protection",
                "dms_change_pin1", "dms_change_pin2", "dms_unblock_pin1", "dms_unblock_pin2",
                "dms_get_operating_mode", "dms_set_operating_mode", "dms_reset",
                "dms_set_fcc_authentication"} \cup DmsIds

DmsPrepare(c, s, a) ==
    CASE c = "dms_set_pin" -> dms_set_pin(s, a)
      [] c = "dms_set_puk" -> dms_set_puk(s, a)
      [] c = "dms_set_new_pin" -> dms_set_new_pin(s, a)
      [] c = "dms_get_capabilities" -> dms_get_capabilities(s)
      [] c = "dms_get_pin_status" -> dms_get_pin_status(s)
      [] c = "dms_verify_pin1" -> dms_verify_pin(s, a, 1)
      [] c = "dms_verify_pin2" -> dms_verify_pin(s, a, 2)
      [] c = "dms_set_pin1_protection" -> dms_set_pin_protection(s, a, 1)
      [] c = "dms_set_pin2_protection" -> dms_set_pin_protection(s, a, 2)
      [] c = "dms_change_pin1" -> dms_change_pin(s, 1)
      [] c = "dms_change_pin2" -> dms_change_pin(s, 2)
      [] c = "dms_unblock_pin1" -> dms_unblock_pin(s, 1)
      [] c = "dms_unblock_pin2" -> dms_unblock_pin(s, 2)
      [] c \in DmsIds -> dms_get_ids(s, c)
      [] c = "dms_reset" -> dms_reset(s)
      [] c = "dms_get_operating_mode" -> dms_get_operating_mode(s)
      [] c = "dms_set_operating_mode" -> dms_set_operating_mode(s, a)
      [] c = "dms_set_fcc_authentication" -> dms_set_fcc_authentication(s)

DmsPrint(c, t) ==
    CASE c = "dms_get_capabilities" -> dms_get_capabilities_cb
      [] c = "dms_get_pin_status" -> dms_get_pin_status_cb(t)
      [] c = "dms_get_iccid" -> dms_get_iccid_cb(t)
      [] c = "dms_get_imsi" -> dms_get_imsi_cb(t)
      [] c = "dms_get_msisdn" -> dms_get_msisdn_cb(t)
      [] c = "dms_get_imei" -> dms_get_imei_cb(t)
      [] c = "dms_get_operating_mode" -> dms_get_operating_mode_cb
      [] OTHER -> {}
=============================================================================
