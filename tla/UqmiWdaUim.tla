------------------------------ MODULE UqmiWdaUim ------------------------------
(* The data format and the SIM commands: uqmi/commands-wda.c, -uim.c.       *)
EXTENDS UqmiHandlers

link_modes == {"802.3", "raw-ip"}
aggregation_protocols == {"tlp", "qc-cm", "mbim", "rndis", "qmap", "qmapv5"}

(* wda_aggregation_info; flow control is sent only if it was given.         *)
WdaStatic == [wda_aggregation_info |->
    [max_size_dl |-> 0, max_datagrams_dl |-> 0, aggregation_protocol_dl |-> "disabled",
     max_size_ul |-> 0, max_datagrams_ul |-> 0, aggregation_protocol_ul |-> "disabled"]]

Aggregation(s, field, v) == Done(Put(s, {<<"wda_aggregation_info", field>>}, v))

wda_downlink_data_aggregation_protocol(s, a) ==
    IF Is(a, aggregation_protocols)
    THEN Aggregation(s, "aggregation_protocol_dl", Word(a)) ELSE Exit(s)

wda_uplink_data_aggregation_protocol(s, a) ==
    IF Is(a, aggregation_protocols)
    THEN Aggregation(s, "aggregation_protocol_ul", Word(a)) ELSE Exit(s)

wda_downlink_data_aggregation_max_datagrams(s, a) ==
    Aggregation(s, "max_datagrams_dl", Number(a, 32))
wda_downlink_data_aggregation_max_size(s, a) == Aggregation(s, "max_size_dl", Number(a, 32))
wda_uplink_data_aggregation_max_datagrams(s, a) ==
    Aggregation(s, "max_datagrams_ul", Number(a, 32))
wda_uplink_data_aggregation_max_size(s, a) == Aggregation(s, "max_size_ul", Number(a, 32))

wda_flow_control(s, a) ==
    IF Number(a, 32) \in {0, 1} THEN Aggregation(s, "flow_control", Number(a, 32)) ELSE Exit(s)

(* A mode that is none is refused only if the variable it would have been   *)
(* stored in happens to hold zero; otherwise it is sent as it is.           *)
wda_set_data_format(s, a, zero) ==
    IF ~Is(a, link_modes) /\ zero
    THEN Exit(s)
    ELSE Request(s, "wda_set_data_format",
            Onto([link_layer_protocol |-> IF Is(a, link_modes) THEN Word(a) ELSE "undefined",
                  downlink_minimum_padding |-> 0], s.wda_aggregation_info))

wda_get_data_format(s) == Plain(s, "wda_get_data_format")

wda_get_data_format_cb ==
    UNION {Show(f, {f}) : f \in {"qos-format", "link-layer-protocol",
              "data-aggregation-protocol", "uplink-data-aggregation-max-datagrams",
              "uplink-data-aggregation-max-size", "downlink-data-aggregation-protocol",
              "downlink-data-aggregation-max-datagrams", "downlink-data-aggregation-max-size",
              "download-minimum-padding", "flow-control"}}

WdaOptions == {"wda_downlink_data_aggregation_protocol",
               "wda_downlink_data_aggregation_max_datagrams",
               "wda_downlink_data_aggregation_max_size", "wda_uplink_data_aggregation_protocol",
               "wda_uplink_data_aggregation_max_datagrams",
               "wda_uplink_data_aggregation_max_size", "wda_flow_control"}
WdaCommands == {"wda_set_data_format", "wda_get_data_format"}

WdaPrepare(c, s, a, zero) ==
    CASE c = "wda_downlink_data_aggregation_protocol" ->
            wda_downlink_data_aggregation_protocol(s, a)
      [] c = "wda_downlink_data_aggregation_max_datagrams" ->
            wda_downlink_data_aggregation_max_datagrams(s, a)
      [] c = "wda_downlink_data_aggregation_max_size" ->
            wda_downlink_data_aggregation_max_size(s, a)
      [] c = "wda_uplink_data_aggregation_protocol" -> wda_uplink_data_aggregation_protocol(s, a)
      [] c = "wda_uplink_data_aggregation_max_datagrams" ->
            wda_uplink_data_aggregation_max_datagrams(s, a)
      [] c = "wda_uplink_data_aggregation_max_size" -> wda_uplink_data_aggregation_max_size(s, a)
      [] c = "wda_flow_control" -> wda_flow_control(s, a)
      [] c = "wda_set_data_format" -> wda_set_data_format(s, a, zero)
      [] c = "wda_get_data_format" -> wda_get_data_format(s)

-----------------------------------------------------------------------------
(* The SIM.  The structure holds the slot and the channel once they are set. *)

UimStatic == [uim |-> <<>>]

uim_slot(s, a) ==
    IF IsNumber(a) /\ Number(a, 32) \in 1 .. 2
    THEN Done(Put(s, {<<"uim", "slot">>}, Number(a, 32))) ELSE Exit(s)

uim_channel_id(s, a) ==
    IF IsNumber(a) /\ Number(a, 32) \in 1 .. 4
    THEN Done(Put(s, {<<"uim", "channel_id">>}, Number(a, 32))) ELSE Exit(s)

HasSlot(s) == "slot" \in DOMAIN s.uim

(* uqmi_hexstring_parse takes pairs of hexadecimal digits.                  *)
IsHex(a) == Is(a, {"a0000000871002", "00b2010400"})

(* Always of the first slot, whatever --uim-slot says.                      *)
uim_verify_pin(s, a, id) ==
    Request(s, IF id = 1 THEN "uim_verify_pin1" ELSE "uim_verify_pin2",
            [session_type |-> "card_slot_1", pin_id |-> id, pin_value |-> a])

uim_get_sim_state(s) == Plain(s, "uim_get_sim_state")

uim_power_off(s) ==
    IF HasSlot(s) THEN Request(s, "uim_power_off", [slot |-> s.uim.slot]) ELSE Exit(s)
uim_power_on(s) ==
    IF HasSlot(s) THEN Request(s, "uim_power_on", [slot |-> s.uim.slot]) ELSE Exit(s)

uim_open_logical_channel(s, a) ==
    IF HasSlot(s) /\ IsHex(a)
    THEN Request(s, "uim_open_logical_channel", [slot |-> s.uim.slot, aid |-> a]) ELSE Exit(s)

uim_close_logical_channel(s) ==
    IF HasSlot(s) /\ "channel_id" \in DOMAIN s.uim
    THEN Request(s, "uim_close_logical_channel", s.uim) ELSE Exit(s)

(* Without --uim-channel-id the channel is sent as -1.                      *)
uim_send_apdu(s, a) ==
    IF HasSlot(s) /\ IsHex(a)
    THEN Request(s, "uim_send_apdu", Onto([apdu |-> a], Onto(s.uim, [channel_id |-> 255])))
    ELSE Exit(s)

(* The first card present, and of its applications the first of a known     *)
(* type, if there is one.                                                   *)
uim_get_sim_state_cb(t) ==
    IF "card" \notin t THEN {}
    ELSE Show("card", {"card_slot", "card_application_state", "pin1_status",
                       "pin1_verify_tries", "pin1_unlock_tries"})
            \cup If(t, "card/application", {"pin2_status", "pin2_verify_tries",
                                            "pin2_unlock_tries"})

uim_open_logical_channel_cb ==
    Show("channel_id", {"channel_id"}) \cup Show("card_result", {"sw1", "sw2"})
uim_send_apdu_cb == Show("apdu_response", {"response"})

UimOptions == {"uim_slot", "uim_channel_id"}
UimCommands == {"uim_verify_pin1", "uim_verify_pin2", "uim_get_sim_state", "uim_power_off",
                "uim_power_on", "uim_open_logical_channel", "uim_close_logical_channel",
                "uim_send_apdu"}

UimPrepare(c, s, a) ==
    CASE c = "uim_slot" -> uim_slot(s, a)
      [] c = "uim_channel_id" -> uim_channel_id(s, a)
      [] c = "uim_verify_pin1" -> uim_verify_pin(s, a, 1)
      [] c = "uim_verify_pin2" -> uim_verify_pin(s, a, 2)
      [] c = "uim_get_sim_state" -> uim_get_sim_state(s)
      [] c = "uim_power_off" -> uim_power_off(s)
      [] c = "uim_power_on" -> uim_power_on(s)
      [] c = "uim_open_logical_channel" -> uim_open_logical_channel(s, a)
      [] c = "uim_close_logical_channel" -> uim_close_logical_channel(s)
      [] c = "uim_send_apdu" -> uim_send_apdu(s, a)

WdaUimPrint(c, t) ==
    CASE c = "wda_get_data_format" -> wda_get_data_format_cb
      [] c = "uim_get_sim_state" -> uim_get_sim_state_cb(t)
      [] c = "uim_open_logical_channel" -> uim_open_logical_channel_cb
      [] c = "uim_send_apdu" -> uim_send_apdu_cb
      [] OTHER -> {}
=============================================================================
