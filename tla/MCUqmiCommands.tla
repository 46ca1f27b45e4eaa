---------------------------- MODULE MCUqmiCommands ----------------------------
(* Small command lines: for each family of commands the arguments a handler *)
(* tells apart, and as many items as it takes for them to meet.             *)
EXTENDS UqmiCommands
LOCAL INSTANCE SequencesExt

W(word) == <<Piece(word, 0, FALSE, <<>>)>>
N(n) == <<Piece("number", n, TRUE, <<>>)>>
Junk == <<Piece("1x", 1, FALSE, <<>>)>>
Text(chars) == <<Piece("text", 0, FALSE, chars)>>
Pair(word, n) == <<Piece(word, 0, FALSE, <<>>), Piece("number", n, TRUE, <<>>)>>

Each(cmds, args) == {Item(c, a) : c \in cmds, a \in args}
Bare(cmds) == Each(cmds, {NoArg})
Family(items, length) == [items |-> items, length |-> length]

(* Every command there is, with an argument it takes and one it refuses.    *)
TakesNothing ==
    {"version", "sync", "wds_start_network", "wds_get_packet_service_status", "wds_reset",
     "wds_get_current_settings", "wds_set_autoconnect", "dms_get_capabilities",
     "dms_get_pin_status", "dms_change_pin1", "dms_change_pin2", "dms_unblock_pin1",
     "dms_unblock_pin2", "dms_reset", "dms_get_operating_mode", "dms_set_fcc_authentication",
     "nas_initiate_network_register", "nas_set_plmn", "nas_get_plmn", "nas_network_scan",
     "nas_get_signal_info", "nas_get_serving_system", "nas_get_system_info",
     "nas_get_lte_cphy_ca_info", "nas_get_cell_location_info", "wms_list_messages",
     "wms_send_message_flash", "wda_get_data_format", "uim_get_sim_state", "uim_power_off",
     "uim_power_on", "uim_close_logical_channel"} \cup DmsIds

Everything ==
    UNION {
      Bare(TakesNothing),
      Each({"get_client_id"}, {W("dms"), W("none")}),
      Each({"set_client_id"}, {Pair("dms", 1), W("dms")}),
      Each({"ctl_set_data_format", "wda_set_data_format"}, {W("raw-ip"), W("ip")}),
      Each({"wds_set_apn", "wds_set_username", "wds_set_password", "dms_set_pin",
            "dms_set_puk", "dms_set_new_pin", "dms_verify_pin1", "dms_verify_pin2",
            "uim_verify_pin1", "uim_verify_pin2"}, {W("a")}),
      Each({"wds_set_auth"}, {W("pap"), W("ipv4")}),
      Each({"wds_set_ip_family_pref", "wds_set_ip_family", "wds_set_pdp_type"},
           {W("ipv4"), W("any")}),
      Each({"wds_no_roaming"}, {W("true"), W("yes")}),
      Each({"wds_ep_type"}, {W("pcie"), W("usb")}),
      Each({"wds_set_autoconnect_settings"}, {W("enabled"), W("on")}),
      Each({"wds_get_profile_list", "wds_create_profile", "wds_get_default_profile"},
           {W("3gpp"), W("4gpp")}),
      Each({"wds_get_profile_settings", "wds_set_default_profile", "wds_delete_profile",
            "wds_modify_profile"}, {Pair("3gpp", 2), W("3gpp")}),
      Each({"wds_set_profile", "wds_ep_iface", "wds_bind_mux", "wds_stop_network",
            "wds_set_lte_attach_pdn", "wda_downlink_data_aggregation_max_datagrams",
            "wda_downlink_data_aggregation_max_size",
            "wda_uplink_data_aggregation_max_datagrams",
            "wda_uplink_data_aggregation_max_size"}, {N(2)}),
      Each({"wda_downlink_data_aggregation_protocol", "wda_uplink_data_aggregation_protocol"},
           {W("qmap"), W("none")}),
      Each({"wda_flow_control"}, {N(1), N(2)}),
      Each({"dms_set_pin1_protection", "dms_set_pin2_protection"}, {W("enabled"), W("on")}),
      Each({"dms_set_operating_mode"}, {W("online"), W("on")}),
      Each({"nas_set_network_modes"},
           {W("lte") \o W("umts"), W("all"), W("lte") \o W("3g")}),
      Each({"nas_set_network_preference"}, {W("gsm")}),
      Each({"nas_set_roaming"}, {W("only"), W("on")}),
      Each({"nas_set_mcc", "nas_set_mnc"}, {N(262), Junk}),
      Each({"nas_get_tx_rx_info"}, {W("5gnr"), W("lte"), W("umts"), W("gsm"), W("cdma")}),
      Each({"wms_storage"}, {W("sim"), W("me"), W("sd")}),
      Each({"wms_delete_message", "wms_get_message", "wms_get_raw_message"}, {N(1), Junk}),
      Each({"wms_send_message_smsc", "wms_send_message_target", "wms_send_message"},
           {Text(<<49, 50>>)}),
      Each({"uim_slot", "uim_channel_id"}, {N(1), N(5), Junk}),
      Each({"uim_open_logical_channel", "uim_send_apdu"}, {W("a0000000871002"), W("xyz")})}

Profiles ==
    UNION {Each({"wds_set_apn", "wds_set_username"}, {W("a"), W("b")}),
           Each({"wds_set_auth"}, {W("pap"), W("chap")}),
           Each({"wds_stop_network"}, {N(1), N(2)}),
           Bare({"wds_start_network", "wds_set_autoconnect"}),
           Each({"wds_create_profile"}, {W("3gpp2")}),
           Each({"wds_modify_profile"}, {Pair("3gpp", 1), Pair("3gpp2", 2)})}

Pins ==
    UNION {Each({"dms_set_pin", "dms_set_new_pin", "dms_set_puk"}, {W("a"), W("b")}),
           Bare({"dms_change_pin1", "dms_change_pin2", "dms_unblock_pin1"}),
           Each({"dms_set_pin2_protection"}, {W("disabled")})}

Networks ==
    UNION {Each({"nas_set_mcc"}, {N(0), N(262)}), Each({"nas_set_mnc"}, {N(0), N(7)}),
           Each({"nas_set_roaming"}, {W("only"), W("off")}),
           Each({"nas_set_network_preference"}, {W("gsm")}),
           Bare({"nas_set_plmn", "nas_get_plmn"})}

Links ==
    UNION {Each({"wda_set_data_format"}, {W("raw-ip"), W("ip")}),
           Each({"wda_flow_control"}, {N(0), N(1)}),
           Each({"wda_downlink_data_aggregation_max_size"}, {N(4), N(8)}),
           Each({"uim_slot", "uim_channel_id"}, {N(1), N(2)}),
           Each({"wds_ep_iface"}, {N(4)}), Each({"wds_bind_mux"}, {N(1), N(257)}),
           Bare({"uim_close_logical_channel", "uim_power_on"}),
           Each({"uim_send_apdu"}, {W("00b2010400")})}

(* The text of n letters, no two neighbours alike.                          *)
Letters(n) == [i \in 1 .. n |-> 97 + (i % 11)]
Lengths == {0, 1, 6, 7, 8, 9, 15, 16, 17}
Target == <<43, 52, 57, 49>>

Mail ==
    UNION {Each({"wms_send_message"}, {Text(Letters(n)) : n \in Lengths}),
           Each({"wms_send_message_target"}, {Text(Target)}),
           Each({"wms_send_message_smsc"}, {Text(<<49, 50, 51>>)}),
           Each({"wms_get_message"}, {N(0)})}

(* The same storage for three commands, and all that goes with a text.      *)
Stores ==
    UNION {Each({"wms_storage"}, {W("sim"), W("me")}), Bare({"wms_list_messages"}),
           Each({"wms_delete_message", "wms_get_raw_message"}, {N(1), N(2)})}

Numbers ==
    UNION {Each({"wms_send_message_target", "wms_send_message_smsc"},
                {Text(Target), Text(<<49, 50, 51>>)}),
           Bare({"wms_send_message_flash"}), Each({"wms_send_message"}, {Text(Letters(3))})}

FamiliesValue == {Family(Everything, 2), Family(Profiles, 3), Family(Pins, 4),
                  Family(Networks, 4), Family(Links, 3), Family(Mail, 3),
                  Family(Stores, 4), Family(Numbers, 4)}

(* What the network delivers: the characters' bits one after the other, from *)
(* the first septet boundary after the header (3GPP TS 23.040).             *)
BitOf(septets, k) == (septets[(k \div 7) + 1] \div 2^(k % 7)) % 2
Packed(septets, fill) ==
    LET bits == fill + 7 * Len(septets)
        bit(k) == IF k < fill \/ k >= bits THEN 0 ELSE BitOf(septets, k - fill)
    IN  [o \in 1 .. CEILDIV(bits, 8) |->
            FoldLeft(LAMBDA sum, j : sum + bit(8 * (o - 1) + j) * 2^j, 0,
                     [j \in 1 .. 8 |-> j - 1])]

Delivery(header, septets, text) ==
    LET fill == (7 - ((8 * Len(header)) % 7)) % 7
        headerSeptets == CEILDIV(8 * Len(header), 7)
    IN  [raw |-> <<0>> \o <<IF header = <<>> THEN 4 ELSE 68>> \o <<3, 145, 148, 241>>
                   \o <<0, 0>> \o <<98, 16, 33, 67, 101, 0, 0>>
                   \o <<headerSeptets + Len(septets)>> \o header \o Packed(septets, fill),
         text |-> text, septets |-> Len(septets), number |-> Target, header |-> Len(header)]

DeliveredValue ==
    {Delivery(h, Letters(n), Letters(n)) :
        h \in {<<>>, <<5, 0, 3, 9, 2, 1>>, <<6, 8, 4, 1, 9, 2, 2>>}, n \in Lengths}
      \cup {Delivery(<<>>, <<0, 27, 101, 27, 60, 36>>, <<64, 8364, 91, 36>>)}

(* The arguments of these lines are such as the theorems about what requests *)
(* carry take them for.                                                     *)
ASSUME ArgumentsAssumption == AsTheHelpAsks
=============================================================================
