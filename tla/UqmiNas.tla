-------------------------------- MODULE UqmiNas --------------------------------
(* The network access commands: uqmi/commands-nas.c.  A part of a TLV that  *)
(* may be marked as not valid is named as a TLV of its own below it.        *)
EXTENDS UqmiHandlers

rat_modes == {"cdma", "td-scdma", "gsm", "umts", "lte", "5gnr"}

(* sel_req with plmn_code_flag: the numbers are in it once they were given, *)
(* and the network selection only once set_plmn has put its mode there.     *)
NasStatic == [sel_req |-> <<>>, plmn |-> <<>>, tx_rx_req |-> <<>>]

do_sel_network(s) == [Done(s) EXCEPT !.selects = TRUE]

cmd_nas_do_set_system_selection(s) ==
    Request(s, "nas_do_set_system_selection",
        IF "mode" \in DOMAIN s.sel_req
        THEN Onto(s.sel_req, Onto(s.plmn, [mcc |-> 0, mnc |-> 0]))
        ELSE s.sel_req)

-----------------------------------------------------------------------------
(* Options, and --set-plmn, which is a command.                             *)

nas_set_network_modes(s, a) ==
    LET words == {a[i].word : i \in DOMAIN a}
        modes == IF "all" \in words THEN rat_modes ELSE words
    IN  IF words \subseteq rat_modes \cup {"all"}
        THEN do_sel_network(Put(s, {<<"sel_req", "mode_preference">>}, modes))
        ELSE Exit(s)

nas_set_network_preference(s, a) ==
    do_sel_network(Put(s, {<<"sel_req", "gsm_wcdma_acquisition_order_preference">>},
                       IF Is(a, {"gsm", "wcdma"}) THEN Word(a) ELSE "automatic"))

nas_set_roaming(s, a) ==
    IF Is(a, {"any", "only", "off"})
    THEN do_sel_network(Put(s, {<<"sel_req", "roaming_preference">>}, Word(a)))
    ELSE Exit(s)

nas_set_mcc(s, a) ==
    IF IsNumber(a) THEN Done(Put(s, {<<"plmn", "mcc">>}, Number(a, 16))) ELSE Exit(s)

nas_set_mnc(s, a) ==
    IF IsNumber(a) THEN Done(Put(s, {<<"plmn", "mnc">>}, Number(a, 16))) ELSE Exit(s)

WrongNasSetPlmn(s) ==  \* does not ask for the network code
    LET t == Set(s, "sel_req", [mode |-> "automatic"])
        given == DOMAIN s.plmn
    IN  IF given = {"mnc"} THEN Exit(t)
        ELSE do_sel_network(
                IF "mcc" \in given /\ s.plmn.mcc # 0
                THEN Set(s, "sel_req", [mode |-> "manual"])
                ELSE t)

nas_set_plmn(s) ==
    LET t == Set(s, "sel_req", [mode |-> "automatic"])
        given == DOMAIN s.plmn
    IN  IF \/ given = {"mnc"}
           \/ given = {"mcc"} /\ s.plmn.mcc # 0
        THEN Exit(t)
        ELSE do_sel_network(
                IF "mcc" \in given /\ s.plmn.mcc # 0
                THEN Set(s, "sel_req", [mode |-> "manual"])
                ELSE t)

-----------------------------------------------------------------------------
(* The other commands.                                                      *)

nas_initiate_network_register(s) ==
    Request(s, "nas_initiate_network_register", [action |-> "automatic"])

nas_get_tx_rx_info(s, a) ==
    IF Is(a, {"5gnr", "lte", "umts", "gsm"})
    THEN LET t == Set(s, "tx_rx_req", [radio_interface |-> Word(a)])
         IN  Request(t, "nas_get_tx_rx_info", t.tx_rx_req)
    ELSE Exit(s)

nas_network_scan(s) ==
    Request(s, "nas_network_scan", [network_type |-> {"gsm", "umts", "lte", "td-scdma"}])

nas_get_signal_info(s) == Plain(s, "nas_get_signal_info")
nas_get_system_info(s) == Plain(s, "nas_get_system_info")
nas_get_lte_cphy_ca_info(s) == Plain(s, "nas_get_lte_cphy_ca_info")
nas_get_cell_location_info(s) == Plain(s, "nas_get_cell_location_info")
nas_get_serving_system(s) == Plain(s, "nas_get_serving_system")
nas_get_plmn(s) == Plain(s, "nas_get_plmn")

-----------------------------------------------------------------------------
(* Printing.  At(p, shown) puts what is shown into the table p.             *)

At(p, shown) == {<<p \o "/" \o x[1], x[2]>> : x \in shown}

(* The band of a channel, if the table has it.                              *)
print_earfcn_info(t, channel) == If(t, channel \o "/known", {"band", "frequency", "duplex"})

(* The TLVs of the radios' signals.  A measurement of a 5G cell is one only *)
(* if it is not -32768.                                                     *)
signals == {r \o "_signal_strength" : r \in {"cdma", "hdr", "gsm", "wcdma", "lte", "tdma"}}
nr5g == {"5g_signal_strength/rsrp", "5g_signal_strength/snr", "5g_signal_strength_extended"}

print_5gnr_signal(t) ==
    UNION {Show(Constant, {"type"}), If(t, "5g_signal_strength/rsrp", {"rsrp"}),
           If(t, "5g_signal_strength/snr", {"snr"}),
           If(t, "5g_signal_strength_extended", {"rsrq"})}

print_signals(t) ==
    UNION {If(t, "cdma_signal_strength", {"type", "rssi", "ecio"}),
           If(t, "hdr_signal_strength", {"type", "rssi", "ecio", "io"}),
           If(t, "gsm_signal_strength", {"type", "signal"}),
           If(t, "wcdma_signal_strength", {"type", "rssi", "ecio"}),
           If(t, "lte_signal_strength", {"type", "rssi", "rsrq", "rsrp", "snr"}),
           If(t, "tdma_signal_strength", {"type", "signal"})}

WrongGetSignalInfoCb(t) ==  \* never opens the second table
    print_signals(t) \cup (IF t \cap nr5g = {} THEN {} ELSE print_5gnr_signal(t))

(* Connected to an LTE and a 5G cell at once: an array of two tables.       *)
nas_get_signal_info_cb(t) ==
    IF t \cap nr5g = {} THEN print_signals(t)
    ELSE IF "lte_signal_strength" \in t
         THEN At("[1]", print_signals(t)) \cup At("[2]", print_5gnr_signal(t))
         ELSE print_signals(t) \cup print_5gnr_signal(t)

print_system_info(t, service, info) ==
    Show(service, {"service_status", "true_service_status", "preferred_data_path"})
      \cup (IF info \notin t THEN {} ELSE
            UNION {If(t, info \o "/domain", {"domain"}),
                   If(t, info \o "/service_capability", {"service"}),
                   If(t, info \o "/roaming_status", {"roaming_status"}),
                   If(t, info \o "/forbidden", {"forbidden"}),
                   If(t, info \o "/network_id", {"mcc", "mnc"}),
                   If(t, info \o "/lac", {"location_area_code"})})

(* A part of an information that is there only with the information.        *)
Part(t, info, part, fields) == IF info \in t THEN If(t, info \o part, fields) ELSE {}

print_gsm_wcdma(t, rat) ==
    LET info == rat \o "_system_info_v2"
        service == rat \o "_service_status"
    IN  IF service \notin t THEN {} ELSE At(rat,
            UNION {print_system_info(t, service, info),
                   Part(t, info, "/cid",
                        IF rat = "wcdma" THEN {"rnc_id", "cell_id"} ELSE {"cell_id"}),
                   If(t, "additional_" \o rat \o "_system_info", {"geo_system_index"})})

print_lte(t) ==
    IF "lte_service_status" \notin t THEN {} ELSE At("lte",
        UNION {print_system_info(t, "lte_service_status", "lte_system_info_v2"),
               Part(t, "lte_system_info_v2", "/tac", {"tracking_area_code"}),
               Part(t, "lte_system_info_v2", "/cid", {"enodeb_id", "cell_id"}),
               If(t, "additional_lte_system_info", {"geo_system_index"}),
               If(t, "lte_voice_support", {"voice_support"}),
               If(t, "ims_voice_support", {"ims_voice_support"}),
               If(t, "lte_cell_access_status", {"cell_access_status"}),
               If(t, "network_selection_registration_restriction", {"registration_restriction"}),
               If(t, "lte_registration_domain", {"registration_domain"}),
               If(t, "eutra_with_nr5g_availability", {"5g_nsa_available"}),
               If(t, "dcnr_restriction_info", {"dcnr_restriction"})})

print_5gnr(t) ==
    IF "nr5g_service_status_info" \notin t THEN {} ELSE At("5gnr",
        UNION {print_system_info(t, "nr5g_service_status_info", "nr5g_system_info"),
               Part(t, "nr5g_system_info", "/tac", {"tracking_area_code"}),
               Part(t, "nr5g_system_info", "/cid", {"enodeb_id", "cell_id"})})

nas_get_system_info_cb(t) ==
    UNION {print_gsm_wcdma(t, "gsm"), print_gsm_wcdma(t, "wcdma"), print_lte(t), print_5gnr(t)}

print_channel_info(t, cell) ==
    Show(cell, {"cell_id", "channel", "bandwidth"}) \cup print_earfcn_info(t, cell)

(* The list of secondary cells is shown only if the single one is there too, *)
(* which it then replaces.  A channel of zero is no cell.                    *)
nas_get_lte_cphy_ca_info_cb(t) ==
    LET secondary(cell) ==
            IF cell \o "/channel" \notin t THEN {}
            ELSE At(IF "scell_index" \in t \/ cell = "secondary_cells" THEN "secondary_1"
                                                                      ELSE "secondary",
                    print_channel_info(t, cell) \cup Show(cell, {"state"}))
    IN  UNION {IF "pcell" \in t THEN At("primary", print_channel_info(t, "pcell")) ELSE {},
               IF {"scell", "secondary_cells"} \subseteq t THEN secondary("secondary_cells")
               ELSE IF "scell" \in t THEN secondary("scell") ELSE {}}

(* What is shown of a chain depends on the radio that was asked for.        *)
print_chain_info(t, chain, radio) ==
    UNION {Show(chain, {"tuned", "rssi"}),
           Show(chain, CASE radio = "5gnr" -> {"rsrp"}
                         [] radio = "lte" -> {"rsrq", "rsrp"}
                         [] radio = "umts" -> {"ecio", "rscp"}
                         [] OTHER -> {}),
           If(t, chain \o "/phase", {"phase"})}

nas_get_tx_rx_info_cb(s, t) ==
    UNION {IF chain \in t
           THEN At(chain, print_chain_info(t, chain, s.tx_rx_req.radio_interface))
           ELSE {} : chain \in {"rx_chain_0", "rx_chain_1", "rx_chain_2", "rx_chain_3"}}
      \cup (IF "tx_info" \in t
            THEN At("tx", Show("tx_info", {"traffic"}) \cup If(t, "tx_info/power", {"tx_power"}))
            ELSE {})

(* Cells.  A TLV may hold cells, and what an idle modem knows of them.      *)
print_lte_info(tlv) == Show(tlv, {"physical_cell_id", "rsrq", "rsrp", "rssi"})
print_sel_info(tlv) ==
    Show(tlv, {"cell_reselection_priority", "cell_reselection_low", "cell_reselection_high"})

print_umts_cells(t) ==
    LET tlv == "umts_info_v2"
        signal == {"channel", "primary_scrambling_code", "rscp", "ecio"}
    IN  IF tlv \notin t THEN {} ELSE At("umts_info",
            UNION {Show(tlv, signal \cup {"location_area_code", "cell_id"}),
                   At("cell", If(t, tlv \o "/cell", signal)),
                   At("neighboring_geran", If(t, tlv \o "/geran",
                       {"channel", "network_color_code", "base_station_color_code", "rssi"}))})

print_intrafrequency_lte(t) ==
    LET tlv == "intrafrequency_lte_info_v2"
        idle == tlv \o "/idle"
    IN  IF tlv \notin t THEN {} ELSE At("intrafrequency_lte_info",
            UNION {Show(tlv, {"tracking_area_code", "enodeb_id", "cell_id", "channel",
                              "serving_cell_id"}),
                   print_earfcn_info(t, tlv),
                   If(t, idle, {"cell_reselection_priority", "s_non_intra_search_threshold",
                                "serving_cell_low_threshold", "s_intra_search_threshold"}),
                   IF tlv \o "/cell" \notin t THEN {} ELSE At("cell",
                      print_lte_info(tlv \o "/cell")
                        \cup If(t, idle, {"cell_selection_rx_level"}))})

(* The four TLVs that list frequencies with the cells found there: nothing  *)
(* is opened for an empty list.                                             *)
print_frequencies(t, tlv, known, ofFrequency, ofCell) ==
    LET idle == tlv \o "/idle"
        freq == tlv \o "/frequency"
    IN  IF {tlv, freq} \subseteq t
        THEN At(tlv,
               UNION {Show(freq, ofFrequency),
                      IF known THEN print_earfcn_info(t, tlv) ELSE {},
                      IF idle \in t THEN print_sel_info(idle) ELSE {},
                      IF tlv \o "/cell" \notin t THEN {} ELSE At("cell",
                         Show(tlv \o "/cell", ofCell)
                           \cup If(t, idle, {"cell_selection_rx_level"}))})
        ELSE {}

print_neighbours(t) ==
    UNION {print_frequencies(t, "interfrequency_lte_info", TRUE, {"channel"},
               {"physical_cell_id", "rsrq", "rsrp", "rssi"}),
           print_frequencies(t, "lte_info_neighboring_gsm", FALSE, {"ncc_permitted"},
               {"channel", "base_station_identity_code", "rssi"}),
           print_frequencies(t, "lte_info_neighboring_wcdma", FALSE, {"channel"},
               {"primary_scrambling_code", "rscp", "ecno"})}

print_umts_lte(t) ==
    LET tlv == "umts_info_neighboring_lte"
    IN  IF {tlv, tlv \o "/frequency"} \subseteq t
        THEN At(tlv, Show(tlv \o "/frequency", {"channel", "physical_cell_id", "rsrp", "rsrq",
                                               "cell_selection_rx_level"})
                       \cup print_earfcn_info(t, tlv))
        ELSE {}

print_5gnr_cells(t) ==
    At("nr5g_cell_information", If(t, "nr5g_cell_information",
          {"enodeb_id", "cell_id", "physical_cell_id", "rsrq", "rsrp", "snr"}))
      \cup At("nr5g_arfcn", If(t, "nr5g_arfcn", {"arfcn"}))

nas_get_cell_location_info_cb(t) ==
    UNION {print_umts_cells(t), print_intrafrequency_lte(t), print_neighbours(t),
           print_umts_lte(t), print_5gnr_cells(t)}

nas_get_serving_system_cb(t) ==
    UNION {If(t, "serving_system", {"registration", "radio_interface"}),
           If(t, "current_plmn", {"plmn_mcc", "plmn_mnc"}),
           If(t, "current_plmn/description", {"plmn_description"}),
           If(t, "roaming_indicator", {"roaming"})}

nas_get_plmn_cb(t) ==
    If(t, "network_selection_preference", {"mode"})
      \cup If(t, "manual_network_selection", {"mcc", "mnc"})

(* Both lists are shown, empty if the answer has none.                      *)
nas_network_scan_cb(t) ==
    UNION {Show(Constant, {"network_info", "radio_access_technology"}),
           At("network_info", If(t, "network_information",
                {"mcc", "mnc", "description", "status"})),
           At("radio_access_technology", If(t, "radio_access_technology",
                {"mcc", "mnc", "radio"}))}

-----------------------------------------------------------------------------
(* __uqmi_nas_commands.                                                     *)

NasOptions == {"nas_set_network_modes", "nas_set_mcc", "nas_set_mnc",
               "nas_set_network_preference", "nas_set_roaming"}

NasCommands == {"nas_do_set_system_selection", "nas_initiate_network_register",
                "nas_set_plmn", "nas_get_plmn", "nas_network_scan", "nas_get_signal_info",
                "nas_get_serving_system", "nas_get_system_info", "nas_get_lte_cphy_ca_info",
                "nas_get_cell_location_info", "nas_get_tx_rx_info"}

NasPrepare(c, s, a) ==
    CASE c = "nas_do_set_system_selection" -> cmd_nas_do_set_system_selection(s)
      [] c = "nas_set_network_modes" -> nas_set_network_modes(s, a)
      [] c = "nas_initiate_network_register" -> nas_initiate_network_register(s)
      [] c = "nas_set_plmn" -> nas_set_plmn(s)
      [] c = "nas_get_plmn" -> nas_get_plmn(s)
      [] c = "nas_set_mcc" -> nas_set_mcc(s, a)
      [] c = "nas_set_mnc" -> nas_set_mnc(s, a)
      [] c = "nas_network_scan" -> nas_network_scan(s)
      [] c = "nas_get_signal_info" -> nas_get_signal_info(s)
      [] c = "nas_get_serving_system" -> nas_get_serving_system(s)
      [] c = "nas_set_network_preference" -> nas_set_network_preference(s, a)
      [] c = "nas_set_roaming" -> nas_set_roaming(s, a)
      [] c = "nas_get_system_info" -> nas_get_system_info(s)
      [] c = "nas_get_lte_cphy_ca_info" -> nas_get_lte_cphy_ca_info(s)
      [] c = "nas_get_cell_location_info" -> nas_get_cell_location_info(s)
      [] c = "nas_get_tx_rx_info" -> nas_get_tx_rx_info(s, a)

NasPrint(c, s, t) ==
    CASE c = "nas_get_signal_info" -> nas_get_signal_info_cb(t)
      [] c = "nas_get_system_info" -> nas_get_system_info_cb(t)
      [] c = "nas_get_lte_cphy_ca_info" -> nas_get_lte_cphy_ca_info_cb(t)
      [] c = "nas_get_cell_location_info" -> nas_get_cell_location_info_cb(t)
      [] c = "nas_get_tx_rx_info" -> nas_get_tx_rx_info_cb(s, t)
      [] c = "nas_get_serving_system" -> nas_get_serving_system_cb(t)
      [] c = "nas_get_plmn" -> nas_get_plmn_cb(t)
      [] c = "nas_network_scan" -> nas_network_scan_cb(t)
      [] OTHER -> {}
=============================================================================
