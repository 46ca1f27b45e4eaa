-------------------------------- MODULE UqmiWds --------------------------------
(* The wireless data commands: uqmi/commands-wds.c.                         *)
EXTENDS UqmiHandlers

auth_modes == {"none", "pap", "chap", "both"}
ipfam_modes == {"ipv4", "ipv6", "unspecified"}
pdp_types == {"ipv4", "ppp", "ipv6", "ipv4v6"}
profile_types == {"3gpp", "3gpp2"}

WdsStatic ==
    [wds_sn_req |-> [authentication_preference |-> "both"],
     wds_stn_req |-> <<>>,
     wds_mp_req |-> [profile_type |-> "3gpp", profile_index |-> 1, apn_disabled_flag |-> FALSE],
     wds_cp_req |-> [profile_type |-> "3gpp", apn_disabled_flag |-> FALSE]]

(* uqmi_wds_profile_identifier_parse: a type, a comma, and a number.         *)
ProfileGiven(a) == Len(a) = 2 /\ a[2].clean /\ a[1].word \in profile_types
Profile(a) == [profile_type |-> a[1].word, profile_index |-> a[2].num % 2^8]

-----------------------------------------------------------------------------
(* Options.                                                                  *)

wds_set_apn(s, a) ==
    Done(Put(s, {<<"wds_sn_req", "apn">>, <<"wds_mp_req", "apn_name">>,
                 <<"wds_cp_req", "apn_name">>}, a))

WrongWdsSetAuth(s, a) ==  \* forgets the profile to be created
    IF Is(a, auth_modes)
    THEN Done(Put(s, {<<"wds_sn_req", "authentication_preference">>,
                      <<"wds_mp_req", "authentication">>}, Word(a)))
    ELSE Exit(s)

wds_set_auth(s, a) ==
    IF Is(a, auth_modes)
    THEN Done(Put(s, {<<"wds_sn_req", "authentication_preference">>,
                      <<"wds_mp_req", "authentication">>, <<"wds_cp_req", "authentication">>},
                  Word(a)))
    ELSE Exit(s)

wds_set_username(s, a) ==
    Done(Put(s, {<<q, "username">> : q \in {"wds_sn_req", "wds_mp_req", "wds_cp_req"}}, a))

wds_set_password(s, a) ==
    Done(Put(s, {<<q, "password">> : q \in {"wds_sn_req", "wds_mp_req", "wds_cp_req"}}, a))

wds_set_autoconnect(s) ==
    Done(Put(s, {<<"wds_sn_req", "enable_autoconnect">>,
                 <<"wds_stn_req", "disable_autoconnect">>}, TRUE))

wds_set_ip_family_pref(s, a) ==
    IF Is(a, ipfam_modes)
    THEN Done(Put(s, {<<"wds_sn_req", "ip_family_preference">>}, Word(a)))
    ELSE Exit(s)

wds_set_pdp_type(s, a) ==
    IF Is(a, pdp_types)
    THEN Done(Put(s, {<<"wds_mp_req", "pdp_type">>, <<"wds_cp_req", "pdp_type">>}, Word(a)))
    ELSE Exit(s)

wds_no_roaming(s, a) ==
    IF Is(a, {"true", "false"})
    THEN Done(Put(s, {<<"wds_mp_req", "roaming_disallowed_flag">>,
                      <<"wds_cp_req", "roaming_disallowed_flag">>}, Word(a) = "true"))
    ELSE Exit(s)

(* The index is sent in eight bits.                                         *)
wds_set_profile(s, a) == Done(Put(s, {<<"wds_sn_req", "profile_index_3gpp">>}, Number(a, 8)))

(* wds_endpoint_info.                                                       *)
WdsEndpoint == [wds_endpoint_info |-> [type |-> "undefined", iface |-> 0]]

wds_ep_iface(s, a) == Done(Put(s, {<<"wds_endpoint_info", "iface">>}, Number(a, 32)))

wds_ep_type(s, a) ==
    IF Is(a, {"hsusb", "pcie"})
    THEN Done(Put(s, {<<"wds_endpoint_info", "type">>}, Word(a)))
    ELSE Exit(s)

-----------------------------------------------------------------------------
(* Commands.                                                                 *)

wds_start_network(s) == Request(s, "wds_start_network", s.wds_sn_req)

WrongWdsStopNetwork(s, a) ==  \* keeps the handle of the first connection stopped
    LET t == IF "packet_data_handle" \in DOMAIN s.wds_stn_req THEN s
             ELSE Set(s, "wds_stn_req", [packet_data_handle |-> Number(a, 32)])
    IN  Request(t, "wds_stop_network", t.wds_stn_req)

wds_stop_network(s, a) ==
    LET t == Set(s, "wds_stn_req", [packet_data_handle |-> Number(a, 32)])
    IN  Request(t, "wds_stop_network", t.wds_stn_req)

wds_modify_profile(s, a) ==
    IF ProfileGiven(a)
    THEN LET t == Set(s, "wds_mp_req", Profile(a))
         IN  Request(t, "wds_modify_profile", t.wds_mp_req)
    ELSE Exit(s)

wds_get_profile_list(s, a) ==
    IF Is(a, profile_types)
    THEN Request(s, "wds_get_profile_list", [profile_type |-> Word(a)])
    ELSE Exit(s)

wds_create_profile(s, a) ==
    IF Is(a, profile_types)
    THEN LET t == Set(s, "wds_cp_req", [profile_type |-> Word(a)])
         IN  Request(t, "wds_create_profile", t.wds_cp_req)
    ELSE Exit(s)

wds_get_packet_service_status(s) == Plain(s, "wds_get_packet_service_status")

(* The request is built, and not sent.                                      *)
wds_set_autoconnect_settings(s, a) ==
    IF Is(a, {"disabled", "enabled", "paused"}) THEN Done(s) ELSE Exit(s)

wds_reset(s) == Plain(s, "wds_reset")

wds_set_ip_family(s, a) ==
    IF Is(a, ipfam_modes)
    THEN Request(s, "wds_set_ip_family", [preference |-> Word(a)])
    ELSE Exit(s)

wds_bind_mux(s, a) ==
    Request(s, "wds_bind_mux",
            Onto([mux_id |-> Number(a, 8), client_type |-> "tethered"], s.wds_endpoint_info))

wds_get_profile_settings(s, a) ==
    IF ProfileGiven(a) THEN Request(s, "wds_get_profile_settings", Profile(a)) ELSE Exit(s)

wds_get_current_settings(s) == Plain(s, "wds_get_current_settings")

wds_get_default_profile(s, a) ==
    IF Is(a, profile_types)
    THEN Request(s, "wds_get_default_profile", [profile_type |-> Word(a), family |-> "tethered"])
    ELSE Exit(s)

wds_set_default_profile(s, a) ==
    IF ProfileGiven(a)
    THEN Request(s, "wds_set_default_profile", Onto(Profile(a), [family |-> "tethered"]))
    ELSE Exit(s)

wds_delete_profile(s, a) ==
    IF ProfileGiven(a) THEN Request(s, "wds_delete_profile", Profile(a)) ELSE Exit(s)

(* Every number must be followed by a comma, and the loop ends only at a    *)
(* character that is none: whatever the list, it is refused.                *)
wds_set_lte_attach_pdn(s) == Exit(s)

-----------------------------------------------------------------------------
(* Printing.                                                                 *)

wds_start_network_cb(t) == If(t, "packet_data_handle", {"handle"})
wds_get_profile_list_cb(t) == If(t, "profile_list", {"profiles/index", "profiles/name"})
wds_create_profile_cb(t) == If(t, "profile_identifier", {"created-profile"})
wds_get_packet_service_status_cb(t) ==
    Show(IF "connection_status" \in t THEN "connection_status" ELSE Constant, {"status"})
wds_get_default_profile_cb == Show("index", {"default-profile"})

wds_get_profile_settings_cb(t) ==
    UNION {Show("apn_name", {"apn"}), If(t, "pdp_type", {"pdp-type"}),
           Show("username", {"username"}), Show("password", {"password"}),
           If(t, "authentication", {"auth"}), Show("roaming_disallowed_flag", {"no-roaming"}),
           Show("apn_disabled_flag", {"apn-disabled"})}

wds_get_current_settings_cb(t) ==
    UNION {If(t, "pdp_type", {"pdp-type"}), If(t, "ip_family", {"ip-family"}),
           If(t, "mtu", {"mtu"}),
           If(t, "ipv4_address", {"ipv4/ip"}),
           If(t, "primary_ipv4_dns_address", {"ipv4/dns1"}),
           If(t, "secondary_ipv4_dns_address", {"ipv4/dns2"}),
           If(t, "ipv4_gateway_address", {"ipv4/gateway"}),
           If(t, "ipv4_gateway_subnet_mask", {"ipv4/subnet"}),
           If(t, "ipv6_address", {"ipv6/ip", "ipv6/ip-prefix-length"}),
           If(t, "ipv6_gateway_address", {"ipv6/gateway", "ipv6/gw-prefix-length"}),
           If(t, "ipv6_primary_dns_address", {"ipv6/dns1"}),
           If(t, "ipv6_secondary_dns_address", {"ipv6/dns2"}),
           If(t, "domain_name_list", {"domain-names"})}

-----------------------------------------------------------------------------
(* __uqmi_wds_commands.                                                     *)

WdsOptions == {"wds_set_apn", "wds_set_auth", "wds_set_username", "wds_set_password",
               "wds_set_ip_family_pref", "wds_set_autoconnect", "wds_set_profile",
               "wds_set_pdp_type", "wds_no_roaming", "wds_ep_type", "wds_ep_iface"}

WdsCommands == {"wds_start_network", "wds_stop_network", "wds_get_packet_service_status",
                "wds_set_ip_family", "wds_set_autoconnect_settings", "wds_reset",
                "wds_get_profile_settings", "wds_set_default_profile",
                "wds_get_default_profile", "wds_get_profile_list", "wds_create_profile",
                "wds_modify_profile", "wds_delete_profile", "wds_get_current_settings",
                "wds_bind_mux", "wds_set_lte_attach_pdn"}

WdsPrepare(c, s, a) ==
    CASE c = "wds_set_apn" -> wds_set_apn(s, a)
      [] c = "wds_set_auth" -> wds_set_auth(s, a)
      [] c = "wds_set_username" -> wds_set_username(s, a)
      [] c = "wds_set_password" -> wds_set_password(s, a)
      [] c = "wds_set_ip_family_pref" -> wds_set_ip_family_pref(s, a)
      [] c = "wds_set_autoconnect" -> wds_set_autoconnect(s)
      [] c = "wds_set_profile" -> wds_set_profile(s, a)
      [] c = "wds_set_pdp_type" -> wds_set_pdp_type(s, a)
      [] c = "wds_no_roaming" -> wds_no_roaming(s, a)
      [] c = "wds_ep_type" -> wds_ep_type(s, a)
      [] c = "wds_ep_iface" -> wds_ep_iface(s, a)
      [] c = "wds_start_network" -> wds_start_network(s)
      [] c = "wds_stop_network" -> wds_stop_network(s, a)
      [] c = "wds_get_packet_service_status" -> wds_get_packet_service_status(s)
      [] c = "wds_set_ip_family" -> wds_set_ip_family(s, a)
      [] c = "wds_set_autoconnect_settings" -> wds_set_autoconnect_settings(s, a)
      [] c = "wds_reset" -> wds_reset(s)
      [] c = "wds_get_profile_settings" -> wds_get_profile_settings(s, a)
      [] c = "wds_set_default_profile" -> wds_set_default_profile(s, a)
      [] c = "wds_get_default_profile" -> wds_get_default_profile(s, a)
      [] c = "wds_get_profile_list" -> wds_get_profile_list(s, a)
      [] c = "wds_create_profile" -> wds_create_profile(s, a)
      [] c = "wds_modify_profile" -> wds_modify_profile(s, a)
      [] c = "wds_delete_profile" -> wds_delete_profile(s, a)
      [] c = "wds_get_current_settings" -> wds_get_current_settings(s)
      [] c = "wds_bind_mux" -> wds_bind_mux(s, a)
      [] c = "wds_set_lte_attach_pdn" -> wds_set_lte_attach_pdn(s)

WdsPrint(c, t) ==
    CASE c = "wds_start_network" -> wds_start_network_cb(t)
      [] c = "wds_get_packet_service_status" -> wds_get_packet_service_status_cb(t)
      [] c = "wds_get_profile_settings" -> wds_get_profile_settings_cb(t)
      [] c = "wds_get_default_profile" -> wds_get_default_profile_cb
      [] c = "wds_get_profile_list" -> wds_get_profile_list_cb(t)
      [] c = "wds_create_profile" -> wds_create_profile_cb(t)
      [] c = "wds_get_current_settings" -> wds_get_current_settings_cb(t)
      [] OTHER -> {}
=============================================================================
