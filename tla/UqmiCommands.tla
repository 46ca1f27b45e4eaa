------------------------------ MODULE UqmiCommands ------------------------------
(***************************************************************************)
(* A command line of uqmi, from the words typed to the requests sent and    *)
(* the answers printed: uqmi/uqmi.c, uqmi/commands.c and the handlers of    *)
(* UqmiWds, UqmiDms, UqmiNas, UqmiWms and UqmiWdaUim.                       *)
(*                                                                         *)
(* All the options of the line are taken first, wherever they stand, and    *)
(* fill structures that stay for the whole run; then the commands are run   *)
(* one after the other, each with what the structures hold by then.  A      *)
(* command may add one more to the end of the line.  How a request is sent  *)
(* and its answer waited for is in UqmiDev; here it is answered with some   *)
(* of its TLVs, or fails.                                                   *)
(***************************************************************************)
EXTENDS UqmiWds, UqmiDms, UqmiNas, UqmiWms, UqmiWdaUim

CONSTANTS
    Families,   \* bound: a line is drawn from one of these, [items, length]
    Delivered   \* the messages the network has left in the modem

VARIABLES
    line,       \* cmds: the commands typed, and added, each with its argument
    pass,       \* "typing", then the run's two passes, then "over"
    at,         \* the command of the line the pass is at
    static,     \* the request structures
    sent,       \* the requests sent, each with the place in the line it is for
    waiting,    \* whether the last of them is not answered yet
    ok,         \* whether no command has failed
    shown       \* what the last command printed, and of which answer

vars == <<line, pass, at, static, sent, waiting, ok, shown>>

Options == {"set_client_id"} \cup WdsOptions \cup DmsOptions \cup NasOptions \cup WmsOptions
             \cup WdaOptions \cup UimOptions
CtlCommands == {"version", "sync", "get_client_id", "ctl_set_data_format"}
Commands == CtlCommands \cup WdsCommands \cup DmsCommands \cup NasCommands \cup WmsCommands
              \cup WdaCommands \cup UimCommands

Item(cmd, arg) == [cmd |-> cmd, arg |-> arg]
SystemSelection == Item("nas_do_set_system_selection", NoArg)
(* A line of a family is made of the program's options and commands; nobody  *)
(* types the one whose name begins with underscores.                        *)
ASSUME FamiliesAssumption ==
    \A F \in Families :
        /\ F.length \in Nat
        /\ \A item \in F.items :
              /\ item = Item(item.cmd, item.arg)
              /\ item.cmd \in Options \cup Commands
              /\ item.cmd # SystemSelection.cmd

NothingShown == [fields |-> {}, answer |-> {}, message |-> <<>>, read |-> <<>>]

Static0 ==
    Onto(WdsStatic, Onto(WdsEndpoint, Onto(DmsStatic, Onto(NasStatic, Onto(WmsStatic,
        Onto(WdaStatic, UimStatic))))))

(* A service is known by its name; the client id is a number after a comma. *)
services == {"dms", "nas", "pds", "wds", "wms", "wda", "uim"}

(* Connecting happens inside, and may fail.                                 *)
get_client_id(s, a) == IF Is(a, services) THEN Done(s) ELSE Exit(s)
set_client_id(s, a) ==
    IF Len(a) = 2 /\ a[2].clean /\ a[1].word \in services THEN Done(s) ELSE Exit(s)

(* The mode is looked up, and the request built without it and not sent.    *)
ctl_set_data_format(s, a) == IF Is(a, link_modes) THEN Done(s) ELSE Exit(s)

CtlPrepare(c, s, a) ==
    CASE c \in {"version", "sync"} -> Plain(s, c)
      [] c = "get_client_id" -> get_client_id(s, a)
      [] c = "set_client_id" -> set_client_id(s, a)
      [] c = "ctl_set_data_format" -> ctl_set_data_format(s, a)

Prepare(item, s, zero) ==
    LET c == item.cmd
    IN  CASE c \in CtlCommands \cup {"set_client_id"} -> CtlPrepare(c, s, item.arg)
          [] c \in WdsOptions \cup WdsCommands -> WdsPrepare(c, s, item.arg)
          [] c \in DmsOptions \cup DmsCommands -> DmsPrepare(c, s, item.arg)
          [] c \in NasOptions \cup NasCommands -> NasPrepare(c, s, item.arg)
          [] c \in WmsOptions \cup WmsCommands -> WmsPrepare(c, s, item.arg)
          [] c \in WdaOptions \cup WdaCommands -> WdaPrepare(c, s, item.arg, zero)
          [] c \in UimOptions \cup UimCommands -> UimPrepare(c, s, item.arg)

version_cb(t) == If(t, "service_list", {"service"})

Printed(c, s, t, raw) ==
    CASE c = "version" -> version_cb(t)
      [] c \in WdsCommands -> WdsPrint(c, t)
      [] c \in DmsCommands -> DmsPrint(c, t)
      [] c \in NasCommands -> NasPrint(c, s, t)
      [] c \in WmsCommands -> WmsPrint(c, raw)
      [] c \in WdaCommands \cup UimCommands -> WdaUimPrint(c, t)
      [] OTHER -> {}

-----------------------------------------------------------------------------

Init ==
    /\ line = <<>>
    /\ pass = "typing"
    /\ at = 1
    /\ static = Static0
    /\ sent = <<>>
    /\ waiting = FALSE
    /\ ok = TRUE
    /\ shown = NothingShown

(* uqmi_add_command, called from main for every option it reads.            *)
Type(item) ==
    /\ pass = "typing"
    /\ \E F \in Families :
          /\ Len(line) < F.length
          /\ \A i \in DOMAIN line : line[i] \in F.items
          /\ item \in F.items
    /\ line' = Append(line, item)
    /\ UNCHANGED <<pass, at, static, sent, waiting, ok, shown>>

Open ==
    /\ pass = "typing"
    /\ line # <<>>
    /\ pass' = "options"
    /\ UNCHANGED <<line, at, static, sent, waiting, ok, shown>>

-----------------------------------------------------------------------------
(* __uqmi_run_commands.                                                     *)

Current == line[at]
IsOption(item) == item.cmd \in Options
InThisPass == IsOption(Current) <=> pass = "options"

Running == pass \in {"options", "commands"} /\ ~waiting

Skip ==
    /\ Running
    /\ at <= Len(line)
    /\ ~InThisPass
    /\ at' = at + 1
    /\ UNCHANGED <<line, pass, static, sent, waiting, ok, shown>>

(* use_sel_req remembers that the system selection was added to the line.   *)
Selecting == \E i \in DOMAIN line : line[i] = SystemSelection
WrongWithSelection(selects) == IF selects THEN Append(line, SystemSelection) ELSE line
WithSelection(selects) == IF selects /\ ~Selecting THEN Append(line, SystemSelection) ELSE line

WrongStop ==  \* without taking the request off the list
    /\ pass' = "over"
    /\ ok' = FALSE
    /\ waiting' = waiting
    /\ shown' = NothingShown

Stop ==
    /\ pass' = "over"
    /\ ok' = FALSE
    /\ waiting' = FALSE
    /\ shown' = NothingShown

(* The service of a command is connected first, and also from within        *)
(* --get-client-id and --set-client-id.                                     *)
ConnectFails ==
    /\ Running
    /\ at <= Len(line)
    /\ InThisPass
    /\ Current.cmd \in (Commands \ CtlCommands) \cup {"get_client_id", "set_client_id"}
    /\ Stop
    /\ UNCHANGED <<line, at, static, sent>>

RunCommand(zero) ==
    /\ Running
    /\ at <= Len(line)
    /\ InThisPass
    /\ LET r == Prepare(Current, static, zero)
       IN  /\ static' = r.static
           /\ line' = WithSelection(r.selects)
           /\ \/ /\ r.res = "exit"
                 /\ Stop
                 /\ UNCHANGED <<at, sent>>
              \/ /\ r.res = "done"
                 /\ at' = at + 1
                 /\ shown' = NothingShown
                 /\ UNCHANGED <<pass, sent, waiting, ok>>
              \/ /\ r.res = "request"
                 /\ sent' = Append(sent, [name |-> r.request.name, carries |-> r.request.carries,
                                         for |-> at])
                 /\ waiting' = TRUE
                 /\ shown' = NothingShown
                 /\ UNCHANGED <<pass, at, ok>>

EndOfPass ==
    /\ Running
    /\ at > Len(line)
    /\ pass' = IF pass = "options" THEN "commands" ELSE "over"
    /\ at' = 1
    /\ UNCHANGED <<line, static, sent, waiting, ok, shown>>

(* The answer: the TLVs the command's service may put into it, some or all, *)
(* and of the message that was asked for those there are.                   *)
Optional(c) ==
    CASE c = "version" -> {"service_list"}
      [] c = "wds_start_network" -> {"packet_data_handle"}
      [] c = "wds_get_profile_list" -> {"profile_list"}
      [] c = "wds_create_profile" -> {"profile_identifier"}
      [] c = "wds_get_packet_service_status" -> {"connection_status"}
      [] c = "wds_get_profile_settings" -> {"pdp_type", "authentication"}
      [] c = "wds_get_current_settings" ->
            {"pdp_type", "ip_family", "mtu", "ipv4_address", "primary_ipv4_dns_address",
             "secondary_ipv4_dns_address", "ipv4_gateway_address",
             "ipv4_gateway_subnet_mask", "ipv6_address", "ipv6_gateway_address",
             "ipv6_primary_dns_address", "ipv6_secondary_dns_address", "domain_name_list"}
      [] c = "dms_get_pin_status" -> {"pin1_status", "pin2_status"}
      [] c \in DmsIds -> {"iccid", "imsi", "msisdn", "imei"}
      [] c = "uim_get_sim_state" -> {"card", "card/application"}
      [] c = "nas_get_serving_system" ->
            {"serving_system", "current_plmn", "current_plmn/description", "roaming_indicator"}
      [] c = "nas_get_plmn" -> {"network_selection_preference", "manual_network_selection"}
      [] c = "nas_network_scan" -> {"network_information", "radio_access_technology"}
      [] c = "nas_get_lte_cphy_ca_info" ->
            {"pcell", "pcell/known", "scell", "scell/channel", "scell_index",
             "secondary_cells", "secondary_cells/channel"}
      [] c = "nas_get_tx_rx_info" ->
            {"rx_chain_0", "rx_chain_0/phase", "rx_chain_1", "tx_info", "tx_info/power"}
      [] c = "nas_get_system_info" ->
            {"gsm_service_status", "gsm_system_info_v2", "gsm_system_info_v2/cid",
             "wcdma_service_status", "wcdma_system_info_v2", "wcdma_system_info_v2/lac",
             "additional_wcdma_system_info", "lte_service_status", "lte_system_info_v2",
             "lte_system_info_v2/tac", "lte_voice_support", "nr5g_service_status_info",
             "nr5g_system_info", "nr5g_system_info/cid"}
      [] c = "nas_get_cell_location_info" ->
            {"umts_info_v2", "umts_info_v2/cell", "intrafrequency_lte_info_v2",
             "intrafrequency_lte_info_v2/idle", "intrafrequency_lte_info_v2/cell",
             "lte_info_neighboring_gsm", "lte_info_neighboring_gsm/frequency",
             "lte_info_neighboring_gsm/cell", "interfrequency_lte_info",
             "interfrequency_lte_info/frequency", "umts_info_neighboring_lte",
             "umts_info_neighboring_lte/frequency", "nr5g_cell_information", "nr5g_arfcn"}
      [] OTHER -> {}

(* What these answers always carry, as the handlers that show it without    *)
(* looking for it take for granted.                                         *)
Always(c) ==
    CASE c = "dms_get_capabilities" -> {"info"}
      [] c = "dms_get_operating_mode" -> {"mode"}
      [] c = "wds_get_default_profile" -> {"index"}
      [] c = "wds_get_profile_settings" ->
            {"apn_name", "username", "password", "roaming_disallowed_flag",
             "apn_disabled_flag"}
      [] c = "wda_get_data_format" -> {x[2] : x \in wda_get_data_format_cb}
      [] c = "uim_open_logical_channel" -> {"channel_id", "card_result"}
      [] c = "uim_send_apdu" -> {"apdu_response"}
      [] c = "wms_list_messages" -> {"message_list"}
      [] c \in {"wms_get_message", "wms_get_raw_message"} -> {"raw_message_data"}
      [] OTHER -> {}

(* A part is there only with its TLV, given here by name.                   *)
Parts == [p \in {"current_plmn/description"} |-> "current_plmn"]
           @@ [p \in {"pcell/known"} |-> "pcell"] @@ [p \in {"scell/channel"} |-> "scell"]
           @@ [p \in {"secondary_cells/channel"} |-> "secondary_cells"]
           @@ [p \in {"tx_info/power"} |-> "tx_info"]
           @@ [p \in {"rx_chain_0/phase"} |-> "rx_chain_0"]
           @@ [p \in {"card/application"} |-> "card"]
           @@ [p \in {"gsm_system_info_v2/cid"} |-> "gsm_system_info_v2"]
           @@ [p \in {"wcdma_system_info_v2/lac"} |-> "wcdma_system_info_v2"]
           @@ [p \in {"lte_system_info_v2/tac"} |-> "lte_system_info_v2"]
           @@ [p \in {"nr5g_system_info/cid"} |-> "nr5g_system_info"]
Whole(t) == {x \in t : x \in DOMAIN Parts => Parts[x] \in t}

(* Signals may be reported of any of the radios at once.                    *)
SignalAnswers == SUBSET (signals \cup nr5g)

(* Bound: all of them, none, one missing, or one alone with what it needs.  *)
Answers(c) ==
    IF c = "nas_get_signal_info" THEN SignalAnswers
    ELSE {Always(c) \cup Whole(t) : t \in
            {{}, Optional(c)} \cup {Optional(c) \ {x} : x \in Optional(c)}
               \cup {{y \in Optional(c) : y = x \/ (x \in DOMAIN Parts /\ y = Parts[x])} :
                       x \in Optional(c)}}

(* The messages that can be read: those delivered, and those sent.          *)
MessagesSent ==
    {[raw |-> sent[i].carries.raw_data, text |-> Chars(line[sent[i].for].arg),
      septets |-> Len(Chars(line[sent[i].for].arg)),
      number |-> static._send.target, header |-> 0] :
        i \in {j \in DOMAIN sent : sent[j].name = "wms_send_message"}}

Messages == IF Current.cmd = "wms_get_message" THEN Delivered \cup MessagesSent
                                               ELSE {[raw |-> <<>>]}

Answered(t, message) ==
    /\ waiting
    /\ waiting' = FALSE
    /\ shown' = [fields |-> Printed(Current.cmd, static, t, message.raw), answer |-> t,
                 message |-> message,
                 read |-> IF Current.cmd = "wms_get_message"
                          THEN wms_get_message_cb(message.raw) ELSE <<>>]
    /\ at' = at + 1
    /\ UNCHANGED <<line, pass, static, sent, ok>>

(* An error, no answer, or a signal.                                        *)
RequestFails ==
    /\ waiting
    /\ Stop
    /\ UNCHANGED <<line, at, static, sent>>

Over == pass = "over" /\ UNCHANGED vars

Next ==
    \/ \E F \in Families : \E item \in F.items : Type(item)
    \/ Open
    \/ Skip
    \/ ConnectFails
    \/ \E zero \in BOOLEAN : RunCommand(zero)
    \/ EndOfPass
    \/ /\ waiting
       /\ \E t \in Answers(Current.cmd), message \in Messages : Answered(t, message)
    \/ RequestFails
    \/ Over

Spec == Init /\ [][Next]_vars

-----------------------------------------------------------------------------
(* Properties.                                                              *)

(* Type invariant: the line holds commands of the program, the passes take  *)
(* them in turn, and every request is for a place in the line.              *)
CommandsTypeOK ==
    /\ \A i \in DOMAIN line : line[i].cmd \in Options \cup Commands
    /\ pass \in {"typing", "options", "commands", "over"}
    /\ at \in 1 .. Len(line) + 1
    /\ DOMAIN static = DOMAIN Static0
    /\ \A i \in DOMAIN sent : sent[i].for \in DOMAIN line /\ sent[i].name \in Commands
    /\ waiting => pass = "commands" /\ sent[Len(sent)].for = at
    /\ ok \in BOOLEAN
    /\ shown.fields # {} => ok

(* What a command of the line is to the modem: most are a request.  Two are *)
(* settled in the program.  --set-data-format and --set-autoconnect build   *)
(* theirs, and return QMI_CMD_DONE, so that it is not sent, although the    *)
(* help has --set-autoconnect do something (commands-wds.h:65).             *)
Unsent == {"get_client_id", "ctl_set_data_format", "nas_set_plmn",
           "wds_set_autoconnect_settings"}
Requested == {k \in DOMAIN line : line[k].cmd \in Commands \ Unsent}
Selects == {"nas_set_network_modes", "nas_set_network_preference", "nas_set_roaming",
            "nas_set_plmn"}

(* The modem is sent one request for each command of the line, in the order *)
(* of the line, with nothing after one that failed; if anything of the line *)
(* chooses networks, one system selection more, and after all the others    *)
(* (use_sel_req, the two passes of uqmi_run_commands).                      *)
SendsWhatTheLineSays ==
    LET served == {sent[i].for : i \in DOMAIN sent}
        isSelection(i) == sent[i].name = SystemSelection.cmd
    IN  /\ \A i \in DOMAIN sent :
              /\ sent[i].for \in Requested
              /\ sent[i].name = line[sent[i].for].cmd
              /\ \A j \in DOMAIN sent : i < j => sent[i].for < sent[j].for
              /\ \A k \in Requested : k < sent[i].for => k \in served
              /\ isSelection(i) => i = Len(sent)
        /\ pass = "over" /\ ok =>
              /\ Requested \subseteq served
              /\ (\E k \in DOMAIN line : line[k].cmd \in Selects)
                    <=> (\E i \in DOMAIN sent : isSelection(i))

(* What the help text (uqmi/commands-*.h) says goes with a command: the     *)
(* option, and the field of the request it is for.                          *)
HelpOptions(c) ==
    CASE c = "wds_start_network" ->
            {<<"wds_set_apn", "apn">>, <<"wds_set_auth", "authentication_preference">>,
             <<"wds_set_username", "username">>, <<"wds_set_password", "password">>,
             <<"wds_set_ip_family_pref", "ip_family_preference">>,
             <<"wds_set_autoconnect", "enable_autoconnect">>,
             <<"wds_set_profile", "profile_index_3gpp">>}
      [] c = "wds_stop_network" -> {<<"wds_set_autoconnect", "disable_autoconnect">>}
      [] c \in {"wds_create_profile", "wds_modify_profile"} ->
            {<<"wds_set_apn", "apn_name">>, <<"wds_set_pdp_type", "pdp_type">>,
             <<"wds_set_username", "username">>, <<"wds_set_password", "password">>,
             <<"wds_set_auth", "authentication">>,
             <<"wds_no_roaming", "roaming_disallowed_flag">>}
      [] c = "wds_bind_mux" -> {<<"wds_ep_type", "type">>, <<"wds_ep_iface", "iface">>}
      [] c \in {"dms_set_pin1_protection", "dms_set_pin2_protection"} ->
            {<<"dms_set_pin", "pin">>}
      [] c \in {"dms_change_pin1", "dms_change_pin2"} ->
            {<<"dms_set_pin", "old_pin">>, <<"dms_set_new_pin", "new_pin">>}
      [] c \in {"dms_unblock_pin1", "dms_unblock_pin2"} ->
            {<<"dms_set_puk", "puk">>, <<"dms_set_new_pin", "new_pin">>}
      [] c = "wda_set_data_format" ->
            {<<"wda_downlink_data_aggregation_protocol", "aggregation_protocol_dl">>,
             <<"wda_downlink_data_aggregation_max_datagrams", "max_datagrams_dl">>,
             <<"wda_downlink_data_aggregation_max_size", "max_size_dl">>,
             <<"wda_uplink_data_aggregation_protocol", "aggregation_protocol_ul">>,
             <<"wda_uplink_data_aggregation_max_datagrams", "max_datagrams_ul">>,
             <<"wda_uplink_data_aggregation_max_size", "max_size_ul">>,
             <<"wda_flow_control", "flow_control">>}
      [] c \in {"uim_power_off", "uim_power_on", "uim_open_logical_channel"} ->
            {<<"uim_slot", "slot">>}
      [] c \in {"uim_close_logical_channel", "uim_send_apdu"} ->
            {<<"uim_slot", "slot">>, <<"uim_channel_id", "channel_id">>}
      [] c = "nas_do_set_system_selection" ->
            {<<"nas_set_network_preference", "gsm_wcdma_acquisition_order_preference">>,
             <<"nas_set_roaming", "roaming_preference">>}
      [] c \in {"wms_list_messages", "wms_get_message", "wms_get_raw_message"} ->
            {<<"wms_storage", "storage_type">>}
      [] c = "wms_delete_message" -> {<<"wms_storage", "memory_storage">>}
      [] OTHER -> {}

(* What the user meant by the argument of an option.                        *)
Meant(option, a) ==
    IF option \in {"wds_set_apn", "wds_set_username", "wds_set_password", "dms_set_pin",
                   "dms_set_puk", "dms_set_new_pin"} THEN a
    ELSE IF option \in {"wds_set_autoconnect", "wms_send_message_flash"} THEN TRUE
    ELSE IF option \in {"wms_send_message_smsc", "wms_send_message_target"} THEN Chars(a)
    ELSE IF option = "wms_storage" THEN "nv"
    ELSE IF option = "wds_no_roaming" THEN a[1].word = "true"
    ELSE IF a[1].clean THEN a[1].num ELSE a[1].word

(* The arguments of a line are such as the help asks for, where the program  *)
(* does not see to it itself: a number is a number and fits its field, a    *)
(* word is none.                                                            *)
Suits(c, a) ==
    /\ c \in {"wds_set_profile", "wds_ep_iface", "wda_flow_control",
             "wda_downlink_data_aggregation_max_datagrams",
             "wda_downlink_data_aggregation_max_size",
             "wda_uplink_data_aggregation_max_datagrams",
             "wda_uplink_data_aggregation_max_size"} => a[1].clean
    /\ c = "wds_set_profile" => Number(a, 8) = a[1].num
    /\ c \in {"nas_set_mcc", "nas_set_mnc"} => Number(a, 16) = a[1].num
    /\ c \in {"wds_set_auth", "wds_set_ip_family_pref", "wds_set_pdp_type", "wds_ep_type",
             "nas_set_network_preference", "nas_set_roaming",
             "wda_downlink_data_aggregation_protocol",
             "wda_uplink_data_aggregation_protocol"} => ~a[1].clean
    /\ c = "nas_set_network_preference" => Is(a, {"gsm", "wcdma"})
AsTheHelpAsks == \A F \in Families : \A item \in F.items : Suits(item.cmd, item.arg)

(* The options of a kind that were given, with a value that sets something: *)
(* `--storage sim' sets nothing, and stands for what is there without it.   *)
Gives(c, a) == ~(c = "wms_storage" /\ Is(a, {"sim"}))
OfLine(c) == {j \in DOMAIN line : line[j].cmd = c /\ Gives(c, line[j].arg)}
LastOf(c) == CHOOSE j \in OfLine(c) : \A k \in OfLine(c) : k <= j
LastValue(c) == Meant(c, line[LastOf(c)].arg)
ValueOr(c, default) == IF OfLine(c) = {} THEN default ELSE LastValue(c)

(* What is sent of an option that was not given, where it is sent all the   *)
(* same.                                                                    *)
Default == [authentication_preference |-> "both", type |-> "undefined", iface |-> 0,
            aggregation_protocol_dl |-> "disabled", max_datagrams_dl |-> 0, max_size_dl |-> 0,
            aggregation_protocol_ul |-> "disabled", max_datagrams_ul |-> 0, max_size_ul |-> 0,
            channel_id |-> 255, storage_type |-> "uim", memory_storage |-> "uim"]

(* Whatever the order of the line and however many commands use it, a       *)
(* request carries each option the help lists for its command with the last *)
(* value given that sets something, and no value of its own for an option   *)
(* that was not given.  A text is sent from and to the numbers given last,  *)
(* and flashes if that was asked for.  The exception is in Gives: after     *)
(* `--storage me' a `--storage sim' does not bring back the SIM's storage,  *)
(* although the help names both (commands-wms.c:49, commands-wms.h:35).     *)
CarriesTheOptionsGiven ==
    \A i \in DOMAIN sent :
        LET carries == sent[i].carries
        IN  /\ \A h \in HelpOptions(sent[i].name) :
                  IF OfLine(h[1]) = {}
                  THEN h[2] \in DOMAIN carries =>
                          h[2] \in DOMAIN Default /\ carries[h[2]] = Default[h[2]]
                  ELSE h[2] \in DOMAIN carries /\ carries[h[2]] = LastValue(h[1])
            /\ sent[i].name = "wms_send_message" =>
                  carries.raw_data = RawMessage(ValueOr("wms_send_message_smsc", <<>>),
                                                ValueOr("wms_send_message_target", <<>>),
                                                ValueOr("wms_send_message_flash", FALSE),
                                                Chars(line[sent[i].for].arg))

(* --set-plmn registers at the network --mcc and --mnc name, both of them,  *)
(* or at none if the country is 0 or not given; and the modem is never told *)
(* to take a network of which only one number was given.                    *)
SelectsTheNetworkGiven ==
    \A i \in DOMAIN sent :
        LET carries == sent[i].carries
            number(c) == line[LastOf(c)].arg[1].num
            named == OfLine("nas_set_mcc") # {} /\ number("nas_set_mcc") # 0
        IN  sent[i].name = SystemSelection.cmd =>
              /\ "mode" \in DOMAIN carries <=> OfLine("nas_set_plmn") # {}
              /\ "mode" \in DOMAIN carries =>
                    IF named
                    THEN /\ OfLine("nas_set_mnc") # {}
                         /\ carries.mode = "manual"
                         /\ carries.mcc = number("nas_set_mcc")
                         /\ carries.mnc = number("nas_set_mnc")
                    ELSE carries.mode = "automatic"

(* What the options of a line leave in the structures, one after the other. *)
Fill(s, item) == IF IsOption(item) THEN Prepare(item, s, TRUE).static ELSE s

Filling(items) ==
    LET after[n \in 0 .. Len(items)] ==
            IF n = 0 THEN Static0 ELSE Fill(after[n - 1], items[n])
    IN  after
Filled == Filling(line)[Len(line)]

(* The structures stay from one command to the next; yet a command is sent  *)
(* with what the options say and with its own argument, as if it were alone *)
(* on the line, and with nothing left there by the commands before it.      *)
CommandsDoNotInterfere ==
    \A i \in DOMAIN sent :
        sent[i].name # SystemSelection.cmd =>
            \E zero \in BOOLEAN :
                sent[i].carries = Prepare(line[sent[i].for], Filled, zero).request.carries

(* The radio of a signal, by its TLV; the type of a 5G cell is a word.      *)
RadioOf(tlv) ==
    CASE tlv \in signals -> tlv
      [] tlv \in nr5g \cup {Constant} /\ shown.answer \cap nr5g # {} -> "5gnr"
      [] OTHER -> "none"
Radios(f, g) == {RadioOf(f[2]), RadioOf(g[2])}

(* What a command prints is read from TLVs its answer carries, and no table *)
(* of it has a field twice: where the LTE and the 5G cell are reported       *)
(* together each has its own table.  --get-signal-info does print a field   *)
(* twice into one table when signals of several other radios are reported,  *)
(* and then once for each of these radios.                                  *)
ShowsTheAnswerOnce ==
    \A f \in shown.fields :
        /\ f[2] \in shown.answer \cup {Constant}
        /\ \A g \in shown.fields :
              g[1] = f[1] /\ g[2] # f[2] =>
                  /\ "none" \notin Radios(f, g)
                  /\ Cardinality(Radios(f, g)) = 2
                  /\ Radios(f, g) # {"lte_signal_strength", "5gnr"}

(* A text that is sent, or delivered in parts, is read as it was written,   *)
(* but for its end: after 7, 15... characters the bits left in the last     *)
(* octet read as one more, `@'; behind a header that ends within a septet   *)
(* the last of 8, 16... characters is not read.  An empty text may be       *)
(* shown as none.                                                           *)
ReadsTheTextSent ==
    LET m == shown.message
        read == IF "text" \in DOMAIN shown.read THEN shown.read.text ELSE <<>>
        full == m.septets % 8
    IN  "text" \in DOMAIN m =>
           /\ \/ read = m.text
              \/ m.header # 6 /\ full = 7 /\ read = Append(m.text, 64)
              \/ m.header = 6 /\ full = 0 /\ read = SubSeq(m.text, 1, Len(m.text) - 1)
           /\ m.number \in {shown.read[f] : f \in DOMAIN shown.read \cap {"sender", "receiver"}}
           /\ m.header > 0 =>
                 shown.read.concat_part \in 1 .. shown.read.concat_parts
=============================================================================
