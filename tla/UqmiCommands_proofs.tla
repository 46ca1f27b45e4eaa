-------------------------- MODULE UqmiCommands_proofs --------------------------
(* What is proved of a command line of uqmi, for every family of lines and  *)
(* of any length.                                                           *)
EXTENDS UqmiCommands, TLAPS, WellFoundedInduction, SequenceTheorems

(***************************************************************************)
(* The structures.  Owner says which option each of their fields belongs    *)
(* to; the fields left out are written by the commands themselves, or are   *)
(* of no option the help lists for a command.                               *)
(***************************************************************************)
Owner ==
    [wds_sn_req |->
        [apn |-> "wds_set_apn", authentication_preference |-> "wds_set_auth",
         username |-> "wds_set_username", password |-> "wds_set_password",
         ip_family_preference |-> "wds_set_ip_family_pref",
         enable_autoconnect |-> "wds_set_autoconnect",
         profile_index_3gpp |-> "wds_set_profile"],
     wds_stn_req |-> [disable_autoconnect |-> "wds_set_autoconnect"],
     wds_mp_req |->
        [apn_name |-> "wds_set_apn", authentication |-> "wds_set_auth",
         username |-> "wds_set_username", password |-> "wds_set_password",
         pdp_type |-> "wds_set_pdp_type", roaming_disallowed_flag |-> "wds_no_roaming"],
     wds_cp_req |->
        [apn_name |-> "wds_set_apn", authentication |-> "wds_set_auth",
         username |-> "wds_set_username", password |-> "wds_set_password",
         pdp_type |-> "wds_set_pdp_type", roaming_disallowed_flag |-> "wds_no_roaming"],
     wds_endpoint_info |-> [type |-> "wds_ep_type", iface |-> "wds_ep_iface"],
     dms_req_data |->
        [pin |-> "dms_set_pin", puk |-> "dms_set_puk", new_pin |-> "dms_set_new_pin"],
     sel_req |->
        [gsm_wcdma_acquisition_order_preference |-> "nas_set_network_preference",
         roaming_preference |-> "nas_set_roaming"],
     plmn |-> [mcc |-> "nas_set_mcc", mnc |-> "nas_set_mnc"],
     wda_aggregation_info |->
        [aggregation_protocol_dl |-> "wda_downlink_data_aggregation_protocol",
         max_datagrams_dl |-> "wda_downlink_data_aggregation_max_datagrams",
         max_size_dl |-> "wda_downlink_data_aggregation_max_size",
         aggregation_protocol_ul |-> "wda_uplink_data_aggregation_protocol",
         max_datagrams_ul |-> "wda_uplink_data_aggregation_max_datagrams",
         max_size_ul |-> "wda_uplink_data_aggregation_max_size",
         flow_control |-> "wda_flow_control"],
     uim |-> [slot |-> "uim_slot", channel_id |-> "uim_channel_id"],
     lmreq |-> [storage_type |-> "wms_storage"],
     dmreq |-> [memory_storage |-> "wms_storage"],
     gmreq |-> [storage_type |-> "wms_storage"],
     _send |-> [smsc |-> "wms_send_message_smsc", target |-> "wms_send_message_target",
                flash |-> "wms_send_message_flash"]]

Owns(c) == \E q \in DOMAIN Owner : \E f \in DOMAIN Owner[q] : Owner[q][f] = c
OwnPlaces(c, places) ==
    \A q \in DOMAIN Owner : \A f \in DOMAIN Owner[q] : <<q, f>> \in places <=> Owner[q][f] = c

(* Places outside of what chooses the network, but for its two numbers.      *)
Proper(places) ==
    /\ \A x \in places : x = <<x[1], x[2]>>
    /\ \A f : <<"sel_req", f>> \in places => f \notin {"mode", "mcc", "mnc"}
    /\ \A f : <<"plmn", f>> \in places => f \in {"mcc", "mnc"}

(* What a command is: it is sent, or only settles something.                *)
ToSend(c) == c \in Commands \ Unsent /\ c \notin Selects /\ ~Owns(c)
Settles(c) == c \notin Commands \ Unsent /\ c \notin Selects

(* A step from s to t does not touch the field f of the structure q.        *)
Keeps(s, t, q, f) ==
    /\ f \in DOMAIN t[q] <=> f \in DOMAIN s[q]
    /\ f \in DOMAIN s[q] => t[q][f] = s[q][f]

(* What a command leaves in the structures: the fields it owns hold what    *)
(* was meant by a suitable argument that sets something, the others what    *)
(* they held.  The network is chosen by --set-plmn alone; sel_req and the   *)
(* numbers do not mix.                                                      *)
After(c, a, s, t) ==
    /\ DOMAIN t = DOMAIN s
    /\ \A q \in DOMAIN Owner : \A f \in DOMAIN Owner[q] :
          /\ Owner[q][f] = c /\ Gives(c, a) =>
                /\ f \in DOMAIN t[q]
                /\ Suits(c, a) => t[q][f] = Meant(c, a)
          /\ ~(Owner[q][f] = c /\ Gives(c, a)) => Keeps(s, t, q, f)
    /\ c # "nas_set_plmn" => Keeps(s, t, "sel_req", "mode")
    /\ Keeps(s, t, "sel_req", "mcc")
    /\ Keeps(s, t, "sel_req", "mnc")
    /\ DOMAIN t["plmn"] \subseteq DOMAIN s["plmn"] \cup {"mcc", "mnc"}

(* What a handler may answer to the command c with the argument a.          *)
Good(c, a, s, r) ==
    /\ r.res \in {"exit", "done", "request"}
    /\ DOMAIN r.static = DOMAIN s
    /\ r.selects \in BOOLEAN
    /\ r.res = "request" => r.request.name = c /\ c \in Commands \ Unsent
    /\ r.res = "done" => c \notin Commands \ Unsent
    /\ r.res = "exit" => ~r.selects
    /\ r.res # "exit" => (r.selects <=> c \in Selects) /\ After(c, a, s, r.static)

-----------------------------------------------------------------------------
(* Writing into the structures.                                             *)

(* Put writes one value at the places it is given, and nothing else.        *)
LEMMA PutField ==
    ASSUME NEW s, NEW places, NEW v, \A x \in places : x = <<x[1], x[2]>>,
           NEW q \in DOMAIN s, NEW f
    PROVE  /\ f \in DOMAIN Put(s, places, v)[q] <=> f \in DOMAIN s[q] \/ <<q, f>> \in places
           /\ <<q, f>> \in places => Put(s, places, v)[q][f] = v
           /\ <<q, f>> \notin places /\ f \in DOMAIN s[q] => Put(s, places, v)[q][f] = s[q][f]
<1> DEFINE names == {p[2] : p \in {x \in places : x[1] = q}}
<1>1. f \in names <=> <<q, f>> \in places
  <2>1. ASSUME f \in names PROVE <<q, f>> \in places
    <3>1. PICK p \in {x \in places : x[1] = q} : f = p[2]
      BY <2>1
    <3>2. p = <<q, f>>
      BY <3>1
    <3> QED
      BY <3>1, <3>2
  <2>2. ASSUME <<q, f>> \in places PROVE f \in names
    <3>1. <<q, f>> \in {x \in places : x[1] = q}
      BY <2>2
    <3> QED
      BY <3>1
  <2> QED
    BY <2>1, <2>2
<1>2. Put(s, places, v)[q] = Onto([g \in names |-> v], s[q])
  BY DEF Put
<1> HIDE DEF names
<1> QED
  BY <1>1, <1>2 DEF Onto

LEMMA PutStructures ==
    ASSUME NEW s, NEW places, NEW v
    PROVE  DOMAIN Put(s, places, v) = DOMAIN s
BY DEF Put

(* Set writes the fields it is given into one structure.                    *)
LEMMA SetField ==
    ASSUME NEW s, NEW struct, NEW fields, NEW q \in DOMAIN s, NEW f
    PROVE  /\ q # struct \/ f \notin DOMAIN fields => Keeps(s, Set(s, struct, fields), q, f)
           /\ q = struct /\ f \in DOMAIN fields =>
                 /\ f \in DOMAIN Set(s, struct, fields)[q]
                 /\ Set(s, struct, fields)[q][f] = fields[f]
<1>1. CASE q # struct
  BY <1>1 DEF Set, Keeps
<1>2. CASE q = struct
  <2>1. Set(s, struct, fields)[q] = Onto(fields, s[q])
    BY <1>2 DEF Set
  <2> QED
    BY <1>2, <2>1 DEF Onto, Keeps
<1> QED
  BY <1>1, <1>2

LEMMA SetStructures ==
    ASSUME NEW s, NEW struct, NEW fields
    PROVE  DOMAIN Set(s, struct, fields) = DOMAIN s
BY DEF Set

(* The structures a line begins with are there throughout.                  *)
Structures(s) == DOMAIN Owner \subseteq DOMAIN s

LEMMA PlacesOfStructures == "sel_req" \in DOMAIN Owner /\ "plmn" \in DOMAIN Owner
BY DEF Owner

LEMMA AfterNothing ==
    ASSUME NEW c, NEW a, NEW s, ~Owns(c) \/ ~Gives(c, a)
    PROVE  After(c, a, s, s)
BY DEF After, Owns, Keeps

LEMMA AfterPut ==
    ASSUME NEW c, NEW a, NEW s, Structures(s), NEW places, NEW v,
           Proper(places), OwnPlaces(c, places), Gives(c, a),
           Owns(c) /\ Suits(c, a) => v = Meant(c, a)
    PROVE  After(c, a, s, Put(s, places, v))
<1> DEFINE t == Put(s, places, v)
<1>1. DOMAIN t = DOMAIN s
  BY PutStructures
<1>2. ASSUME NEW q \in DOMAIN s, NEW f
      PROVE  /\ f \in DOMAIN t[q] <=> f \in DOMAIN s[q] \/ <<q, f>> \in places
             /\ <<q, f>> \in places => t[q][f] = v
             /\ <<q, f>> \notin places => Keeps(s, t, q, f)
  BY PutField DEF Keeps, Proper
<1> HIDE DEF t
<1>3. ASSUME NEW q \in DOMAIN Owner, NEW f \in DOMAIN Owner[q]
      PROVE  /\ Owner[q][f] = c =>
                   f \in DOMAIN t[q] /\ (Suits(c, a) => t[q][f] = Meant(c, a))
             /\ Owner[q][f] # c => Keeps(s, t, q, f)
  BY <1>2 DEF Structures, OwnPlaces, Owns
<1>4. Keeps(s, t, "sel_req", "mode") /\ Keeps(s, t, "sel_req", "mcc") /\ Keeps(s, t, "sel_req", "mnc")
  BY <1>2, PlacesOfStructures DEF Structures, Proper
<1>5. DOMAIN t["plmn"] \subseteq DOMAIN s["plmn"] \cup {"mcc", "mnc"}
  BY <1>2, PlacesOfStructures DEF Structures, Proper
<1> QED
  BY <1>1, <1>3, <1>4, <1>5 DEF After, t

LEMMA AfterSet ==
    ASSUME NEW c, NEW a, NEW s, Structures(s), ~Owns(c), NEW struct, NEW fields,
           struct \in DOMAIN Owner => DOMAIN fields \cap DOMAIN Owner[struct] = {},
           struct = "sel_req" => "mcc" \notin DOMAIN fields /\ "mnc" \notin DOMAIN fields,
           struct = "sel_req" /\ "mode" \in DOMAIN fields => c = "nas_set_plmn",
           struct # "plmn"
    PROVE  After(c, a, s, Set(s, struct, fields))
<1> DEFINE t == Set(s, struct, fields)
<1>1. DOMAIN t = DOMAIN s
  BY SetStructures
<1>2. ASSUME NEW q \in DOMAIN s, NEW f, q # struct \/ f \notin DOMAIN fields
      PROVE  Keeps(s, t, q, f)
  BY <1>2, SetField
<1> HIDE DEF t
<1>3. ASSUME NEW q \in DOMAIN Owner, NEW f \in DOMAIN Owner[q]
      PROVE  Owner[q][f] # c /\ Keeps(s, t, q, f)
  BY <1>2 DEF Structures, Owns
<1>4. /\ c # "nas_set_plmn" => Keeps(s, t, "sel_req", "mode")
      /\ Keeps(s, t, "sel_req", "mcc") /\ Keeps(s, t, "sel_req", "mnc")
  BY <1>2, PlacesOfStructures DEF Structures
<1>5. DOMAIN t["plmn"] \subseteq DOMAIN s["plmn"]
  BY <1>2, PlacesOfStructures DEF Structures, Keeps
<1> QED
  BY <1>1, <1>3, <1>4, <1>5 DEF After, t

-----------------------------------------------------------------------------
(* The results of a handler.                                                *)

LEMMA DoneGood ==
    ASSUME NEW c, NEW a, NEW s, NEW t, After(c, a, s, t), Settles(c)
    PROVE  Good(c, a, s, Done(t))
BY DEF Good, Done, After, Settles

LEMMA SelectsGood ==
    ASSUME NEW c, NEW a, NEW s, NEW t, After(c, a, s, t),
           c \notin Commands \ Unsent, c \in Selects
    PROVE  Good(c, a, s, do_sel_network(t))
BY DEF Good, Done, do_sel_network, After

LEMMA ExitGood ==
    ASSUME NEW c, NEW a, NEW s, NEW t, DOMAIN t = DOMAIN s
    PROVE  Good(c, a, s, Exit(t))
BY DEF Good, Done, Exit

LEMMA RequestGood ==
    ASSUME NEW c, NEW a, NEW s, NEW t, After(c, a, s, t), NEW fields, ToSend(c)
    PROVE  Good(c, a, s, Request(t, c, fields))
BY DEF Good, Done, Request, After, ToSend

LEMMA PlainGood ==
    ASSUME NEW c, NEW a, NEW s, ToSend(c)
    PROVE  Good(c, a, s, Plain(s, c))
BY RequestGood, AfterNothing DEF Plain, ToSend

-----------------------------------------------------------------------------
(* The handlers.                                                            *)

(* The kinds of items of a line: what is sent, what settles, what owns.     *)
LEMMA Kinds ==
    /\ \A c \in CtlCommands \cup WdsCommands \cup DmsCommands \cup NasCommands \cup WmsCommands
                 \cup WdaCommands \cup UimCommands :
          ~Owns(c) /\ (c \notin Unsent => ToSend(c))
    /\ \A c \in (Unsent \ {"nas_set_plmn"}) \cup WdsOptions \cup DmsOptions \cup WmsOptions
                 \cup WdaOptions \cup UimOptions
                 \cup {"set_client_id", "nas_set_mcc", "nas_set_mnc"} : Settles(c)
    /\ \A c \in Selects : c \notin Commands \ Unsent
    /\ \A c \in {"set_client_id", "nas_set_network_modes"} : ~Owns(c)
    /\ \A c \in Options : c \notin Commands
<1> USE DEF Options, WdsOptions, DmsOptions, NasOptions, WmsOptions, WdaOptions, UimOptions
<1>1. \A c \in Options : c \notin Commands
  BY DEF Commands, CtlCommands, WdsCommands, DmsCommands, DmsIds, NasCommands, WmsCommands,
         WdaCommands, UimCommands
<1>2. \A c : Owns(c) => c \in Options
  BY DEF Owns, Owner
<1>3. \A c \in Selects : c \notin Commands \ Unsent
  <2>1. Selects \subseteq Options \cup Unsent
    BY DEF Selects, Unsent
  <2> QED
    BY <1>1, <2>1
<1>4. \A c \in {"set_client_id", "nas_set_network_modes"} : ~Owns(c)
  BY DEF Owns, Owner
<1>5. \A c \in WdsOptions \cup DmsOptions \cup WmsOptions \cup WdaOptions \cup UimOptions
                 \cup {"set_client_id", "nas_set_mcc", "nas_set_mnc"} :
          c \in Options /\ c \notin Selects
  BY DEF Selects
<1>6. \A c \in Unsent \ {"nas_set_plmn"} : Settles(c)
  BY DEF Settles, Unsent, Selects
<1>7. \A c \in Commands : ~Owns(c) /\ (c \notin Unsent => ToSend(c))
  BY <1>1, <1>2, <1>3 DEF ToSend
<1> QED
  BY <1>1, <1>3, <1>4, <1>5, <1>6, <1>7 DEF Settles, Commands

LEMMA CtlGood ==
    ASSUME NEW s, Structures(s), NEW a, NEW c \in CtlCommands \cup {"set_client_id"}
    PROVE  Good(c, a, s, CtlPrepare(c, s, a))
<1>1. CASE c \in {"version", "sync"}
  <2>1. ToSend(c) /\ ~Owns(c)
    BY <1>1, Kinds DEF CtlCommands, Unsent
  <2>2. CtlPrepare(c, s, a) = Plain(s, c)
    BY <1>1 DEF CtlPrepare
  <2> QED
    BY <1>1, <2>1, <2>2, PlainGood
<1>2. CASE c = "get_client_id"
  <2>1. Settles(c) /\ ~Owns(c)
    BY <1>2, Kinds DEF CtlCommands, Unsent
  <2>2. CtlPrepare(c, s, a) = get_client_id(s, a)
    BY <1>2 DEF CtlPrepare
  <2> QED
    BY <1>2, <2>1, <2>2, DoneGood, ExitGood, AfterNothing DEF get_client_id
<1>3. CASE c = "set_client_id"
  <2>1. Settles(c) /\ ~Owns(c)
    BY <1>3, Kinds DEF CtlCommands, Unsent
  <2>2. CtlPrepare(c, s, a) = set_client_id(s, a)
    BY <1>3 DEF CtlPrepare
  <2> QED
    BY <1>3, <2>1, <2>2, DoneGood, ExitGood, AfterNothing DEF set_client_id
<1>4. CASE c = "ctl_set_data_format"
  <2>1. Settles(c) /\ ~Owns(c)
    BY <1>4, Kinds DEF CtlCommands, Unsent
  <2>2. CtlPrepare(c, s, a) = ctl_set_data_format(s, a)
    BY <1>4 DEF CtlPrepare
  <2> QED
    BY <1>4, <2>1, <2>2, DoneGood, ExitGood, AfterNothing DEF ctl_set_data_format
<1> QED
  BY <1>1, <1>2, <1>3, <1>4 DEF CtlCommands

LEMMA WdsGood ==
    ASSUME NEW s, Structures(s), NEW a, NEW c \in WdsOptions \cup WdsCommands
    PROVE  Good(c, a, s, WdsPrepare(c, s, a))
<1>1. CASE c = "wds_set_apn"
  <2> DEFINE places == {<<"wds_sn_req", "apn">>, <<"wds_mp_req", "apn_name">>, <<"wds_cp_req", "apn_name">>}
  <2>1. OwnPlaces(c, places)
    BY <1>1 DEF OwnPlaces, Owner
  <2>2. Proper(places)
    BY DEF Proper
  <2>3. Suits(c, a) => Meant(c, a) = a
    BY <1>1 DEF Meant, Suits
  <2> HIDE DEF places
  <2>4. After(c, a, s, Put(s, places, a))
    BY <1>1, <2>1, <2>2, <2>3, AfterPut DEF Gives
  <2>5. Settles(c)
    BY <1>1, Kinds DEF WdsOptions
  <2>6. WdsPrepare(c, s, a) = wds_set_apn(s, a)
    BY <1>1 DEF WdsPrepare
  <2> QED
    BY <2>4, <2>5, <2>6, DoneGood DEF wds_set_apn, places
<1>2. CASE c = "wds_set_auth"
  <2> DEFINE places == {<<"wds_sn_req", "authentication_preference">>, <<"wds_mp_req", "authentication">>,
                          <<"wds_cp_req", "authentication">>}
  <2>1. OwnPlaces(c, places)
    BY <1>2 DEF OwnPlaces, Owner
  <2>2. Proper(places)
    BY DEF Proper
  <2>3. Suits(c, a) /\ Is(a, auth_modes) => Meant(c, a) = Word(a)
    BY <1>2 DEF Meant, Suits, Word
  <2> HIDE DEF places
  <2>4. Is(a, auth_modes) => After(c, a, s, Put(s, places, Word(a)))
    BY <1>2, <2>1, <2>2, <2>3, AfterPut DEF Gives
  <2>5. Settles(c)
    BY <1>2, Kinds DEF WdsOptions
  <2>6. WdsPrepare(c, s, a) = wds_set_auth(s, a)
    BY <1>2 DEF WdsPrepare
  <2> QED
    BY <2>4, <2>5, <2>6, DoneGood, ExitGood DEF wds_set_auth, places
<1>3. CASE c = "wds_set_username"
  <2> DEFINE places == {<<q, "username">> : q \in {"wds_sn_req", "wds_mp_req", "wds_cp_req"}}
  <2>1. OwnPlaces(c, places)
    BY <1>3 DEF OwnPlaces, Owner
  <2>2. Proper(places)
    BY DEF Proper
  <2>3. Suits(c, a) => Meant(c, a) = a
    BY <1>3 DEF Meant, Suits
  <2> HIDE DEF places
  <2>4. After(c, a, s, Put(s, places, a))
    BY <1>3, <2>1, <2>2, <2>3, AfterPut DEF Gives
  <2>5. Settles(c)
    BY <1>3, Kinds DEF WdsOptions
  <2>6. WdsPrepare(c, s, a) = wds_set_username(s, a)
    BY <1>3 DEF WdsPrepare
  <2> QED
    BY <2>4, <2>5, <2>6, DoneGood DEF wds_set_username, places
<1>4. CASE c = "wds_set_password"
  <2> DEFINE places == {<<q, "password">> : q \in {"wds_sn_req", "wds_mp_req", "wds_cp_req"}}
  <2>1. OwnPlaces(c, places)
    BY <1>4 DEF OwnPlaces, Owner
  <2>2. Proper(places)
    BY DEF Proper
  <2>3. Suits(c, a) => Meant(c, a) = a
    BY <1>4 DEF Meant, Suits
  <2> HIDE DEF places
  <2>4. After(c, a, s, Put(s, places, a))
    BY <1>4, <2>1, <2>2, <2>3, AfterPut DEF Gives
  <2>5. Settles(c)
    BY <1>4, Kinds DEF WdsOptions
  <2>6. WdsPrepare(c, s, a) = wds_set_password(s, a)
    BY <1>4 DEF WdsPrepare
  <2> QED
    BY <2>4, <2>5, <2>6, DoneGood DEF wds_set_password, places
<1>5. CASE c = "wds_set_ip_family_pref"
  <2> DEFINE places == {<<"wds_sn_req", "ip_family_preference">>}
  <2>1. OwnPlaces(c, places)
    BY <1>5 DEF OwnPlaces, Owner
  <2>2. Proper(places)
    BY DEF Proper
  <2>3. Suits(c, a) /\ Is(a, ipfam_modes) => Meant(c, a) = Word(a)
    BY <1>5 DEF Meant, Suits, Word
  <2> HIDE DEF places
  <2>4. Is(a, ipfam_modes) => After(c, a, s, Put(s, places, Word(a)))
    BY <1>5, <2>1, <2>2, <2>3, AfterPut DEF Gives
  <2>5. Settles(c)
    BY <1>5, Kinds DEF WdsOptions
  <2>6. WdsPrepare(c, s, a) = wds_set_ip_family_pref(s, a)
    BY <1>5 DEF WdsPrepare
  <2> QED
    BY <2>4, <2>5, <2>6, DoneGood, ExitGood DEF wds_set_ip_family_pref, places
<1>6. CASE c = "wds_set_autoconnect"
  <2> DEFINE places == {<<"wds_sn_req", "enable_autoconnect">>, <<"wds_stn_req", "disable_autoconnect">>}
  <2>1. OwnPlaces(c, places)
    BY <1>6 DEF OwnPlaces, Owner
  <2>2. Proper(places)
    BY DEF Proper
  <2>3. Suits(c, a) => Meant(c, a) = TRUE
    BY <1>6 DEF Meant, Suits
  <2> HIDE DEF places
  <2>4. After(c, a, s, Put(s, places, TRUE))
    BY <1>6, <2>1, <2>2, <2>3, AfterPut DEF Gives
  <2>5. Settles(c)
    BY <1>6, Kinds DEF WdsOptions
  <2>6. WdsPrepare(c, s, a) = wds_set_autoconnect(s)
    BY <1>6 DEF WdsPrepare
  <2> QED
    BY <2>4, <2>5, <2>6, DoneGood DEF wds_set_autoconnect, places
<1>7. CASE c = "wds_set_profile"
  <2> DEFINE places == {<<"wds_sn_req", "profile_index_3gpp">>}
  <2>1. OwnPlaces(c, places)
    BY <1>7 DEF OwnPlaces, Owner
  <2>2. Proper(places)
    BY DEF Proper
  <2>3. Suits(c, a) => Meant(c, a) = Number(a, 8)
    BY <1>7 DEF Meant, Suits
  <2> HIDE DEF places
  <2>4. After(c, a, s, Put(s, places, Number(a, 8)))
    BY <1>7, <2>1, <2>2, <2>3, AfterPut DEF Gives
  <2>5. Settles(c)
    BY <1>7, Kinds DEF WdsOptions
  <2>6. WdsPrepare(c, s, a) = wds_set_profile(s, a)
    BY <1>7 DEF WdsPrepare
  <2> QED
    BY <2>4, <2>5, <2>6, DoneGood DEF wds_set_profile, places
<1>8. CASE c = "wds_set_pdp_type"
  <2> DEFINE places == {<<"wds_mp_req", "pdp_type">>, <<"wds_cp_req", "pdp_type">>}
  <2>1. OwnPlaces(c, places)
    BY <1>8 DEF OwnPlaces, Owner
  <2>2. Proper(places)
    BY DEF Proper
  <2>3. Suits(c, a) /\ Is(a, pdp_types) => Meant(c, a) = Word(a)
    BY <1>8 DEF Meant, Suits, Word
  <2> HIDE DEF places
  <2>4. Is(a, pdp_types) => After(c, a, s, Put(s, places, Word(a)))
    BY <1>8, <2>1, <2>2, <2>3, AfterPut DEF Gives
  <2>5. Settles(c)
    BY <1>8, Kinds DEF WdsOptions
  <2>6. WdsPrepare(c, s, a) = wds_set_pdp_type(s, a)
    BY <1>8 DEF WdsPrepare
  <2> QED
    BY <2>4, <2>5, <2>6, DoneGood, ExitGood DEF wds_set_pdp_type, places
<1>9. CASE c = "wds_no_roaming"
  <2> DEFINE places == {<<"wds_mp_req", "roaming_disallowed_flag">>,
                          <<"wds_cp_req", "roaming_disallowed_flag">>}
  <2>1. OwnPlaces(c, places)
    BY <1>9 DEF OwnPlaces, Owner
  <2>2. Proper(places)
    BY DEF Proper
  <2>3. Suits(c, a) /\ Is(a, {"true", "false"}) => Meant(c, a) = (Word(a) = "true")
    BY <1>9 DEF Meant, Suits, Word
  <2> HIDE DEF places
  <2>4. Is(a, {"true", "false"}) => After(c, a, s, Put(s, places, (Word(a) = "true")))
    BY <1>9, <2>1, <2>2, <2>3, AfterPut DEF Gives
  <2>5. Settles(c)
    BY <1>9, Kinds DEF WdsOptions
  <2>6. WdsPrepare(c, s, a) = wds_no_roaming(s, a)
    BY <1>9 DEF WdsPrepare
  <2> QED
    BY <2>4, <2>5, <2>6, DoneGood, ExitGood DEF wds_no_roaming, places
<1>10. CASE c = "wds_ep_type"
  <2> DEFINE places == {<<"wds_endpoint_info", "type">>}
  <2>1. OwnPlaces(c, places)
    BY <1>10 DEF OwnPlaces, Owner
  <2>2. Proper(places)
    BY DEF Proper
  <2>3. Suits(c, a) /\ Is(a, {"hsusb", "pcie"}) => Meant(c, a) = Word(a)
    BY <1>10 DEF Meant, Suits, Word
  <2> HIDE DEF places
  <2>4. Is(a, {"hsusb", "pcie"}) => After(c, a, s, Put(s, places, Word(a)))
    BY <1>10, <2>1, <2>2, <2>3, AfterPut DEF Gives
  <2>5. Settles(c)
    BY <1>10, Kinds DEF WdsOptions
  <2>6. WdsPrepare(c, s, a) = wds_ep_type(s, a)
    BY <1>10 DEF WdsPrepare
  <2> QED
    BY <2>4, <2>5, <2>6, DoneGood, ExitGood DEF wds_ep_type, places
<1>11. CASE c = "wds_ep_iface"
  <2> DEFINE places == {<<"wds_endpoint_info", "iface">>}
  <2>1. OwnPlaces(c, places)
    BY <1>11 DEF OwnPlaces, Owner
  <2>2. Proper(places)
    BY DEF Proper
  <2>3. Suits(c, a) => Meant(c, a) = Number(a, 32)
    BY <1>11 DEF Meant, Suits, Number
  <2> HIDE DEF places
  <2>4. After(c, a, s, Put(s, places, Number(a, 32)))
    BY <1>11, <2>1, <2>2, <2>3, AfterPut DEF Gives
  <2>5. Settles(c)
    BY <1>11, Kinds DEF WdsOptions
  <2>6. WdsPrepare(c, s, a) = wds_ep_iface(s, a)
    BY <1>11 DEF WdsPrepare
  <2> QED
    BY <2>4, <2>5, <2>6, DoneGood DEF wds_ep_iface, places
<1>12. CASE c = "wds_start_network"
  <2>1. ToSend(c) /\ ~Owns(c)
    BY <1>12, Kinds DEF WdsCommands, Unsent
  <2>2. WdsPrepare(c, s, a) = wds_start_network(s)
    BY <1>12 DEF WdsPrepare
  <2> QED
    BY <1>12, <2>1, <2>2, RequestGood, AfterNothing DEF wds_start_network
<1>13. CASE c = "wds_stop_network"
  <2>1. ToSend(c) /\ ~Owns(c)
    BY <1>13, Kinds DEF WdsCommands, Unsent
  <2>2. WdsPrepare(c, s, a) = wds_stop_network(s, a)
    BY <1>13 DEF WdsPrepare
  <2>3. After(c, a, s, Set(s, "wds_stn_req", [packet_data_handle |-> Number(a, 32)]))
    BY <2>1, AfterSet DEF Owner
  <2> QED
    BY <1>13, <2>1, <2>2, <2>3, RequestGood, SetStructures DEF wds_stop_network
<1>14. CASE c = "wds_get_packet_service_status"
  <2>1. ToSend(c) /\ ~Owns(c)
    BY <1>14, Kinds DEF WdsCommands, Unsent
  <2>2. WdsPrepare(c, s, a) = wds_get_packet_service_status(s)
    BY <1>14 DEF WdsPrepare
  <2> QED
    BY <1>14, <2>1, <2>2, PlainGood DEF wds_get_packet_service_status
<1>15. CASE c = "wds_set_ip_family"
  <2>1. ToSend(c) /\ ~Owns(c)
    BY <1>15, Kinds DEF WdsCommands, Unsent
  <2>2. WdsPrepare(c, s, a) = wds_set_ip_family(s, a)
    BY <1>15 DEF WdsPrepare
  <2> QED
    BY <1>15, <2>1, <2>2, RequestGood, ExitGood, AfterNothing DEF wds_set_ip_family
<1>16. CASE c = "wds_set_autoconnect_settings"
  <2>1. Settles(c) /\ ~Owns(c)
    BY <1>16, Kinds DEF WdsCommands, Unsent
  <2>2. WdsPrepare(c, s, a) = wds_set_autoconnect_settings(s, a)
    BY <1>16 DEF WdsPrepare
  <2> QED
    BY <1>16, <2>1, <2>2, DoneGood, ExitGood, AfterNothing DEF
       wds_set_autoconnect_settings
<1>17. CASE c = "wds_reset"
  <2>1. ToSend(c) /\ ~Owns(c)
    BY <1>17, Kinds DEF WdsCommands, Unsent
  <2>2. WdsPrepare(c, s, a) = wds_reset(s)
    BY <1>17 DEF WdsPrepare
  <2> QED
    BY <1>17, <2>1, <2>2, PlainGood DEF wds_reset
<1>18. CASE c = "wds_get_profile_settings"
  <2>1. ToSend(c) /\ ~Owns(c)
    BY <1>18, Kinds DEF WdsCommands, Unsent
  <2>2. WdsPrepare(c, s, a) = wds_get_profile_settings(s, a)
    BY <1>18 DEF WdsPrepare
  <2> QED
    BY <1>18, <2>1, <2>2, RequestGood, ExitGood, AfterNothing DEF
       wds_get_profile_settings
<1>19. CASE c = "wds_set_default_profile"
  <2>1. ToSend(c) /\ ~Owns(c)
    BY <1>19, Kinds DEF WdsCommands, Unsent
  <2>2. WdsPrepare(c, s, a) = wds_set_default_profile(s, a)
    BY <1>19 DEF WdsPrepare
  <2> QED
    BY <1>19, <2>1, <2>2, RequestGood, ExitGood, AfterNothing DEF
       wds_set_default_profile
<1>20. CASE c = "wds_get_default_profile"
  <2>1. ToSend(c) /\ ~Owns(c)
    BY <1>20, Kinds DEF WdsCommands, Unsent
  <2>2. WdsPrepare(c, s, a) = wds_get_default_profile(s, a)
    BY <1>20 DEF WdsPrepare
  <2> QED
    BY <1>20, <2>1, <2>2, RequestGood, ExitGood, AfterNothing DEF
       wds_get_default_profile
<1>21. CASE c = "wds_get_profile_list"
  <2>1. ToSend(c) /\ ~Owns(c)
    BY <1>21, Kinds DEF WdsCommands, Unsent
  <2>2. WdsPrepare(c, s, a) = wds_get_profile_list(s, a)
    BY <1>21 DEF WdsPrepare
  <2> QED
    BY <1>21, <2>1, <2>2, RequestGood, ExitGood, AfterNothing DEF wds_get_profile_list
<1>22. CASE c = "wds_create_profile"
  <2>1. ToSend(c) /\ ~Owns(c)
    BY <1>22, Kinds DEF WdsCommands, Unsent
  <2>2. WdsPrepare(c, s, a) = wds_create_profile(s, a)
    BY <1>22 DEF WdsPrepare
  <2>3. After(c, a, s, Set(s, "wds_cp_req", [profile_type |-> Word(a)]))
    BY <2>1, AfterSet DEF Owner
  <2> QED
    BY <1>22, <2>1, <2>2, <2>3, RequestGood, ExitGood, SetStructures DEF
       wds_create_profile
<1>23. CASE c = "wds_modify_profile"
  <2>1. ToSend(c) /\ ~Owns(c)
    BY <1>23, Kinds DEF WdsCommands, Unsent
  <2>2. WdsPrepare(c, s, a) = wds_modify_profile(s, a)
    BY <1>23 DEF WdsPrepare
  <2>3. After(c, a, s, Set(s, "wds_mp_req", Profile(a)))
    BY <2>1, AfterSet DEF Owner, Profile
  <2> QED
    BY <1>23, <2>1, <2>2, <2>3, RequestGood, ExitGood, SetStructures DEF
       wds_modify_profile
<1>24. CASE c = "wds_delete_profile"
  <2>1. ToSend(c) /\ ~Owns(c)
    BY <1>24, Kinds DEF WdsCommands, Unsent
  <2>2. WdsPrepare(c, s, a) = wds_delete_profile(s, a)
    BY <1>24 DEF WdsPrepare
  <2> QED
    BY <1>24, <2>1, <2>2, RequestGood, ExitGood, AfterNothing DEF wds_delete_profile
<1>25. CASE c = "wds_get_current_settings"
  <2>1. ToSend(c) /\ ~Owns(c)
    BY <1>25, Kinds DEF WdsCommands, Unsent
  <2>2. WdsPrepare(c, s, a) = wds_get_current_settings(s)
    BY <1>25 DEF WdsPrepare
  <2> QED
    BY <1>25, <2>1, <2>2, PlainGood DEF wds_get_current_settings
<1>26. CASE c = "wds_bind_mux"
  <2>1. ToSend(c) /\ ~Owns(c)
    BY <1>26, Kinds DEF WdsCommands, Unsent
  <2>2. WdsPrepare(c, s, a) = wds_bind_mux(s, a)
    BY <1>26 DEF WdsPrepare
  <2> QED
    BY <1>26, <2>1, <2>2, RequestGood, AfterNothing DEF wds_bind_mux
<1>27. CASE c = "wds_set_lte_attach_pdn"
  <2>1. ~Owns(c)
    BY <1>27, Kinds DEF WdsCommands, Unsent
  <2>2. WdsPrepare(c, s, a) = wds_set_lte_attach_pdn(s)
    BY <1>27 DEF WdsPrepare
  <2> QED
    BY <1>27, <2>1, <2>2, ExitGood DEF wds_set_lte_attach_pdn
<1> QED
  BY <1>1, <1>2, <1>3, <1>4, <1>5, <1>6, <1>7, <1>8, <1>9, <1>10, <1>11, <1>12, <1>13,
     <1>14, <1>15, <1>16, <1>17, <1>18, <1>19, <1>20, <1>21, <1>22, <1>23, <1>24,
     <1>25, <1>26, <1>27 DEF WdsOptions, WdsCommands

LEMMA DmsGood ==
    ASSUME NEW s, Structures(s), NEW a, NEW c \in DmsOptions \cup DmsCommands
    PROVE  Good(c, a, s, DmsPrepare(c, s, a))
<1>1. CASE c = "dms_set_pin"
  <2> DEFINE places == {<<"dms_req_data", "pin">>}
  <2>1. OwnPlaces(c, places)
    BY <1>1 DEF OwnPlaces, Owner
  <2>2. Proper(places)
    BY DEF Proper
  <2>3. Suits(c, a) => Meant(c, a) = a
    BY <1>1 DEF Meant, Suits
  <2> HIDE DEF places
  <2>4. After(c, a, s, Put(s, places, a))
    BY <1>1, <2>1, <2>2, <2>3, AfterPut DEF Gives
  <2>5. Settles(c)
    BY <1>1, Kinds DEF DmsOptions
  <2>6. DmsPrepare(c, s, a) = dms_set_pin(s, a)
    BY <1>1 DEF DmsPrepare, DmsIds
  <2> QED
    BY <2>4, <2>5, <2>6, DoneGood DEF dms_set_pin, places
<1>2. CASE c = "dms_set_puk"
  <2> DEFINE places == {<<"dms_req_data", "puk">>}
  <2>1. OwnPlaces(c, places)
    BY <1>2 DEF OwnPlaces, Owner
  <2>2. Proper(places)
    BY DEF Proper
  <2>3. Suits(c, a) => Meant(c, a) = a
    BY <1>2 DEF Meant, Suits
  <2> HIDE DEF places
  <2>4. After(c, a, s, Put(s, places, a))
    BY <1>2, <2>1, <2>2, <2>3, AfterPut DEF Gives
  <2>5. Settles(c)
    BY <1>2, Kinds DEF DmsOptions
  <2>6. DmsPrepare(c, s, a) = dms_set_puk(s, a)
    BY <1>2 DEF DmsPrepare, DmsIds
  <2> QED
    BY <2>4, <2>5, <2>6, DoneGood DEF dms_set_puk, places
<1>3. CASE c = "dms_set_new_pin"
  <2> DEFINE places == {<<"dms_req_data", "new_pin">>}
  <2>1. OwnPlaces(c, places)
    BY <1>3 DEF OwnPlaces, Owner
  <2>2. Proper(places)
    BY DEF Proper
  <2>3. Suits(c, a) => Meant(c, a) = a
    BY <1>3 DEF Meant, Suits
  <2> HIDE DEF places
  <2>4. After(c, a, s, Put(s, places, a))
    BY <1>3, <2>1, <2>2, <2>3, AfterPut DEF Gives
  <2>5. Settles(c)
    BY <1>3, Kinds DEF DmsOptions
  <2>6. DmsPrepare(c, s, a) = dms_set_new_pin(s, a)
    BY <1>3 DEF DmsPrepare, DmsIds
  <2> QED
    BY <2>4, <2>5, <2>6, DoneGood DEF dms_set_new_pin, places
<1>4. CASE c = "dms_get_capabilities"
  <2>1. ToSend(c) /\ ~Owns(c)
    BY <1>4, Kinds DEF DmsCommands, DmsIds, Unsent
  <2>2. DmsPrepare(c, s, a) = dms_get_capabilities(s)
    BY <1>4 DEF DmsPrepare, DmsIds
  <2> QED
    BY <1>4, <2>1, <2>2, PlainGood DEF dms_get_capabilities
<1>5. CASE c = "dms_get_pin_status"
  <2>1. ToSend(c) /\ ~Owns(c)
    BY <1>5, Kinds DEF DmsCommands, DmsIds, Unsent
  <2>2. DmsPrepare(c, s, a) = dms_get_pin_status(s)
    BY <1>5 DEF DmsPrepare, DmsIds
  <2> QED
    BY <1>5, <2>1, <2>2, PlainGood DEF dms_get_pin_status
<1>6. CASE c = "dms_verify_pin1"
  <2>1. ToSend(c) /\ ~Owns(c)
    BY <1>6, Kinds DEF DmsCommands, DmsIds, Unsent
  <2>2. DmsPrepare(c, s, a) = dms_verify_pin(s, a, 1)
    BY <1>6 DEF DmsPrepare, DmsIds
  <2> QED
    BY <1>6, <2>1, <2>2, RequestGood, AfterNothing DEF dms_verify_pin
<1>7. CASE c = "dms_verify_pin2"
  <2>1. ToSend(c) /\ ~Owns(c)
    BY <1>7, Kinds DEF DmsCommands, DmsIds, Unsent
  <2>2. DmsPrepare(c, s, a) = dms_verify_pin(s, a, 2)
    BY <1>7 DEF DmsPrepare, DmsIds
  <2> QED
    BY <1>7, <2>1, <2>2, RequestGood, AfterNothing DEF dms_verify_pin
<1>8. CASE c = "dms_set_pin1_protection"
  <2>1. ToSend(c) /\ ~Owns(c)
    BY <1>8, Kinds DEF DmsCommands, DmsIds, Unsent
  <2>2. DmsPrepare(c, s, a) = dms_set_pin_protection(s, a, 1)
    BY <1>8 DEF DmsPrepare, DmsIds
  <2>3. After(c, a, s, Set(s, "dms_req_data", [pin_id |-> 1]))
    BY <2>1, AfterSet DEF Owner
  <2> QED
    BY <1>8, <2>1, <2>2, <2>3, RequestGood, ExitGood, SetStructures DEF
       dms_set_pin_protection
<1>9. CASE c = "dms_set_pin2_protection"
  <2>1. ToSend(c) /\ ~Owns(c)
    BY <1>9, Kinds DEF DmsCommands, DmsIds, Unsent
  <2>2. DmsPrepare(c, s, a) = dms_set_pin_protection(s, a, 2)
    BY <1>9 DEF DmsPrepare, DmsIds
  <2>3. After(c, a, s, Set(s, "dms_req_data", [pin_id |-> 2]))
    BY <2>1, AfterSet DEF Owner
  <2> QED
    BY <1>9, <2>1, <2>2, <2>3, RequestGood, ExitGood, SetStructures DEF
       dms_set_pin_protection
<1>10. CASE c = "dms_change_pin1"
  <2>1. ToSend(c) /\ ~Owns(c)
    BY <1>10, Kinds DEF DmsCommands, DmsIds, Unsent
  <2>2. DmsPrepare(c, s, a) = dms_change_pin(s, 1)
    BY <1>10 DEF DmsPrepare, DmsIds
  <2>3. After(c, a, s, Set(s, "dms_req_data", [pin_id |-> 1]))
    BY <2>1, AfterSet DEF Owner
  <2> QED
    BY <1>10, <2>1, <2>2, <2>3, RequestGood, ExitGood, SetStructures DEF
       dms_change_pin
<1>11. CASE c = "dms_change_pin2"
  <2>1. ToSend(c) /\ ~Owns(c)
    BY <1>11, Kinds DEF DmsCommands, DmsIds, Unsent
  <2>2. DmsPrepare(c, s, a) = dms_change_pin(s, 2)
    BY <1>11 DEF DmsPrepare, DmsIds
  <2>3. After(c, a, s, Set(s, "dms_req_data", [pin_id |-> 2]))
    BY <2>1, AfterSet DEF Owner
  <2> QED
    BY <1>11, <2>1, <2>2, <2>3, RequestGood, ExitGood, SetStructures DEF
       dms_change_pin
<1>12. CASE c = "dms_unblock_pin1"
  <2>1. ToSend(c) /\ ~Owns(c)
    BY <1>12, Kinds DEF DmsCommands, DmsIds, Unsent
  <2>2. DmsPrepare(c, s, a) = dms_unblock_pin(s, 1)
    BY <1>12 DEF DmsPrepare, DmsIds
  <2> QED
    BY <1>12, <2>1, <2>2, RequestGood, ExitGood, AfterNothing DEF dms_unblock_pin
<1>13. CASE c = "dms_unblock_pin2"
  <2>1. ToSend(c) /\ ~Owns(c)
    BY <1>13, Kinds DEF DmsCommands, DmsIds, Unsent
  <2>2. DmsPrepare(c, s, a) = dms_unblock_pin(s, 2)
    BY <1>13 DEF DmsPrepare, DmsIds
  <2> QED
    BY <1>13, <2>1, <2>2, RequestGood, ExitGood, AfterNothing DEF dms_unblock_pin
<1>14. CASE c \in DmsIds
  <2>1. ToSend(c) /\ ~Owns(c)
    BY <1>14, Kinds DEF DmsCommands, DmsIds, Unsent
  <2>2. DmsPrepare(c, s, a) = dms_get_ids(s, c)
    BY <1>14 DEF DmsPrepare, DmsIds
  <2> QED
    BY <1>14, <2>1, <2>2, PlainGood DEF dms_get_ids
<1>15. CASE c = "dms_reset"
  <2>1. ToSend(c) /\ ~Owns(c)
    BY <1>15, Kinds DEF DmsCommands, DmsIds, Unsent
  <2>2. DmsPrepare(c, s, a) = dms_reset(s)
    BY <1>15 DEF DmsPrepare, DmsIds
  <2> QED
    BY <1>15, <2>1, <2>2, PlainGood DEF dms_reset
<1>16. CASE c = "dms_get_operating_mode"
  <2>1. ToSend(c) /\ ~Owns(c)
    BY <1>16, Kinds DEF DmsCommands, DmsIds, Unsent
  <2>2. DmsPrepare(c, s, a) = dms_get_operating_mode(s)
    BY <1>16 DEF DmsPrepare, DmsIds
  <2> QED
    BY <1>16, <2>1, <2>2, PlainGood DEF dms_get_operating_mode
<1>17. CASE c = "dms_set_operating_mode"
  <2>1. ToSend(c) /\ ~Owns(c)
    BY <1>17, Kinds DEF DmsCommands, DmsIds, Unsent
  <2>2. DmsPrepare(c, s, a) = dms_set_operating_mode(s, a)
    BY <1>17 DEF DmsPrepare, DmsIds
  <2> QED
    BY <1>17, <2>1, <2>2, RequestGood, ExitGood, AfterNothing DEF
       dms_set_operating_mode
<1>18. CASE c = "dms_set_fcc_authentication"
  <2>1. ToSend(c) /\ ~Owns(c)
    BY <1>18, Kinds DEF DmsCommands, DmsIds, Unsent
  <2>2. DmsPrepare(c, s, a) = dms_set_fcc_authentication(s)
    BY <1>18 DEF DmsPrepare, DmsIds
  <2> QED
    BY <1>18, <2>1, <2>2, PlainGood DEF dms_set_fcc_authentication
<1> QED
  BY <1>1, <1>2, <1>3, <1>4, <1>5, <1>6, <1>7, <1>8, <1>9, <1>10, <1>11, <1>12, <1>13,
     <1>14, <1>15, <1>16, <1>17, <1>18 DEF DmsOptions, DmsCommands, DmsIds

LEMMA NasGood ==
    ASSUME NEW s, Structures(s), NEW a, NEW c \in NasOptions \cup NasCommands
    PROVE  Good(c, a, s, NasPrepare(c, s, a))
<1>1. CASE c = "nas_do_set_system_selection"
  <2>1. ToSend(c) /\ ~Owns(c)
    BY <1>1, Kinds DEF NasCommands, Unsent
  <2>2. NasPrepare(c, s, a) = cmd_nas_do_set_system_selection(s)
    BY <1>1 DEF NasPrepare
  <2> QED
    BY <1>1, <2>1, <2>2, RequestGood, AfterNothing DEF cmd_nas_do_set_system_selection
<1>2. CASE c = "nas_set_network_modes"
  <2> DEFINE places == {<<"sel_req", "mode_preference">>}
               words == {a[i].word : i \in DOMAIN a}
               modes == IF "all" \in words THEN rat_modes ELSE words
  <2>1. OwnPlaces(c, places)
    BY <1>2 DEF OwnPlaces, Owner
  <2>2. Proper(places)
    BY DEF Proper
  <2>3. ~Owns(c)
    BY <1>2, Kinds
  <2> HIDE DEF places, words, modes
  <2>4. After(c, a, s, Put(s, places, modes))
    BY <1>2, <2>1, <2>2, <2>3, AfterPut DEF Gives
  <2>5. c \in Selects /\ c \notin Commands \ Unsent
    BY <1>2, Kinds DEF Selects
  <2>6. NasPrepare(c, s, a) = nas_set_network_modes(s, a)
    BY <1>2 DEF NasPrepare
  <2> QED
    BY <2>4, <2>5, <2>6, SelectsGood, ExitGood DEF nas_set_network_modes, places,
       words, modes
<1>3. CASE c = "nas_initiate_network_register"
  <2>1. ToSend(c) /\ ~Owns(c)
    BY <1>3, Kinds DEF NasCommands, Unsent
  <2>2. NasPrepare(c, s, a) = nas_initiate_network_register(s)
    BY <1>3 DEF NasPrepare
  <2> QED
    BY <1>3, <2>1, <2>2, RequestGood, AfterNothing DEF nas_initiate_network_register
<1>4. CASE c = "nas_set_plmn"
  <2>1. c \in Selects /\ c \notin Commands \ Unsent /\ ~Owns(c)
    BY <1>4, Kinds DEF Selects, NasCommands
  <2>2. ASSUME NEW mode PROVE After(c, a, s, Set(s, "sel_req", [mode |-> mode]))
    BY <1>4, <2>1, AfterSet DEF Owner
  <2>3. NasPrepare(c, s, a) = nas_set_plmn(s)
    BY <1>4 DEF NasPrepare
  <2> QED
    BY <2>1, <2>2, <2>3, SelectsGood, ExitGood, SetStructures DEF nas_set_plmn
<1>5. CASE c = "nas_get_plmn"
  <2>1. ToSend(c) /\ ~Owns(c)
    BY <1>5, Kinds DEF NasCommands, Unsent
  <2>2. NasPrepare(c, s, a) = nas_get_plmn(s)
    BY <1>5 DEF NasPrepare
  <2> QED
    BY <1>5, <2>1, <2>2, PlainGood DEF nas_get_plmn
<1>6. CASE c = "nas_set_mcc"
  <2> DEFINE places == {<<"plmn", "mcc">>}
  <2>1. OwnPlaces(c, places)
    BY <1>6 DEF OwnPlaces, Owner
  <2>2. Proper(places)
    BY DEF Proper
  <2>3. Suits(c, a) /\ IsNumber(a) => Meant(c, a) = Number(a, 16)
    BY <1>6 DEF Meant, Suits, IsNumber
  <2> HIDE DEF places
  <2>4. IsNumber(a) => After(c, a, s, Put(s, places, Number(a, 16)))
    BY <1>6, <2>1, <2>2, <2>3, AfterPut DEF Gives
  <2>5. Settles(c)
    BY <1>6, Kinds DEF NasOptions
  <2>6. NasPrepare(c, s, a) = nas_set_mcc(s, a)
    BY <1>6 DEF NasPrepare
  <2> QED
    BY <2>4, <2>5, <2>6, DoneGood, ExitGood DEF nas_set_mcc, places
<1>7. CASE c = "nas_set_mnc"
  <2> DEFINE places == {<<"plmn", "mnc">>}
  <2>1. OwnPlaces(c, places)
    BY <1>7 DEF OwnPlaces, Owner
  <2>2. Proper(places)
    BY DEF Proper
  <2>3. Suits(c, a) /\ IsNumber(a) => Meant(c, a) = Number(a, 16)
    BY <1>7 DEF Meant, Suits, IsNumber
  <2> HIDE DEF places
  <2>4. IsNumber(a) => After(c, a, s, Put(s, places, Number(a, 16)))
    BY <1>7, <2>1, <2>2, <2>3, AfterPut DEF Gives
  <2>5. Settles(c)
    BY <1>7, Kinds DEF NasOptions
  <2>6. NasPrepare(c, s, a) = nas_set_mnc(s, a)
    BY <1>7 DEF NasPrepare
  <2> QED
    BY <2>4, <2>5, <2>6, DoneGood, ExitGood DEF nas_set_mnc, places
<1>8. CASE c = "nas_network_scan"
  <2>1. ToSend(c) /\ ~Owns(c)
    BY <1>8, Kinds DEF NasCommands, Unsent
  <2>2. NasPrepare(c, s, a) = nas_network_scan(s)
    BY <1>8 DEF NasPrepare
  <2> QED
    BY <1>8, <2>1, <2>2, RequestGood, AfterNothing DEF nas_network_scan
<1>9. CASE c = "nas_get_signal_info"
  <2>1. ToSend(c) /\ ~Owns(c)
    BY <1>9, Kinds DEF NasCommands, Unsent
  <2>2. NasPrepare(c, s, a) = nas_get_signal_info(s)
    BY <1>9 DEF NasPrepare
  <2> QED
    BY <1>9, <2>1, <2>2, PlainGood DEF nas_get_signal_info
<1>10. CASE c = "nas_get_serving_system"
  <2>1. ToSend(c) /\ ~Owns(c)
    BY <1>10, Kinds DEF NasCommands, Unsent
  <2>2. NasPrepare(c, s, a) = nas_get_serving_system(s)
    BY <1>10 DEF NasPrepare
  <2> QED
    BY <1>10, <2>1, <2>2, PlainGood DEF nas_get_serving_system
<1>11. CASE c = "nas_set_network_preference"
  <2> DEFINE places == {<<"sel_req", "gsm_wcdma_acquisition_order_preference">>}
  <2>1. OwnPlaces(c, places)
    BY <1>11 DEF OwnPlaces, Owner
  <2>2. Proper(places)
    BY DEF Proper
  <2>3. Suits(c, a) => Meant(c, a) = (IF Is(a, {"gsm", "wcdma"}) THEN Word(a) ELSE "automatic")
    BY <1>11 DEF Meant, Suits, Word
  <2> HIDE DEF places
  <2>4. After(c, a, s, Put(s, places, (IF Is(a, {"gsm", "wcdma"}) THEN Word(a) ELSE "automatic")))
    BY <1>11, <2>1, <2>2, <2>3, AfterPut DEF Gives
  <2>5. c \in Selects /\ c \notin Commands \ Unsent
    BY <1>11, Kinds DEF Selects
  <2>6. NasPrepare(c, s, a) = nas_set_network_preference(s, a)
    BY <1>11 DEF NasPrepare
  <2> QED
    BY <2>4, <2>5, <2>6, SelectsGood DEF nas_set_network_preference, places
<1>12. CASE c = "nas_set_roaming"
  <2> DEFINE places == {<<"sel_req", "roaming_preference">>}
  <2>1. OwnPlaces(c, places)
    BY <1>12 DEF OwnPlaces, Owner
  <2>2. Proper(places)
    BY DEF Proper
  <2>3. Suits(c, a) /\ Is(a, {"any", "only", "off"}) => Meant(c, a) = Word(a)
    BY <1>12 DEF Meant, Suits, Word
  <2> HIDE DEF places
  <2>4. Is(a, {"any", "only", "off"}) => After(c, a, s, Put(s, places, Word(a)))
    BY <1>12, <2>1, <2>2, <2>3, AfterPut DEF Gives
  <2>5. c \in Selects /\ c \notin Commands \ Unsent
    BY <1>12, Kinds DEF Selects
  <2>6. NasPrepare(c, s, a) = nas_set_roaming(s, a)
    BY <1>12 DEF NasPrepare
  <2> QED
    BY <2>4, <2>5, <2>6, SelectsGood, ExitGood DEF nas_set_roaming, places
<1>13. CASE c = "nas_get_system_info"
  <2>1. ToSend(c) /\ ~Owns(c)
    BY <1>13, Kinds DEF NasCommands, Unsent
  <2>2. NasPrepare(c, s, a) = nas_get_system_info(s)
    BY <1>13 DEF NasPrepare
  <2> QED
    BY <1>13, <2>1, <2>2, PlainGood DEF nas_get_system_info
<1>14. CASE c = "nas_get_lte_cphy_ca_info"
  <2>1. ToSend(c) /\ ~Owns(c)
    BY <1>14, Kinds DEF NasCommands, Unsent
  <2>2. NasPrepare(c, s, a) = nas_get_lte_cphy_ca_info(s)
    BY <1>14 DEF NasPrepare
  <2> QED
    BY <1>14, <2>1, <2>2, PlainGood DEF nas_get_lte_cphy_ca_info
<1>15. CASE c = "nas_get_cell_location_info"
  <2>1. ToSend(c) /\ ~Owns(c)
    BY <1>15, Kinds DEF NasCommands, Unsent
  <2>2. NasPrepare(c, s, a) = nas_get_cell_location_info(s)
    BY <1>15 DEF NasPrepare
  <2> QED
    BY <1>15, <2>1, <2>2, PlainGood DEF nas_get_cell_location_info
<1>16. CASE c = "nas_get_tx_rx_info"
  <2>1. ToSend(c) /\ ~Owns(c)
    BY <1>16, Kinds DEF NasCommands, Unsent
  <2>2. NasPrepare(c, s, a) = nas_get_tx_rx_info(s, a)
    BY <1>16 DEF NasPrepare
  <2>3. After(c, a, s, Set(s, "tx_rx_req", [radio_interface |-> Word(a)]))
    BY <2>1, AfterSet DEF Owner
  <2> QED
    BY <1>16, <2>1, <2>2, <2>3, RequestGood, ExitGood, SetStructures DEF
       nas_get_tx_rx_info
<1> QED
  BY <1>1, <1>2, <1>3, <1>4, <1>5, <1>6, <1>7, <1>8, <1>9, <1>10, <1>11, <1>12, <1>13,
     <1>14, <1>15, <1>16 DEF NasOptions, NasCommands

LEMMA WmsGood ==
    ASSUME NEW s, Structures(s), NEW a, NEW c \in WmsOptions \cup WmsCommands
    PROVE  Good(c, a, s, WmsPrepare(c, s, a))
<1>1. CASE c = "wms_storage"
  <2> DEFINE places == {<<"lmreq", "storage_type">>, <<"dmreq", "memory_storage">>,
                          <<"gmreq", "storage_type">>}
  <2>1. OwnPlaces(c, places)
    BY <1>1 DEF OwnPlaces, Owner
  <2>2. Proper(places)
    BY DEF Proper
  <2>3. Meant(c, a) = "nv"
    BY <1>1 DEF Meant
  <2> HIDE DEF places
  <2>4. Gives(c, a) => After(c, a, s, Put(s, places, "nv"))
    BY <2>1, <2>2, <2>3, AfterPut
  <2>5. Settles(c)
    BY <1>1, Kinds DEF WmsOptions
  <2>6. ~Gives(c, a) => After(c, a, s, s)
    BY AfterNothing
  <2>7. WmsPrepare(c, s, a) = wms_storage(s, a) /\ (Gives(c, a) <=> ~Is(a, {"sim"}))
    BY <1>1 DEF WmsPrepare, Gives
  <2> QED
    BY <2>4, <2>5, <2>6, <2>7, DoneGood, ExitGood DEF wms_storage, places
<1>2. CASE c = "wms_list_messages"
  <2>1. ToSend(c) /\ ~Owns(c)
    BY <1>2, Kinds DEF WmsCommands, Unsent
  <2>2. WmsPrepare(c, s, a) = wms_list_messages(s)
    BY <1>2 DEF WmsPrepare
  <2> QED
    BY <1>2, <2>1, <2>2, RequestGood, AfterNothing DEF wms_list_messages
<1>3. CASE c = "wms_delete_message"
  <2>1. ToSend(c) /\ ~Owns(c)
    BY <1>3, Kinds DEF WmsCommands, Unsent
  <2>2. WmsPrepare(c, s, a) = wms_delete_message(s, a)
    BY <1>3 DEF WmsPrepare
  <2>3. After(c, a, s, Set(s, "dmreq", [memory_index |-> Number(a, 32)]))
    BY <2>1, AfterSet DEF Owner
  <2> QED
    BY <1>3, <2>1, <2>2, <2>3, RequestGood, ExitGood, SetStructures DEF
       wms_delete_message
<1>4. CASE c \in {"wms_get_message", "wms_get_raw_message"}
  <2>1. ToSend(c) /\ ~Owns(c)
    BY <1>4, Kinds DEF WmsCommands, Unsent
  <2>2. WmsPrepare(c, s, a) = wms_get_message(s, a, c)
    BY <1>4 DEF WmsPrepare
  <2>3. After(c, a, s, Set(s, "gmreq", [memory_index |-> Number(a, 32)]))
    BY <2>1, AfterSet DEF Owner
  <2> QED
    BY <1>4, <2>1, <2>2, <2>3, RequestGood, ExitGood, SetStructures DEF
       wms_get_message
<1>5. CASE c = "wms_send_message_smsc"
  <2> DEFINE places == {<<"_send", "smsc">>}
  <2>1. OwnPlaces(c, places)
    BY <1>5 DEF OwnPlaces, Owner
  <2>2. Proper(places)
    BY DEF Proper
  <2>3. Meant(c, a) = Chars(a)
    BY <1>5 DEF Meant
  <2> HIDE DEF places
  <2>4. After(c, a, s, Put(s, places, Chars(a)))
    BY <1>5, <2>1, <2>2, <2>3, AfterPut DEF Gives
  <2>5. Settles(c)
    BY <1>5, Kinds DEF WmsOptions
  <2>6. WmsPrepare(c, s, a) = wms_send_message_smsc(s, a)
    BY <1>5 DEF WmsPrepare
  <2> QED
    BY <2>4, <2>5, <2>6, DoneGood DEF wms_send_message_smsc, places
<1>6. CASE c = "wms_send_message_target"
  <2> DEFINE places == {<<"_send", "target">>}
  <2>1. OwnPlaces(c, places)
    BY <1>6 DEF OwnPlaces, Owner
  <2>2. Proper(places)
    BY DEF Proper
  <2>3. Meant(c, a) = Chars(a)
    BY <1>6 DEF Meant
  <2> HIDE DEF places
  <2>4. After(c, a, s, Put(s, places, Chars(a)))
    BY <1>6, <2>1, <2>2, <2>3, AfterPut DEF Gives
  <2>5. Settles(c)
    BY <1>6, Kinds DEF WmsOptions
  <2>6. WmsPrepare(c, s, a) = wms_send_message_target(s, a)
    BY <1>6 DEF WmsPrepare
  <2> QED
    BY <2>4, <2>5, <2>6, DoneGood DEF wms_send_message_target, places
<1>7. CASE c = "wms_send_message_flash"
  <2> DEFINE places == {<<"_send", "flash">>}
  <2>1. OwnPlaces(c, places)
    BY <1>7 DEF OwnPlaces, Owner
  <2>2. Proper(places)
    BY DEF Proper
  <2>3. Meant(c, a) = TRUE
    BY <1>7 DEF Meant
  <2> HIDE DEF places
  <2>4. After(c, a, s, Put(s, places, TRUE))
    BY <1>7, <2>1, <2>2, <2>3, AfterPut DEF Gives
  <2>5. Settles(c)
    BY <1>7, Kinds DEF WmsOptions
  <2>6. WmsPrepare(c, s, a) = wms_send_message_flash(s)
    BY <1>7 DEF WmsPrepare
  <2> QED
    BY <2>4, <2>5, <2>6, DoneGood DEF wms_send_message_flash, places
<1>8. CASE c = "wms_send_message"
  <2>1. ToSend(c) /\ ~Owns(c)
    BY <1>8, Kinds DEF WmsCommands, Unsent
  <2>2. WmsPrepare(c, s, a) = wms_send_message(s, a)
    BY <1>8 DEF WmsPrepare
  <2> QED
    BY <1>8, <2>1, <2>2, RequestGood, ExitGood, AfterNothing DEF wms_send_message
<1> QED
  BY <1>1, <1>2, <1>3, <1>4, <1>5, <1>6, <1>7, <1>8 DEF WmsOptions, WmsCommands

LEMMA WdaGood ==
    ASSUME NEW s, Structures(s), NEW a, NEW zero, NEW c \in WdaOptions \cup WdaCommands
    PROVE  Good(c, a, s, WdaPrepare(c, s, a, zero))
<1>1. CASE c = "wda_downlink_data_aggregation_protocol"
  <2> DEFINE places == {<<"wda_aggregation_info", "aggregation_protocol_dl">>}
  <2>1. OwnPlaces(c, places)
    BY <1>1 DEF OwnPlaces, Owner
  <2>2. Proper(places)
    BY DEF Proper
  <2>3. Suits(c, a) /\ Is(a, aggregation_protocols) => Meant(c, a) = Word(a)
    BY <1>1 DEF Meant, Suits, Word
  <2> HIDE DEF places
  <2>4. Is(a, aggregation_protocols) => After(c, a, s, Put(s, places, Word(a)))
    BY <1>1, <2>1, <2>2, <2>3, AfterPut DEF Gives
  <2>5. Settles(c)
    BY <1>1, Kinds DEF WdaOptions
  <2>6. WdaPrepare(c, s, a, zero) = wda_downlink_data_aggregation_protocol(s, a)
    BY <1>1 DEF WdaPrepare
  <2> QED
    BY <2>4, <2>5, <2>6, DoneGood, ExitGood DEF
       wda_downlink_data_aggregation_protocol, Aggregation, places
<1>2. CASE c = "wda_downlink_data_aggregation_max_datagrams"
  <2> DEFINE places == {<<"wda_aggregation_info", "max_datagrams_dl">>}
  <2>1. OwnPlaces(c, places)
    BY <1>2 DEF OwnPlaces, Owner
  <2>2. Proper(places)
    BY DEF Proper
  <2>3. Suits(c, a) => Meant(c, a) = Number(a, 32)
    BY <1>2 DEF Meant, Suits, Number
  <2> HIDE DEF places
  <2>4. After(c, a, s, Put(s, places, Number(a, 32)))
    BY <1>2, <2>1, <2>2, <2>3, AfterPut DEF Gives
  <2>5. Settles(c)
    BY <1>2, Kinds DEF WdaOptions
  <2>6. WdaPrepare(c, s, a, zero) = wda_downlink_data_aggregation_max_datagrams(s, a)
    BY <1>2 DEF WdaPrepare
  <2> QED
    BY <2>4, <2>5, <2>6, DoneGood DEF wda_downlink_data_aggregation_max_datagrams,
       Aggregation, places
<1>3. CASE c = "wda_downlink_data_aggregation_max_size"
  <2> DEFINE places == {<<"wda_aggregation_info", "max_size_dl">>}
  <2>1. OwnPlaces(c, places)
    BY <1>3 DEF OwnPlaces, Owner
  <2>2. Proper(places)
    BY DEF Proper
  <2>3. Suits(c, a) => Meant(c, a) = Number(a, 32)
    BY <1>3 DEF Meant, Suits, Number
  <2> HIDE DEF places
  <2>4. After(c, a, s, Put(s, places, Number(a, 32)))
    BY <1>3, <2>1, <2>2, <2>3, AfterPut DEF Gives
  <2>5. Settles(c)
    BY <1>3, Kinds DEF WdaOptions
  <2>6. WdaPrepare(c, s, a, zero) = wda_downlink_data_aggregation_max_size(s, a)
    BY <1>3 DEF WdaPrepare
  <2> QED
    BY <2>4, <2>5, <2>6, DoneGood DEF wda_downlink_data_aggregation_max_size,
       Aggregation, places
<1>4. CASE c = "wda_uplink_data_aggregation_protocol"
  <2> DEFINE places == {<<"wda_aggregation_info", "aggregation_protocol_ul">>}
  <2>1. OwnPlaces(c, places)
    BY <1>4 DEF OwnPlaces, Owner
  <2>2. Proper(places)
    BY DEF Proper
  <2>3. Suits(c, a) /\ Is(a, aggregation_protocols) => Meant(c, a) = Word(a)
    BY <1>4 DEF Meant, Suits, Word
  <2> HIDE DEF places
  <2>4. Is(a, aggregation_protocols) => After(c, a, s, Put(s, places, Word(a)))
    BY <1>4, <2>1, <2>2, <2>3, AfterPut DEF Gives
  <2>5. Settles(c)
    BY <1>4, Kinds DEF WdaOptions
  <2>6. WdaPrepare(c, s, a, zero) = wda_uplink_data_aggregation_protocol(s, a)
    BY <1>4 DEF WdaPrepare
  <2> QED
    BY <2>4, <2>5, <2>6, DoneGood, ExitGood DEF wda_uplink_data_aggregation_protocol,
       Aggregation, places
<1>5. CASE c = "wda_uplink_data_aggregation_max_datagrams"
  <2> DEFINE places == {<<"wda_aggregation_info", "max_datagrams_ul">>}
  <2>1. OwnPlaces(c, places)
    BY <1>5 DEF OwnPlaces, Owner
  <2>2. Proper(places)
    BY DEF Proper
  <2>3. Suits(c, a) => Meant(c, a) = Number(a, 32)
    BY <1>5 DEF Meant, Suits, Number
  <2> HIDE DEF places
  <2>4. After(c, a, s, Put(s, places, Number(a, 32)))
    BY <1>5, <2>1, <2>2, <2>3, AfterPut DEF Gives
  <2>5. Settles(c)
    BY <1>5, Kinds DEF WdaOptions
  <2>6. WdaPrepare(c, s, a, zero) = wda_uplink_data_aggregation_max_datagrams(s, a)
    BY <1>5 DEF WdaPrepare
  <2> QED
    BY <2>4, <2>5, <2>6, DoneGood DEF wda_uplink_data_aggregation_max_datagrams,
       Aggregation, places
<1>6. CASE c = "wda_uplink_data_aggregation_max_size"
  <2> DEFINE places == {<<"wda_aggregation_info", "max_size_ul">>}
  <2>1. OwnPlaces(c, places)
    BY <1>6 DEF OwnPlaces, Owner
  <2>2. Proper(places)
    BY DEF Proper
  <2>3. Suits(c, a) => Meant(c, a) = Number(a, 32)
    BY <1>6 DEF Meant, Suits, Number
  <2> HIDE DEF places
  <2>4. After(c, a, s, Put(s, places, Number(a, 32)))
    BY <1>6, <2>1, <2>2, <2>3, AfterPut DEF Gives
  <2>5. Settles(c)
    BY <1>6, Kinds DEF WdaOptions
  <2>6. WdaPrepare(c, s, a, zero) = wda_uplink_data_aggregation_max_size(s, a)
    BY <1>6 DEF WdaPrepare
  <2> QED
    BY <2>4, <2>5, <2>6, DoneGood DEF wda_uplink_data_aggregation_max_size,
       Aggregation, places
<1>7. CASE c = "wda_flow_control"
  <2> DEFINE places == {<<"wda_aggregation_info", "flow_control">>}
  <2>1. OwnPlaces(c, places)
    BY <1>7 DEF OwnPlaces, Owner
  <2>2. Proper(places)
    BY DEF Proper
  <2>3. Suits(c, a) => Meant(c, a) = Number(a, 32)
    BY <1>7 DEF Meant, Suits, Number
  <2> HIDE DEF places
  <2>4. After(c, a, s, Put(s, places, Number(a, 32)))
    BY <1>7, <2>1, <2>2, <2>3, AfterPut DEF Gives
  <2>5. Settles(c)
    BY <1>7, Kinds DEF WdaOptions
  <2>6. WdaPrepare(c, s, a, zero) = wda_flow_control(s, a)
    BY <1>7 DEF WdaPrepare
  <2> QED
    BY <2>4, <2>5, <2>6, DoneGood, ExitGood DEF wda_flow_control, Aggregation, places
<1>8. CASE c = "wda_set_data_format"
  <2>1. ToSend(c) /\ ~Owns(c)
    BY <1>8, Kinds DEF WdaCommands, Unsent
  <2>2. WdaPrepare(c, s, a, zero) = wda_set_data_format(s, a, zero)
    BY <1>8 DEF WdaPrepare
  <2> QED
    BY <1>8, <2>1, <2>2, RequestGood, ExitGood, AfterNothing DEF wda_set_data_format
<1>9. CASE c = "wda_get_data_format"
  <2>1. ToSend(c) /\ ~Owns(c)
    BY <1>9, Kinds DEF WdaCommands, Unsent
  <2>2. WdaPrepare(c, s, a, zero) = wda_get_data_format(s)
    BY <1>9 DEF WdaPrepare
  <2> QED
    BY <1>9, <2>1, <2>2, PlainGood DEF wda_get_data_format
<1> QED
  BY <1>1, <1>2, <1>3, <1>4, <1>5, <1>6, <1>7, <1>8, <1>9 DEF WdaOptions, WdaCommands

LEMMA UimGood ==
    ASSUME NEW s, Structures(s), NEW a, NEW c \in UimOptions \cup UimCommands
    PROVE  Good(c, a, s, UimPrepare(c, s, a))
<1>1. CASE c = "uim_slot"
  <2> DEFINE places == {<<"uim", "slot">>}
  <2>1. OwnPlaces(c, places)
    BY <1>1 DEF OwnPlaces, Owner
  <2>2. Proper(places)
    BY DEF Proper
  <2>3. Suits(c, a) /\ IsNumber(a) => Meant(c, a) = Number(a, 32)
    BY <1>1 DEF Meant, Suits, Number, IsNumber
  <2> HIDE DEF places
  <2>4. IsNumber(a) => After(c, a, s, Put(s, places, Number(a, 32)))
    BY <1>1, <2>1, <2>2, <2>3, AfterPut DEF Gives
  <2>5. Settles(c)
    BY <1>1, Kinds DEF UimOptions
  <2>6. UimPrepare(c, s, a) = uim_slot(s, a)
    BY <1>1 DEF UimPrepare
  <2> QED
    BY <2>4, <2>5, <2>6, DoneGood, ExitGood DEF uim_slot, places
<1>2. CASE c = "uim_channel_id"
  <2> DEFINE places == {<<"uim", "channel_id">>}
  <2>1. OwnPlaces(c, places)
    BY <1>2 DEF OwnPlaces, Owner
  <2>2. Proper(places)
    BY DEF Proper
  <2>3. Suits(c, a) /\ IsNumber(a) => Meant(c, a) = Number(a, 32)
    BY <1>2 DEF Meant, Suits, Number, IsNumber
  <2> HIDE DEF places
  <2>4. IsNumber(a) => After(c, a, s, Put(s, places, Number(a, 32)))
    BY <1>2, <2>1, <2>2, <2>3, AfterPut DEF Gives
  <2>5. Settles(c)
    BY <1>2, Kinds DEF UimOptions
  <2>6. UimPrepare(c, s, a) = uim_channel_id(s, a)
    BY <1>2 DEF UimPrepare
  <2> QED
    BY <2>4, <2>5, <2>6, DoneGood, ExitGood DEF uim_channel_id, places
<1>3. CASE c = "uim_verify_pin1"
  <2>1. ToSend(c) /\ ~Owns(c)
    BY <1>3, Kinds DEF UimCommands, Unsent
  <2>2. UimPrepare(c, s, a) = uim_verify_pin(s, a, 1)
    BY <1>3 DEF UimPrepare
  <2> QED
    BY <1>3, <2>1, <2>2, RequestGood, AfterNothing DEF uim_verify_pin
<1>4. CASE c = "uim_verify_pin2"
  <2>1. ToSend(c) /\ ~Owns(c)
    BY <1>4, Kinds DEF UimCommands, Unsent
  <2>2. UimPrepare(c, s, a) = uim_verify_pin(s, a, 2)
    BY <1>4 DEF UimPrepare
  <2> QED
    BY <1>4, <2>1, <2>2, RequestGood, AfterNothing DEF uim_verify_pin
<1>5. CASE c = "uim_get_sim_state"
  <2>1. ToSend(c) /\ ~Owns(c)
    BY <1>5, Kinds DEF UimCommands, Unsent
  <2>2. UimPrepare(c, s, a) = uim_get_sim_state(s)
    BY <1>5 DEF UimPrepare
  <2> QED
    BY <1>5, <2>1, <2>2, PlainGood DEF uim_get_sim_state
<1>6. CASE c = "uim_power_off"
  <2>1. ToSend(c) /\ ~Owns(c)
    BY <1>6, Kinds DEF UimCommands, Unsent
  <2>2. UimPrepare(c, s, a) = uim_power_off(s)
    BY <1>6 DEF UimPrepare
  <2> QED
    BY <1>6, <2>1, <2>2, RequestGood, ExitGood, AfterNothing DEF uim_power_off
<1>7. CASE c = "uim_power_on"
  <2>1. ToSend(c) /\ ~Owns(c)
    BY <1>7, Kinds DEF UimCommands, Unsent
  <2>2. UimPrepare(c, s, a) = uim_power_on(s)
    BY <1>7 DEF UimPrepare
  <2> QED
    BY <1>7, <2>1, <2>2, RequestGood, ExitGood, AfterNothing DEF uim_power_on
<1>8. CASE c = "uim_open_logical_channel"
  <2>1. ToSend(c) /\ ~Owns(c)
    BY <1>8, Kinds DEF UimCommands, Unsent
  <2>2. UimPrepare(c, s, a) = uim_open_logical_channel(s, a)
    BY <1>8 DEF UimPrepare
  <2> QED
    BY <1>8, <2>1, <2>2, RequestGood, ExitGood, AfterNothing DEF
       uim_open_logical_channel
<1>9. CASE c = "uim_close_logical_channel"
  <2>1. ToSend(c) /\ ~Owns(c)
    BY <1>9, Kinds DEF UimCommands, Unsent
  <2>2. UimPrepare(c, s, a) = uim_close_logical_channel(s)
    BY <1>9 DEF UimPrepare
  <2> QED
    BY <1>9, <2>1, <2>2, RequestGood, ExitGood, AfterNothing DEF
       uim_close_logical_channel
<1>10. CASE c = "uim_send_apdu"
  <2>1. ToSend(c) /\ ~Owns(c)
    BY <1>10, Kinds DEF UimCommands, Unsent
  <2>2. UimPrepare(c, s, a) = uim_send_apdu(s, a)
    BY <1>10 DEF UimPrepare
  <2> QED
    BY <1>10, <2>1, <2>2, RequestGood, ExitGood, AfterNothing DEF uim_send_apdu
<1> QED
  BY <1>1, <1>2, <1>3, <1>4, <1>5, <1>6, <1>7, <1>8, <1>9, <1>10 DEF UimOptions,
     UimCommands

-----------------------------------------------------------------------------
(* A command of the line.                                                   *)

(* Every command, whatever its argument and the structures it finds, is     *)
(* answered well.                                                           *)
LEMMA PrepareGood ==
    ASSUME NEW s, Structures(s), NEW item, item.cmd \in Options \cup Commands, NEW zero
    PROVE  Good(item.cmd, item.arg, s, Prepare(item, s, zero))
<1> DEFINE c == item.cmd
           r == Prepare(item, s, zero)
<1> SUFFICES Good(c, item.arg, s, r)
  OBVIOUS
<1>1. /\ c \in CtlCommands \cup {"set_client_id"} => r = CtlPrepare(c, s, item.arg)
      /\ c \in WdsOptions \cup WdsCommands => r = WdsPrepare(c, s, item.arg)
      /\ c \in DmsOptions \cup DmsCommands => r = DmsPrepare(c, s, item.arg)
      /\ c \in NasOptions \cup NasCommands => r = NasPrepare(c, s, item.arg)
      /\ c \in WmsOptions \cup WmsCommands => r = WmsPrepare(c, s, item.arg)
      /\ c \in WdaOptions \cup WdaCommands => r = WdaPrepare(c, s, item.arg, zero)
      /\ c \in UimOptions \cup UimCommands => r = UimPrepare(c, s, item.arg)
  BY DEF Prepare, CtlCommands, WdsOptions, WdsCommands, DmsOptions, DmsCommands, DmsIds,
         NasOptions, NasCommands, WmsOptions, WmsCommands, WdaOptions, WdaCommands, UimOptions,
         UimCommands
<1> HIDE DEF c, r
<1>2. \/ c \in CtlCommands \cup {"set_client_id"} \/ c \in WdsOptions \cup WdsCommands
      \/ c \in DmsOptions \cup DmsCommands \/ c \in NasOptions \cup NasCommands
      \/ c \in WmsOptions \cup WmsCommands \/ c \in WdaOptions \cup WdaCommands
      \/ c \in UimOptions \cup UimCommands
  BY DEF c, Options, Commands
<1> QED
  BY <1>1, <1>2, CtlGood, WdsGood, DmsGood, NasGood, WmsGood, WdaGood, UimGood

(* What a request carries of the option h for the command c: the field a    *)
(* structure holds of it, and nothing if it holds none, but for the channel  *)
(* that is sent as 255 then.                                                *)
Carries(s, carries, h) ==
    \E q \in DOMAIN Owner : \E f \in DOMAIN Owner[q] :
        /\ Owner[q][f] = h[1]
        /\ f = h[2] \/ q = "dms_req_data"
        /\ f \in DOMAIN s[q] => h[2] \in DOMAIN carries /\ carries[h[2]] = s[q][f]
        /\ f \notin DOMAIN s[q] /\ h[2] \in DOMAIN carries =>
              h[2] = "channel_id" /\ carries[h[2]] = 255

LEMMA CarriesStructure ==
    ASSUME NEW s, NEW carries, NEW q \in DOMAIN Owner, NEW h,
           h[2] \in DOMAIN Owner[q], Owner[q][h[2]] = h[1],
           h[2] \in DOMAIN s[q] => h[2] \in DOMAIN carries /\ carries[h[2]] = s[q][h[2]],
           h[2] \notin DOMAIN s[q] /\ h[2] \in DOMAIN carries =>
              h[2] = "channel_id" /\ carries[h[2]] = 255
    PROVE  Carries(s, carries, h)
BY DEF Carries

(* The connections and profiles carry what their options say.               *)
LEMMA WdsCarries ==
    ASSUME NEW s, Structures(s), NEW a, NEW c, c \in WdsCommands,
           WdsPrepare(c, s, a).res = "request", NEW h \in HelpOptions(c)
    PROVE  Carries(s, WdsPrepare(c, s, a).request.carries, h)
<1> DEFINE r == WdsPrepare(c, s, a)
<1>1. CASE c = "wds_start_network"
  <2> DEFINE q == "wds_sn_req"
  <2>1. r = wds_start_network(s)
    BY <1>1 DEF WdsPrepare
  <2>2. h[2] \in DOMAIN Owner[q] /\ Owner[q][h[2]] = h[1]
    BY <1>1 DEF Owner, HelpOptions
  <2>3. q \in DOMAIN Owner /\ q \in DOMAIN s
    BY DEF Owner, Structures
  <2>4. r.request.carries = s[q]
    BY <2>1 DEF wds_start_network, Request, Exit, Done
  <2> QED
    BY <2>2, <2>3, <2>4, CarriesStructure
<1>2. CASE c = "wds_stop_network"
  <2> DEFINE q == "wds_stn_req"
  <2>1. r = wds_stop_network(s, a)
    BY <1>2 DEF WdsPrepare
  <2>2. h[2] \in DOMAIN Owner[q] /\ Owner[q][h[2]] = h[1]
    BY <1>2 DEF Owner, HelpOptions
  <2>3. q \in DOMAIN Owner /\ q \in DOMAIN s
    BY DEF Owner, Structures
  <2> DEFINE fields == [packet_data_handle |-> Number(a, 32)]
  <2>4. h[2] \notin DOMAIN fields
    BY <1>2 DEF HelpOptions
  <2>5. r.request.carries = Set(s, q, fields)[q]
    BY <2>1 DEF wds_stop_network, Request, Exit, Done
  <2> HIDE DEF fields
  <2>6. Keeps(s, Set(s, q, fields), q, h[2])
    BY <2>3, <2>4, SetField
  <2> QED
    BY <2>2, <2>3, <2>5, <2>6, CarriesStructure DEF Keeps
<1>3. CASE c = "wds_create_profile"
  <2> DEFINE q == "wds_cp_req"
  <2>1. r = wds_create_profile(s, a)
    BY <1>3 DEF WdsPrepare
  <2>2. h[2] \in DOMAIN Owner[q] /\ Owner[q][h[2]] = h[1]
    BY <1>3 DEF Owner, HelpOptions
  <2>3. q \in DOMAIN Owner /\ q \in DOMAIN s
    BY DEF Owner, Structures
  <2> DEFINE fields == [profile_type |-> Word(a)]
  <2>4. h[2] \notin DOMAIN fields
    BY <1>3 DEF HelpOptions
  <2>5. r.request.carries = Set(s, q, fields)[q]
    BY <2>1 DEF wds_create_profile, Request, Exit, Done
  <2> HIDE DEF fields
  <2>6. Keeps(s, Set(s, q, fields), q, h[2])
    BY <2>3, <2>4, SetField
  <2> QED
    BY <2>2, <2>3, <2>5, <2>6, CarriesStructure DEF Keeps
<1>4. CASE c = "wds_modify_profile"
  <2> DEFINE q == "wds_mp_req"
  <2>1. r = wds_modify_profile(s, a)
    BY <1>4 DEF WdsPrepare
  <2>2. h[2] \in DOMAIN Owner[q] /\ Owner[q][h[2]] = h[1]
    BY <1>4 DEF Owner, HelpOptions
  <2>3. q \in DOMAIN Owner /\ q \in DOMAIN s
    BY DEF Owner, Structures
  <2> DEFINE fields == Profile(a)
  <2>4. h[2] \notin DOMAIN fields
    BY <1>4 DEF HelpOptions, Profile
  <2>5. r.request.carries = Set(s, q, fields)[q]
    BY <2>1 DEF wds_modify_profile, Request, Exit, Done
  <2> HIDE DEF fields
  <2>6. Keeps(s, Set(s, q, fields), q, h[2])
    BY <2>3, <2>4, SetField
  <2> QED
    BY <2>2, <2>3, <2>5, <2>6, CarriesStructure DEF Keeps
<1>5. CASE c = "wds_bind_mux"
  <2> DEFINE q == "wds_endpoint_info"
  <2>1. r = wds_bind_mux(s, a)
    BY <1>5 DEF WdsPrepare
  <2>2. h[2] \in DOMAIN Owner[q] /\ Owner[q][h[2]] = h[1]
    BY <1>5 DEF Owner, HelpOptions
  <2>3. q \in DOMAIN Owner /\ q \in DOMAIN s
    BY DEF Owner, Structures
  <2> DEFINE fields == [mux_id |-> Number(a, 8), client_type |-> "tethered"]
  <2>4. h[2] \notin DOMAIN fields
    BY <1>5 DEF HelpOptions
  <2>5. r.request.carries = Onto(fields, s[q])
    BY <2>1 DEF wds_bind_mux, Request, Exit, Done
  <2> HIDE DEF fields
  <2> QED
    BY <2>2, <2>3, <2>4, <2>5, CarriesStructure DEF Onto
<1>6. CASE c \notin {"wds_start_network", "wds_stop_network", "wds_create_profile",
   "wds_modify_profile", "wds_bind_mux"}
  BY <1>6 DEF HelpOptions, WdsCommands
<1> QED
  BY <1>1, <1>2, <1>3, <1>4, <1>5, <1>6

(* The PINs go where the help says.                                         *)
LEMMA DmsCarries ==
    ASSUME NEW s, Structures(s), NEW a, NEW c, c \in DmsCommands,
           DmsPrepare(c, s, a).res = "request", NEW h \in HelpOptions(c)
    PROVE  Carries(s, DmsPrepare(c, s, a).request.carries, h)
<1> DEFINE r == DmsPrepare(c, s, a)
<1>1. CASE c \in {"dms_set_pin1_protection", "dms_set_pin2_protection"}
  <2>1. PICK id : r = dms_set_pin_protection(s, a, id)
    BY <1>1 DEF DmsPrepare, DmsIds
  <2>2. \A f : f # "pin_id" => Keeps(s, Set(s, "dms_req_data", [pin_id |-> id]), "dms_req_data", f)
    BY SetField DEF Structures, Owner
  <2>3. /\ "pin" \in DOMAIN s.dms_req_data /\ "pin" \in DOMAIN r.request.carries
        /\ r.request.carries.pin = s.dms_req_data.pin
    BY <2>1, <2>2 DEF dms_set_pin_protection, Request, Exit, Done, Keeps
  <2>4. h \in {<<"dms_set_pin", "pin">>}
    BY <1>1 DEF HelpOptions
  <2> QED
    BY <2>3, <2>4 DEF Carries, Owner
<1>2. CASE c \in {"dms_change_pin1", "dms_change_pin2"}
  <2>1. PICK id : r = dms_change_pin(s, id)
    BY <1>2 DEF DmsPrepare, DmsIds
  <2>2. \A f : f # "pin_id" => Keeps(s, Set(s, "dms_req_data", [pin_id |-> id]), "dms_req_data", f)
    BY SetField DEF Structures, Owner
  <2>3. /\ "pin" \in DOMAIN s.dms_req_data /\ "old_pin" \in DOMAIN r.request.carries
        /\ r.request.carries.old_pin = s.dms_req_data.pin
        /\ "new_pin" \in DOMAIN s.dms_req_data /\ "new_pin" \in DOMAIN r.request.carries
        /\ r.request.carries.new_pin = s.dms_req_data.new_pin
    BY <2>1, <2>2 DEF dms_change_pin, Request, Exit, Done, Keeps
  <2>4. h \in {<<"dms_set_pin", "old_pin">>, <<"dms_set_new_pin", "new_pin">>}
    BY <1>2 DEF HelpOptions
  <2> QED
    BY <2>3, <2>4 DEF Carries, Owner
<1>3. CASE c \in {"dms_unblock_pin1", "dms_unblock_pin2"}
  <2>1. PICK id : r = dms_unblock_pin(s, id)
    BY <1>3 DEF DmsPrepare, DmsIds
  <2>2. Structures(s)
    OBVIOUS
  <2>3. /\ "puk" \in DOMAIN s.dms_req_data /\ "puk" \in DOMAIN r.request.carries
        /\ r.request.carries.puk = s.dms_req_data.puk
        /\ "new_pin" \in DOMAIN s.dms_req_data /\ "new_pin" \in DOMAIN r.request.carries
        /\ r.request.carries.new_pin = s.dms_req_data.new_pin
    BY <2>1, <2>2 DEF dms_unblock_pin, Request, Exit, Done, Keeps
  <2>4. h \in {<<"dms_set_puk", "puk">>, <<"dms_set_new_pin", "new_pin">>}
    BY <1>3 DEF HelpOptions
  <2> QED
    BY <2>3, <2>4 DEF Carries, Owner
<1>4. CASE c \notin {"dms_set_pin1_protection", "dms_set_pin2_protection",
   "dms_change_pin1", "dms_change_pin2", "dms_unblock_pin1", "dms_unblock_pin2"}
  BY <1>4 DEF HelpOptions, DmsCommands, DmsIds
<1> QED
  BY <1>1, <1>2, <1>3, <1>4

(* The data format carries the aggregation.                                 *)
LEMMA WdaCarries ==
    ASSUME NEW s, Structures(s), NEW a, NEW zero, NEW c, c \in WdaCommands,
           WdaPrepare(c, s, a, zero).res = "request", NEW h \in HelpOptions(c)
    PROVE  Carries(s, WdaPrepare(c, s, a, zero).request.carries, h)
<1> DEFINE r == WdaPrepare(c, s, a, zero)
<1>1. CASE c = "wda_set_data_format"
  <2> DEFINE q == "wda_aggregation_info"
  <2>1. r = wda_set_data_format(s, a, zero)
    BY <1>1 DEF WdaPrepare
  <2>2. h[2] \in DOMAIN Owner[q] /\ Owner[q][h[2]] = h[1]
    BY <1>1 DEF Owner, HelpOptions
  <2>3. q \in DOMAIN Owner /\ q \in DOMAIN s
    BY DEF Owner, Structures
  <2> DEFINE fields == [link_layer_protocol |->
                           IF Is(a, link_modes) THEN Word(a) ELSE "undefined",
                       downlink_minimum_padding |-> 0]
  <2>4. h[2] \notin DOMAIN fields
    BY <1>1 DEF HelpOptions
  <2>5. r.request.carries = Onto(fields, s[q])
    BY <2>1 DEF wda_set_data_format, Request, Exit, Done
  <2> HIDE DEF fields
  <2> QED
    BY <2>2, <2>3, <2>4, <2>5, CarriesStructure DEF Onto
<1>2. CASE c \notin {"wda_set_data_format"}
  BY <1>2 DEF HelpOptions, WdaCommands
<1> QED
  BY <1>1, <1>2

(* The SIM commands carry the slot and the channel.                         *)
LEMMA UimCarries ==
    ASSUME NEW s, Structures(s), NEW a, NEW c, c \in UimCommands,
           UimPrepare(c, s, a).res = "request", NEW h \in HelpOptions(c)
    PROVE  Carries(s, UimPrepare(c, s, a).request.carries, h)
<1> DEFINE r == UimPrepare(c, s, a)
<1>1. CASE c \in {"uim_power_off", "uim_power_on"}
  <2>1. r = IF HasSlot(s) THEN Request(s, c, [slot |-> s.uim.slot]) ELSE Exit(s)
    BY <1>1 DEF UimPrepare, uim_power_off, uim_power_on
  <2>2. "slot" \in DOMAIN s.uim /\ r.request.carries = [slot |-> s.uim.slot]
    BY <2>1 DEF HasSlot, Request, Exit, Done
  <2>3. h = <<"uim_slot", "slot">>
    BY <1>1 DEF HelpOptions
  <2> QED
    BY <2>2, <2>3, CarriesStructure DEF Owner
<1>2. CASE c = "uim_open_logical_channel"
  <2>1. r = uim_open_logical_channel(s, a)
    BY <1>2 DEF UimPrepare
  <2>2. "slot" \in DOMAIN s.uim /\ r.request.carries = [slot |-> s.uim.slot, aid |-> a]
    BY <2>1 DEF uim_open_logical_channel, HasSlot, Request, Exit, Done
  <2>3. h = <<"uim_slot", "slot">>
    BY <1>2 DEF HelpOptions
  <2> QED
    BY <2>2, <2>3, CarriesStructure DEF Owner
<1>3. CASE c = "uim_close_logical_channel"
  <2> DEFINE q == "uim"
  <2>1. r = uim_close_logical_channel(s)
    BY <1>3 DEF UimPrepare
  <2>2. h[2] \in DOMAIN Owner[q] /\ Owner[q][h[2]] = h[1]
    BY <1>3 DEF Owner, HelpOptions
  <2>3. q \in DOMAIN Owner /\ q \in DOMAIN s
    BY DEF Owner, Structures
  <2>4. r.request.carries = s[q]
    BY <2>1 DEF uim_close_logical_channel, Request, Exit, Done
  <2> QED
    BY <2>2, <2>3, <2>4, CarriesStructure
<1>4. CASE c = "uim_send_apdu"
  <2>1. r = uim_send_apdu(s, a)
    BY <1>4 DEF UimPrepare
  <2>2. /\ "slot" \in DOMAIN s.uim
        /\ r.request.carries = Onto([apdu |-> a], Onto(s.uim, [channel_id |-> 255]))
    BY <2>1 DEF uim_send_apdu, HasSlot, Request, Exit, Done
  <2>3. h \in {<<"uim_slot", "slot">>, <<"uim_channel_id", "channel_id">>}
    BY <1>4 DEF HelpOptions
  <2>4. "uim" \in DOMAIN Owner /\ h[2] \in DOMAIN Owner["uim"] /\ Owner["uim"][h[2]] = h[1]
    BY <2>3 DEF Owner
  <2>5. /\ h[2] \in DOMAIN s["uim"] => /\ h[2] \in DOMAIN r.request.carries
                                      /\ r.request.carries[h[2]] = s["uim"][h[2]]
        /\ h[2] \notin DOMAIN s["uim"] => h[2] = "channel_id" /\ r.request.carries[h[2]] = 255
    BY <2>2, <2>3 DEF Onto
  <2> HIDE DEF r
  <2>6. Carries(s, r.request.carries, h)
    BY <2>4, <2>5 DEF Carries
  <2> QED
    BY <2>6 DEF r
<1>5. CASE c \notin {"uim_power_off", "uim_power_on", "uim_open_logical_channel",
   "uim_close_logical_channel", "uim_send_apdu"}
  BY <1>5 DEF HelpOptions, UimCommands
<1> QED
  BY <1>1, <1>2, <1>3, <1>4, <1>5

(* The commands on messages carry the storage that was named.               *)
LEMMA WmsCarries ==
    ASSUME NEW s, Structures(s), NEW a, NEW c, c \in WmsCommands,
           WmsPrepare(c, s, a).res = "request", NEW h \in HelpOptions(c)
    PROVE  Carries(s, WmsPrepare(c, s, a).request.carries, h)
<1> DEFINE r == WmsPrepare(c, s, a)
<1>1. {"lmreq", "dmreq", "gmreq"} \subseteq DOMAIN s
  BY DEF Owner, Structures
<1>2. CASE c = "wms_list_messages"
  <2>1. r.request.carries = s["lmreq"]
    BY <1>2 DEF WmsPrepare, wms_list_messages, Request, Done
  <2>2. "lmreq" \in DOMAIN Owner /\ h[2] \in DOMAIN Owner["lmreq"] /\ Owner["lmreq"][h[2]] = h[1]
    BY <1>2 DEF Owner, HelpOptions
  <2> QED
    BY <2>1, <2>2, CarriesStructure
<1>3. CASE c = "wms_delete_message"
  <2> DEFINE fields == [memory_index |-> Number(a, 32)]
             t == Set(s, "dmreq", fields)
  <2>1. r.request.carries = t["dmreq"]
    BY <1>3 DEF WmsPrepare, wms_delete_message, Request, Exit, Done
  <2>2. "dmreq" \in DOMAIN Owner /\ h[2] \in DOMAIN Owner["dmreq"] /\ Owner["dmreq"][h[2]] = h[1]
          /\ h[2] \notin DOMAIN fields
    BY <1>3 DEF Owner, HelpOptions
  <2> HIDE DEF fields
  <2>3. Keeps(s, t, "dmreq", h[2])
    BY <1>1, <2>2, SetField
  <2> QED
    BY <2>1, <2>2, <2>3, CarriesStructure DEF Keeps
<1>4. CASE c \in {"wms_get_message", "wms_get_raw_message"}
  <2> DEFINE fields == [memory_index |-> Number(a, 32)]
             t == Set(s, "gmreq", fields)
  <2>1. r.request.carries = t["gmreq"]
    BY <1>4 DEF WmsPrepare, wms_get_message, Request, Exit, Done
  <2>2. "gmreq" \in DOMAIN Owner /\ h[2] \in DOMAIN Owner["gmreq"] /\ Owner["gmreq"][h[2]] = h[1]
          /\ h[2] \notin DOMAIN fields
    BY <1>4 DEF Owner, HelpOptions
  <2> HIDE DEF fields
  <2>3. Keeps(s, t, "gmreq", h[2])
    BY <1>1, <2>2, SetField
  <2> QED
    BY <2>1, <2>2, <2>3, CarriesStructure DEF Keeps
<1>5. CASE c = "wms_send_message"
  BY <1>5 DEF HelpOptions
<1> QED
  BY <1>2, <1>3, <1>4, <1>5 DEF WmsCommands

(* The system selection carries what the options before it say.             *)
LEMMA SelectionCarries ==
    ASSUME NEW s, DOMAIN s.plmn \subseteq {"mcc", "mnc"},
           NEW h \in HelpOptions("nas_do_set_system_selection")
    PROVE  Carries(s, cmd_nas_do_set_system_selection(s).request.carries, h)
<1> DEFINE carries == cmd_nas_do_set_system_selection(s).request.carries
<1>1. carries = IF "mode" \in DOMAIN s.sel_req
                THEN Onto(s.sel_req, Onto(s.plmn, [mcc |-> 0, mnc |-> 0]))
                ELSE s.sel_req
  BY DEF cmd_nas_do_set_system_selection, Request, Done
<1>2. h \in {<<"nas_set_network_preference", "gsm_wcdma_acquisition_order_preference">>,
             <<"nas_set_roaming", "roaming_preference">>}
  BY DEF HelpOptions
<1>3. /\ "sel_req" \in DOMAIN Owner
      /\ h[2] \in DOMAIN Owner["sel_req"]
      /\ Owner["sel_req"][h[2]] = h[1]
  BY <1>2 DEF Owner
<1>4. h[2] \notin DOMAIN Onto(s.plmn, [mcc |-> 0, mnc |-> 0])
  BY <1>2 DEF Onto
<1>5. /\ h[2] \in DOMAIN carries <=> h[2] \in DOMAIN s["sel_req"]
      /\ h[2] \in DOMAIN s["sel_req"] => carries[h[2]] = s["sel_req"][h[2]]
  BY <1>1, <1>4 DEF Onto
<1> HIDE DEF carries
<1>6. Carries(s, carries, h)
  BY <1>3, <1>5, CarriesStructure
<1> QED
  BY <1>6 DEF carries


(* Every request carries the options the help lists for its command.        *)
LEMMA PrepareCarries ==
    ASSUME NEW s, Structures(s), DOMAIN s.plmn \subseteq {"mcc", "mnc"},
           NEW item, item.cmd \in Commands, NEW zero,
           Prepare(item, s, zero).res = "request", NEW h \in HelpOptions(item.cmd)
    PROVE  Carries(s, Prepare(item, s, zero).request.carries, h)
<1> DEFINE c == item.cmd
           r == Prepare(item, s, zero)
<1>1. /\ c \in WdsCommands => r = WdsPrepare(c, s, item.arg)
      /\ c \in DmsCommands => r = DmsPrepare(c, s, item.arg)
      /\ c = "nas_do_set_system_selection" => r = cmd_nas_do_set_system_selection(s)
      /\ c \in WmsCommands => r = WmsPrepare(c, s, item.arg)
      /\ c \in WdaCommands => r = WdaPrepare(c, s, item.arg, zero)
      /\ c \in UimCommands => r = UimPrepare(c, s, item.arg)
  BY DEF Prepare, CtlCommands, WdsOptions, WdsCommands, DmsOptions, DmsCommands, DmsIds,
         NasOptions, NasCommands, WmsOptions, WmsCommands, WdaOptions, WdaCommands, UimOptions,
         UimCommands, NasPrepare
<1>2. \/ c \in WdsCommands \/ c \in DmsCommands \/ c = "nas_do_set_system_selection"
      \/ c \in WmsCommands \/ c \in WdaCommands \/ c \in UimCommands
  BY DEF HelpOptions, WdsCommands, DmsCommands, WmsCommands, WdaCommands, UimCommands
<1> HIDE DEF c, r
<1>3. h \in HelpOptions(c) /\ r.res = "request"
  BY DEF c, r
<1>4. Carries(s, r.request.carries, h)
  BY <1>1, <1>2, <1>3, WdsCarries, DmsCarries, WmsCarries, WdaCarries, UimCarries,
     SelectionCarries
<1> QED
  BY <1>4 DEF r

(* A field that holds something from the beginning holds what is sent of an *)
(* option that was not given.                                               *)
LEMMA StaticDefaults ==
    /\ DOMAIN Owner \subseteq DOMAIN Static0
    /\ \A q \in DOMAIN Owner : \A f \in DOMAIN Owner[q] :
          f \in DOMAIN Static0[q] => /\ f \in DOMAIN Default
                                     /\ Static0[q][f] = Default[f]
                                     /\ q # "dms_req_data"
    /\ Static0["sel_req"] = <<>> /\ Static0["plmn"] = <<>> /\ Static0["_send"] = <<>>
<1>1. /\ Static0["wds_sn_req"] = [authentication_preference |-> "both"]
      /\ Static0["wds_stn_req"] = <<>>
      /\ Static0["wds_mp_req"] = [profile_type |-> "3gpp", profile_index |-> 1,
                                  apn_disabled_flag |-> FALSE]
      /\ Static0["wds_cp_req"] = [profile_type |-> "3gpp", apn_disabled_flag |-> FALSE]
      /\ Static0["wds_endpoint_info"] = [type |-> "undefined", iface |-> 0]
      /\ Static0["dms_req_data"] = <<>>
      /\ Static0["sel_req"] = <<>>
      /\ Static0["plmn"] = <<>>
      /\ Static0["wda_aggregation_info"] = WdaStatic.wda_aggregation_info
      /\ Static0["uim"] = <<>>
      /\ Static0["lmreq"] = WmsStatic.lmreq
      /\ Static0["dmreq"] = WmsStatic.dmreq
      /\ Static0["gmreq"] = WmsStatic.gmreq
      /\ Static0["_send"] = <<>>
  BY DEF Static0, Onto, WdsStatic, WdsEndpoint, DmsStatic, NasStatic, WmsStatic, WdaStatic,
         UimStatic
<1>2. DOMAIN Owner \subseteq DOMAIN Static0
  BY DEF Owner, Static0, Onto, WdsStatic, WdsEndpoint, DmsStatic, NasStatic, WmsStatic,
         WdaStatic, UimStatic
<1>3. ASSUME NEW q \in DOMAIN Owner, NEW f \in DOMAIN Owner[q], f \in DOMAIN Static0[q]
      PROVE  f \in DOMAIN Default /\ Static0[q][f] = Default[f] /\ q # "dms_req_data"
  BY <1>1, <1>3 DEF Owner, Default, WdaStatic, WmsStatic
<1> QED
  BY <1>1, <1>2, <1>3

(* --set-plmn takes the network whose numbers are there, both of them.      *)
ChosenIn(s) ==
    IF "mcc" \in DOMAIN s["plmn"] /\ s["plmn"]["mcc"] # 0
    THEN "mnc" \in DOMAIN s["plmn"] /\ s["sel_req"]["mode"] = "manual"
    ELSE s["sel_req"]["mode"] = "automatic"

LEMMA SetPlmnChooses ==
    ASSUME NEW s, Structures(s), DOMAIN s["plmn"] \subseteq {"mcc", "mnc"},
           nas_set_plmn(s).res # "exit"
    PROVE  /\ "mode" \in DOMAIN nas_set_plmn(s).static["sel_req"]
           /\ ChosenIn(nas_set_plmn(s).static)
<1> DEFINE r == nas_set_plmn(s)
           t(mode) == Set(s, "sel_req", [mode |-> mode])
           named == "mcc" \in DOMAIN s["plmn"] /\ s["plmn"]["mcc"] # 0
<1>1. "sel_req" \in DOMAIN s /\ "plmn" \in DOMAIN s
  BY PlacesOfStructures DEF Structures
<1>2. ASSUME NEW mode
      PROVE  /\ "mode" \in DOMAIN t(mode)["sel_req"] /\ t(mode)["sel_req"]["mode"] = mode
             /\ t(mode)["plmn"] = s["plmn"]
  <2> DEFINE fields == [mode |-> mode]
  <2>1. "mode" \in DOMAIN fields /\ fields["mode"] = mode
    OBVIOUS
  <2> HIDE DEF fields
  <2>2. /\ "mode" \in DOMAIN Set(s, "sel_req", fields)["sel_req"]
        /\ Set(s, "sel_req", fields)["sel_req"]["mode"] = mode
    BY <1>1, <2>1, SetField
  <2>3. Set(s, "sel_req", fields)["plmn"] = s["plmn"]
    BY <1>1 DEF Set
  <2> QED
    BY <2>2, <2>3 DEF fields
<1>3. r.static = IF named THEN t("manual") ELSE t("automatic")
  BY DEF nas_set_plmn, do_sel_network, Done, Exit
<1>4. named => "mnc" \in DOMAIN s["plmn"]
  <2>1. ~(DOMAIN s.plmn = {"mcc"} /\ s.plmn.mcc # 0)
    BY DEF nas_set_plmn, Done, Exit
  <2> QED
    BY <2>1
<1> HIDE DEF r, t
<1>5. "mode" \in DOMAIN r.static["sel_req"] /\ ChosenIn(r.static)
  BY <1>2, <1>3, <1>4 DEF ChosenIn
<1> QED
  BY <1>5 DEF r

(* A country or a network that is taken was a number.                       *)
LEMMA NumbersMeant ==
    ASSUME NEW s, NEW item, item.cmd \in {"nas_set_mcc", "nas_set_mnc"}, NEW zero,
           Prepare(item, s, zero).res # "exit"
    PROVE  Meant(item.cmd, item.arg) = item.arg[1].num
<1>1. Prepare(item, s, zero) = IF item.cmd = "nas_set_mcc" THEN nas_set_mcc(s, item.arg)
                                                           ELSE nas_set_mnc(s, item.arg)
  BY DEF Prepare, CtlCommands, WdsOptions, WdsCommands, DmsOptions, DmsCommands, DmsIds,
         NasOptions, NasCommands, WmsOptions, WmsCommands, WdaOptions, WdaCommands, UimOptions,
         UimCommands, NasPrepare
<1>2. item.arg[1].clean
  BY <1>1 DEF nas_set_mcc, nas_set_mnc, IsNumber, Exit, Done
<1> QED
  BY <1>2 DEF Meant

-----------------------------------------------------------------------------
(* The run of a line.                                                       *)

IsSequence(s) == Len(s) \in Nat /\ s = [i \in 1 .. Len(s) |-> s[i]]

(* Whether the item k of the line has been taken and is over with: the      *)
(* options in the first pass, the commands in the second.                   *)
Handled(k) ==
    IF IsOption(line[k]) THEN pass = "commands" \/ (pass = "options" /\ k < at)
                         ELSE pass = "commands" /\ k < at
Given(c) == {k \in OfLine(c) : Handled(k)}
IsLast(j, S) == j \in S /\ \A k \in S : k <= j
Served == {sent[i].for : i \in DOMAIN sent}

(* The line holds items of the program; the selection, which is added, is   *)
(* its end.                                                                 *)
LineInv ==
    /\ IsSequence(line)
    /\ \A k \in DOMAIN line :
          /\ line[k] = Item(line[k].cmd, line[k].arg)
          /\ line[k].cmd \in Options \cup Commands
          /\ AsTheHelpAsks => Suits(line[k].cmd, line[k].arg)
          /\ line[k].cmd = SystemSelection.cmd =>
                line[k] = SystemSelection /\ k = Len(line) /\ pass # "typing"

(* Of the items of one kind that give something there is a last.            *)
LastInv ==
    \A i \in DOMAIN line :
        Gives(line[i].cmd, line[i].arg) =>
            \E j \in DOMAIN line : IsLast(j, OfLine(line[i].cmd))

PassInv ==
    /\ pass \in {"typing", "options", "commands", "over"}
    /\ at \in 1 .. Len(line) + 1
    /\ DOMAIN static = DOMAIN Static0
    /\ ok \in BOOLEAN
    /\ waiting \in BOOLEAN
    /\ pass # "over" => ok
    /\ waiting => pass = "commands" /\ at \in DOMAIN line
    /\ waiting => line[at].cmd \in Commands \ Unsent
    /\ pass = "typing" => at = 1 /\ static = Static0
    /\ shown.fields # {} => ok

(* The requests are for the commands handled so far, one each, in order.    *)
SentInv ==
    /\ IsSequence(sent)
    /\ \A i \in DOMAIN sent : sent[i].for \in Requested /\ sent[i].name = line[sent[i].for].cmd
    /\ \A i, j \in DOMAIN sent : i < j => sent[i].for < sent[j].for
    /\ \A i \in DOMAIN sent : \A k \in Requested : k < sent[i].for => k \in Served
    /\ pass \in {"typing", "options"} => sent = <<>>
    /\ pass = "commands" => /\ \A i \in DOMAIN sent : sent[i].for < at \/ (waiting /\ sent[i].for = at)
                            /\ \A k \in Requested : k < at => k \in Served
    /\ waiting => sent # <<>> /\ sent[Len(sent)].for = at
    /\ pass = "over" /\ ok => Requested \subseteq Served

(* The selection is on the line once an item that selects was handled.      *)
SelectInv ==
    /\ pass # "over" => ((\E k \in DOMAIN line : line[k].cmd \in Selects /\ Handled(k)) <=> Selecting)
    /\ pass = "over" /\ ok => ((\E k \in DOMAIN line : line[k].cmd \in Selects) <=> Selecting)

(* Each field holds what its option was last given, or what it held at      *)
(* first; a mode of selection is there once --set-plmn was handled, and     *)
(* goes with the numbers given.                                             *)
StaticInv ==
    pass # "over" =>
      /\ DOMAIN static["plmn"] \subseteq {"mcc", "mnc"}
      /\ "mcc" \notin DOMAIN static["sel_req"] /\ "mnc" \notin DOMAIN static["sel_req"]
      /\ "mode" \in DOMAIN static["sel_req"] <=> Given("nas_set_plmn") # {}
      /\ "mode" \in DOMAIN static["sel_req"] => pass = "commands" /\ ChosenIn(static)
      /\ \A q \in DOMAIN Owner : \A f \in DOMAIN Owner[q] :
            LET c == Owner[q][f]
            IN  \/ Given(c) = {} /\ Keeps(Static0, static, q, f)
                \/ \E j \in Given(c) :
                      /\ IsLast(j, Given(c))
                      /\ f \in DOMAIN static[q]
                      /\ AsTheHelpAsks => static[q][f] = Meant(c, line[j].arg)
                      /\ q = "plmn" => Meant(c, line[j].arg) = line[j].arg[1].num

CommandsInv ==
    LineInv /\ LastInv /\ PassInv /\ SentInv /\ SelectInv /\ StaticInv
      /\ (AsTheHelpAsks => CarriesTheOptionsGiven /\ SelectsTheNetworkGiven)

(* Appending to a sequence.                                                 *)
LEMMA Appended ==
    ASSUME NEW s, IsSequence(s), NEW e
    PROVE  /\ IsSequence(Append(s, e))
           /\ DOMAIN s = 1 .. Len(s)
           /\ Len(Append(s, e)) = Len(s) + 1
           /\ DOMAIN Append(s, e) = 1 .. Len(s) + 1
           /\ \A i \in 1 .. Len(s) : Append(s, e)[i] = s[i]
           /\ Append(s, e)[Len(s) + 1] = e
<1> DEFINE S == {s[i] : i \in 1 .. Len(s)} \cup {e}
<1>1. s \in Seq(S) /\ e \in S
  <2>1. \A i \in 1 .. Len(s) : s[i] \in S
    OBVIOUS
  <2>2. [i \in 1 .. Len(s) |-> s[i]] \in Seq(S)
    BY <2>1 DEF IsSequence
  <2> QED
    BY <2>2 DEF IsSequence
<1> HIDE DEF S
<1>2. /\ Append(s, e) \in Seq(S)
      /\ Len(Append(s, e)) = Len(s) + 1
      /\ \A i \in 1 .. Len(s) : Append(s, e)[i] = s[i]
      /\ Append(s, e)[Len(s) + 1] = e
  BY <1>1
<1>3. IsSequence(Append(s, e)) /\ DOMAIN Append(s, e) = 1 .. Len(s) + 1
  <2> DEFINE t == Append(s, e)
  <2>1. t \in [1 .. Len(t) -> S] /\ Len(t) \in Nat
    BY <1>2, LenProperties
  <2>2. t = [i \in 1 .. Len(t) |-> t[i]]
    BY <2>1
  <2> QED
    BY <1>2, <2>1, <2>2 DEF IsSequence
<1> QED
  BY <1>1, <1>2, <1>3

LEMMA SequenceDomain ==
    ASSUME NEW s, IsSequence(s)
    PROVE  Len(s) \in Nat /\ DOMAIN s = 1 .. Len(s) /\ (s # <<>> <=> Len(s) > 0)
BY DEF IsSequence

(* What an item is to the passes.                                           *)
LEMMA SelectionIsSent ==
    /\ SystemSelection.cmd = "nas_do_set_system_selection"
    /\ SystemSelection = Item(SystemSelection.cmd, SystemSelection.arg)
    /\ SystemSelection.cmd \in Commands \ Unsent
    /\ SystemSelection.cmd \notin Options \cup Selects
    /\ Suits(SystemSelection.cmd, SystemSelection.arg)
<1>1. SystemSelection.cmd = "nas_do_set_system_selection"
  BY DEF SystemSelection, Item
<1>2. SystemSelection = Item(SystemSelection.cmd, SystemSelection.arg)
  BY DEF SystemSelection, Item
<1>3. SystemSelection.cmd \in Commands \ Unsent
  BY <1>1 DEF Commands, NasCommands, Unsent
<1>4. Suits(SystemSelection.cmd, SystemSelection.arg)
  BY <1>1 DEF Suits
<1> QED
  BY <1>1, <1>2, <1>3, <1>4, Kinds

(* What a step of the run may do to the line.                               *)
LEMMA LineGrows ==
    ASSUME LineInv, PassInv, [Next]_vars
    PROVE  /\ LineInv'
           /\ \A k \in DOMAIN line : k \in DOMAIN line' /\ line'[k] = line[k]
           /\ \/ line' = line
              \/ pass = "typing" /\ UNCHANGED <<pass, at, static, sent, waiting, ok, shown>>
              \/ /\ line' = Append(line, SystemSelection) /\ ~Selecting
                 /\ pass \in {"options", "commands"} /\ at \in DOMAIN line
<1> USE DEF LineInv
<1>1. CASE line' = line /\ (pass' = "typing" => pass = "typing")
  BY <1>1
<1>2. CASE \E F \in Families : \E item \in F.items : Type(item)
  <2>1. PICK F \in Families : \E item \in F.items : Type(item)
    BY <1>2
  <2>2. PICK item \in F.items : Type(item)
    BY <2>1
  <2>3. PICK G \in Families : item \in G.items
    BY <2>2
  <2>4. item = Item(item.cmd, item.arg) /\ item.cmd \in Options \cup Commands
          /\ item.cmd # SystemSelection.cmd /\ (AsTheHelpAsks => Suits(item.cmd, item.arg))
    BY <2>3, FamiliesAssumption DEF AsTheHelpAsks
  <2>5. pass = "typing" /\ line' = Append(line, item)
          /\ UNCHANGED <<pass, at, static, sent, waiting, ok, shown>>
    BY <2>2 DEF Type
  <2>6. \A k \in DOMAIN line : line[k].cmd # SystemSelection.cmd
    BY <2>5
  <2> QED
    BY <2>4, <2>5, <2>6, Appended
<1>3. CASE \E zero \in BOOLEAN : RunCommand(zero)
  <2>1. PICK zero \in BOOLEAN : RunCommand(zero)
    BY <1>3
  <2>2. /\ line' = WithSelection(Prepare(Current, static, zero).selects)
        /\ pass \in {"options", "commands"} /\ at <= Len(line)
        /\ pass' # "typing"
    BY <2>1 DEF RunCommand, Running, Stop
  <2>3. at \in DOMAIN line
    BY <2>2, SequenceDomain DEF PassInv
  <2>4. CASE line' = line
    BY <2>2, <2>4
  <2>5. CASE line' # line
    <3>1. line' = Append(line, SystemSelection) /\ ~Selecting
      BY <2>2, <2>5 DEF WithSelection
    <3>2. \A k \in DOMAIN line : line[k].cmd # SystemSelection.cmd
      BY <3>1 DEF Selecting
    <3> QED
      BY <2>2, <2>3, <3>1, <3>2, Appended, SelectionIsSent
  <2> QED
    BY <2>4, <2>5
<1>4. CASE UNCHANGED vars
  BY <1>4, <1>1 DEF vars
<1>5. ASSUME Open \/ Skip \/ ConnectFails \/ EndOfPass \/ RequestFails \/ Over
               \/ \E t \in Answers(Current.cmd), message \in Messages : Answered(t, message)
      PROVE  line' = line /\ (pass' = "typing" => pass = "typing")
  BY <1>5 DEF Open, Skip, ConnectFails, EndOfPass, RequestFails, Over, Answered, Stop, vars
<1> QED
  BY <1>1, <1>2, <1>3, <1>4, <1>5 DEF Next

(* A command that is run finds the structures it needs, and is answered      *)
(* well.                                                                    *)
LEMMA RunsWell ==
    ASSUME LineInv, PassInv, NEW zero, RunCommand(zero)
    PROVE  /\ at \in DOMAIN line /\ at \in 1 .. Len(line)
           /\ pass \in {"options", "commands"} /\ ~waiting
           /\ Current.cmd \in Options <=> pass = "options"
           /\ Current.cmd \in Options \cup Commands
           /\ Structures(static)
           /\ Good(Current.cmd, Current.arg, static, Prepare(Current, static, zero))
<1>1. /\ at <= Len(line) /\ pass \in {"options", "commands"} /\ ~waiting
      /\ Current.cmd \in Options <=> pass = "options"
  BY DEF RunCommand, Running, InThisPass, IsOption
<1>2. at \in 1 .. Len(line) /\ at \in DOMAIN line
  BY <1>1, SequenceDomain DEF PassInv, LineInv
<1>3. Current.cmd \in Options \cup Commands
  BY <1>2 DEF Current, LineInv
<1>4. Structures(static)
  BY StaticDefaults DEF PassInv, Structures
<1> QED
  BY <1>1, <1>2, <1>3, <1>4, PrepareGood

(* Whether a step is over with the item the pass is at.                     *)
Takes == at' = at + 1 /\ at \in DOMAIN line /\ InThisPass

(* How a step may end that does not end the run.                            *)
Moves(zero) == RunCommand(zero) /\ Prepare(Current, static, zero).res = "done"
Sends(zero) == RunCommand(zero) /\ Prepare(Current, static, zero).res = "request"

(* A step of the run, by what it does to the item the pass is at.           *)
LEMMA StepOfTheRun ==
    ASSUME LineInv, PassInv, Next, pass' # "over"
    PROVE  \/ \E F \in Families : \E item \in F.items : Type(item)
           \/ Open
           \/ Skip
           \/ \E zero : Moves(zero)
           \/ \E zero : Sends(zero)
           \/ EndOfPass
           \/ \E t, message : Answered(t, message)
<1>1. ASSUME NEW zero, RunCommand(zero)
      PROVE  Moves(zero) \/ Sends(zero)
  BY <1>1 DEF RunCommand, Stop, Moves, Sends
<1>2. ~ConnectFails /\ ~RequestFails /\ ~Over
  BY DEF ConnectFails, RequestFails, Over, Stop, vars
<1> QED
  BY <1>1, <1>2 DEF Next

LEMMA MovesOn ==
    ASSUME LineInv, PassInv, NEW zero, Moves(zero)
    PROVE  /\ at' = at + 1 /\ shown' = NothingShown
           /\ UNCHANGED <<pass, sent, waiting, ok>>
           /\ static' = Prepare(Current, static, zero).static
           /\ line' = WithSelection(Current.cmd \in Selects)
           /\ Current.cmd \notin Commands \ Unsent
           /\ After(Current.cmd, Current.arg, static, static')
<1> DEFINE r == Prepare(Current, static, zero)
<1>1. /\ at' = at + 1 /\ shown' = NothingShown /\ UNCHANGED <<pass, sent, waiting, ok>>
      /\ static' = r.static /\ line' = WithSelection(r.selects)
  BY DEF Moves, RunCommand
<1>2. Good(Current.cmd, Current.arg, static, r) /\ r.res = "done"
  BY RunsWell DEF Moves
<1> HIDE DEF r
<1>3. /\ r.selects <=> Current.cmd \in Selects
      /\ r.selects \in BOOLEAN
      /\ Current.cmd \notin Commands \ Unsent
      /\ After(Current.cmd, Current.arg, static, r.static)
  BY <1>2 DEF Good
<1>4. WithSelection(r.selects) = WithSelection(Current.cmd \in Selects)
  BY <1>3 DEF WithSelection
<1> QED
  BY <1>1, <1>3, <1>4 DEF r

LEMMA SendsOn ==
    ASSUME LineInv, PassInv, NEW zero, Sends(zero)
    PROVE  /\ pass = "commands" /\ waiting' = TRUE /\ shown' = NothingShown
           /\ UNCHANGED <<line, pass, at, ok>>
           /\ sent' = Append(sent,
                        [name |-> Current.cmd,
                         carries |-> Prepare(Current, static, zero).request.carries,
                         for |-> at])
           /\ Current.cmd \in Commands \ Unsent
           /\ After(Current.cmd, Current.arg, static, static')
<1> DEFINE r == Prepare(Current, static, zero)
<1>1. /\ waiting' = TRUE /\ shown' = NothingShown /\ UNCHANGED <<pass, at, ok>>
      /\ static' = r.static /\ line' = WithSelection(r.selects)
      /\ sent' = Append(sent, [name |-> r.request.name, carries |-> r.request.carries,
                               for |-> at])
  BY DEF Sends, RunCommand
<1>2. Good(Current.cmd, Current.arg, static, r) /\ r.res = "request"
  BY RunsWell DEF Sends
<1> HIDE DEF r
<1>3. /\ r.selects <=> Current.cmd \in Selects
      /\ r.request.name = Current.cmd
      /\ Current.cmd \in Commands \ Unsent
      /\ After(Current.cmd, Current.arg, static, r.static)
  BY <1>2 DEF Good
<1>4. ~r.selects /\ Current.cmd \notin Options
  BY <1>3, Kinds
<1>5. line' = line
  BY <1>1, <1>4 DEF WithSelection
<1>6. pass = "commands"
  BY <1>4, RunsWell DEF Sends
<1> QED
  BY <1>1, <1>3, <1>5, <1>6 DEF r

(* What is over with after a step: what was before, and the item the step   *)
(* takes, which comes after the others of its kind.                         *)
LEMMA HandledStep ==
    ASSUME LineInv, PassInv, Next, pass' # "over"
    PROVE  \A k \in DOMAIN line' :
              Handled(k)' <=> k \in DOMAIN line /\ (Handled(k) \/ (Takes /\ k = at))
<1>1. /\ Len(line) \in Nat /\ DOMAIN line = 1 .. Len(line)
      /\ Len(line') \in Nat /\ DOMAIN line' = 1 .. Len(line')
      /\ at \in 1 .. Len(line) + 1
      /\ \A k \in DOMAIN line : k \in DOMAIN line' /\ line'[k] = line[k]
  BY LineGrows, SequenceDomain DEF LineInv, PassInv
<1> SUFFICES ASSUME NEW k \in DOMAIN line'
             PROVE  Handled(k)' <=> k \in DOMAIN line /\ (Handled(k) \/ (Takes /\ k = at))
  OBVIOUS
<1>2. Handled(k)' <=> IF line'[k].cmd \in Options
                      THEN pass' = "commands" \/ (pass' = "options" /\ k < at')
                      ELSE pass' = "commands" /\ k < at'
  BY DEF Handled, IsOption
<1>3. Handled(k) <=> IF line[k].cmd \in Options
                     THEN pass = "commands" \/ (pass = "options" /\ k < at)
                     ELSE pass = "commands" /\ k < at
  BY DEF Handled, IsOption
<1>4. Takes <=> /\ at' = at + 1 /\ at \in DOMAIN line
                /\ line[at].cmd \in Options <=> pass = "options"
  BY DEF Takes, InThisPass, Current, IsOption
<1>5. CASE \E F \in Families : \E item \in F.items : Type(item)
  <2>1. pass = "typing" /\ pass' = pass /\ at' = at
    BY <1>5 DEF Type
  <2> QED
    BY <1>1, <1>2, <1>3, <1>4, <2>1
<1>6. CASE Open
  <2>1. pass = "typing" /\ pass' = "options" /\ line' = line /\ at' = at /\ at = 1
    BY <1>6 DEF Open, PassInv
  <2> QED
    BY <1>1, <1>2, <1>3, <1>4, <2>1
<1>7. CASE Skip
  <2>1. /\ pass \in {"options", "commands"} /\ at <= Len(line) /\ at' = at + 1
        /\ ~(line[at].cmd \in Options <=> pass = "options")
        /\ line' = line /\ pass' = pass
    BY <1>7 DEF Skip, Running, InThisPass, Current, IsOption
  <2> QED
    BY <1>1, <1>2, <1>3, <1>4, <2>1
<1>8. CASE \E zero : Moves(zero)
  <2>1. PICK zero : Moves(zero)
    BY <1>8
  <2>2. /\ pass \in {"options", "commands"} /\ at' = at + 1 /\ pass' = pass /\ at \in 1 .. Len(line)
        /\ line[at].cmd \in Options <=> pass = "options"
    BY <2>1, MovesOn, RunsWell DEF Moves, Current
  <2>3. CASE k \in DOMAIN line
    BY <1>1, <1>2, <1>3, <1>4, <2>2, <2>3
  <2>4. CASE k \notin DOMAIN line
    <3>1. line' = Append(line, SystemSelection)
      BY <2>1, <2>4, MovesOn DEF WithSelection
    <3>2. line'[k] = SystemSelection /\ k = Len(line) + 1
      BY <1>1, <2>4, <3>1, Appended DEF LineInv
    <3>3. line'[k].cmd \notin Options
      BY <3>2, SelectionIsSent
    <3> QED
      BY <1>1, <1>2, <2>2, <2>4, <3>2, <3>3
  <2> QED
    BY <2>3, <2>4
<1>9. CASE \E zero : Sends(zero)
  <2>1. line' = line /\ pass' = pass /\ at' = at
    BY <1>9, SendsOn
  <2> QED
    BY <1>1, <1>2, <1>3, <1>4, <2>1
<1>10. CASE EndOfPass
  <2>1. /\ pass = "options" /\ pass' = "commands" /\ at' = 1 /\ line' = line
        /\ at > Len(line)
    BY <1>10 DEF EndOfPass, Running
  <2> QED
    BY <1>1, <1>2, <1>3, <1>4, <2>1
<1>11. CASE \E t, message : Answered(t, message)
  <2>1. waiting /\ at' = at + 1 /\ line' = line /\ pass' = pass
    BY <1>11 DEF Answered
  <2>2. pass = "commands" /\ at \in DOMAIN line /\ line[at].cmd \notin Options
    BY <2>1, Kinds DEF PassInv
  <2> QED
    BY <1>1, <1>2, <1>3, <1>4, <2>1, <2>2
<1> QED
  BY <1>5, <1>6, <1>7, <1>8, <1>9, <1>10, <1>11, StepOfTheRun

(* Every step keeps the passes in order.                                    *)
LEMMA PassStep ==
    ASSUME LineInv, PassInv, Next
    PROVE  PassInv'
<1>1. /\ Len(line) \in Nat /\ DOMAIN line = 1 .. Len(line)
      /\ Len(line') \in Nat /\ DOMAIN line' = 1 .. Len(line')
      /\ \A k \in DOMAIN line : k \in DOMAIN line' /\ line'[k] = line[k]
  BY LineGrows, SequenceDomain DEF LineInv
<1>2. at \in 1 .. Len(line') + 1 /\ (waiting => at \in DOMAIN line')
  <2>1. Len(line) <= Len(line')
    <3>1. CASE Len(line) = 0
      BY <1>1, <3>1
    <3>2. CASE Len(line) > 0
      <4>1. Len(line) \in DOMAIN line
        BY <1>1, <3>2
      <4>2. Len(line) \in DOMAIN line'
        BY <1>1, <4>1
      <4> QED
        BY <1>1, <4>2
    <3> QED
      BY <1>1, <3>1, <3>2
  <2> QED
    BY <1>1, <2>1 DEF PassInv
<1>3. NothingShown.fields = {}
  BY DEF NothingShown
<1>4. ASSUME Stop, at' = at, DOMAIN static' = DOMAIN static
      PROVE  PassInv'
  BY <1>2, <1>3, <1>4 DEF PassInv, Stop
<1>5. CASE pass' = "over" /\ ~ok'
  <2>1. CASE ConnectFails \/ RequestFails
    BY <1>4, <2>1 DEF ConnectFails, RequestFails
  <2>2. CASE \E zero : RunCommand(zero)
    <3>1. PICK zero : RunCommand(zero)
      BY <2>2
    <3>2. Good(Current.cmd, Current.arg, static, Prepare(Current, static, zero))
      BY <3>1, RunsWell
    <3>3. Stop /\ at' = at /\ static' = Prepare(Current, static, zero).static
      BY <1>5, <3>1 DEF RunCommand, Running, PassInv
    <3> QED
      BY <1>4, <3>2, <3>3 DEF Good
  <2>3. CASE Over
    <3>1. UNCHANGED vars
      BY <2>3 DEF Over
    <3> QED
      BY <3>1, <1>1 DEF PassInv, vars
  <2>4. ~(\E F \in Families : \E item \in F.items : Type(item)) /\ ~Open /\ ~Skip /\ ~EndOfPass
          /\ ~(\E t, message : Answered(t, message))
    BY <1>5 DEF Type, Open, Skip, EndOfPass, Answered, PassInv, Running
  <2> QED
    BY <2>1, <2>2, <2>3, <2>4 DEF Next
<1>6. CASE pass' = "over" /\ ok'
  <2>1. CASE EndOfPass
    BY <1>1, <1>6, <2>1 DEF EndOfPass, Running, PassInv
  <2>2. CASE Over
    <3>1. UNCHANGED vars
      BY <2>2 DEF Over
    <3> QED
      BY <3>1, <1>1 DEF PassInv, vars
  <2>3. ASSUME NEW zero, RunCommand(zero)
        PROVE  FALSE
    BY <1>6, <2>3 DEF RunCommand, Running, Stop
  <2>4. ~(\E F \in Families : \E item \in F.items : Type(item)) /\ ~Open /\ ~Skip
          /\ ~ConnectFails /\ ~RequestFails
          /\ ~(\E t, message : Answered(t, message))
    BY <1>6 DEF Type, Open, Skip, ConnectFails, RequestFails, Stop, Answered, PassInv, Running
  <2> QED
    BY <2>1, <2>2, <2>3, <2>4 DEF Next
<1>7. CASE pass' # "over"
  <2>1. CASE \E F \in Families : \E item \in F.items : Type(item)
    BY <1>1, <1>2, <2>1 DEF Type, PassInv
  <2>2. CASE Open
    BY <1>1, <2>2 DEF Open, PassInv
  <2>3. CASE Skip
    BY <1>1, <2>3 DEF Skip, Running, PassInv
  <2>4. CASE \E zero : Moves(zero)
    <3>1. PICK zero : Moves(zero)
      BY <2>4
    <3>2. /\ at' = at + 1 /\ shown' = NothingShown /\ UNCHANGED <<pass, sent, waiting, ok>>
          /\ DOMAIN static' = DOMAIN static /\ at \in 1 .. Len(line)
          /\ pass \in {"options", "commands"} /\ ~waiting
      BY <3>1, MovesOn, RunsWell DEF Moves, After
    <3> QED
      BY <1>1, <1>3, <3>2 DEF PassInv
  <2>5. CASE \E zero : Sends(zero)
    <3>1. PICK zero : Sends(zero)
      BY <2>5
    <3>2. /\ pass = "commands" /\ waiting' = TRUE /\ shown' = NothingShown
          /\ UNCHANGED <<line, pass, at, ok>>
          /\ DOMAIN static' = DOMAIN static /\ at \in DOMAIN line
          /\ line[at].cmd \in Commands \ Unsent
      BY <3>1, SendsOn, RunsWell DEF Sends, After, Current
    <3> QED
      BY <1>3, <3>2 DEF PassInv
  <2>6. CASE EndOfPass
    BY <1>1, <1>7, <2>6 DEF EndOfPass, Running, PassInv
  <2>7. CASE \E t, message : Answered(t, message)
    <3>1. /\ waiting /\ waiting' = FALSE /\ at' = at + 1 /\ UNCHANGED <<line, pass, static, ok>>
      BY <2>7 DEF Answered
    <3>2. pass = "commands" /\ at \in 1 .. Len(line) /\ ok
      BY <1>1, <3>1 DEF PassInv
    <3>3. pass' = "commands" /\ at' \in 1 .. Len(line') + 1 /\ ok' /\ ok' \in BOOLEAN
      BY <1>1, <3>1, <3>2 DEF PassInv
    <3> QED
      BY <3>1, <3>3 DEF PassInv
  <2> QED
    BY <1>7, <2>1, <2>2, <2>3, <2>4, <2>5, <2>6, <2>7, StepOfTheRun
<1>8. ok' \in BOOLEAN
  BY <1>5 DEF Next, Type, Open, Skip, ConnectFails, RequestFails, Stop, RunCommand, EndOfPass,
         Answered, Over, vars, PassInv
<1> QED
  BY <1>5, <1>6, <1>7, <1>8

(* The items of one kind that are over with after a step.                   *)
LEMMA GivenStep ==
    ASSUME LineInv, PassInv, Next, pass' # "over"
    PROVE  /\ \A c : c # SystemSelection.cmd =>
                 Given(c)' = IF Takes /\ Current.cmd = c /\ Gives(c, Current.arg)
                             THEN Given(c) \cup {at} ELSE Given(c)
           /\ Takes => \A k \in Given(Current.cmd) : k < at
           /\ \A c : Given(c) \subseteq DOMAIN line
<1>1. /\ \A k \in DOMAIN line : k \in DOMAIN line' /\ line'[k] = line[k]
      /\ \A k \in DOMAIN line' : Handled(k)' <=> k \in DOMAIN line /\ (Handled(k) \/ (Takes /\ k = at))
  BY LineGrows, HandledStep
<1>2. ASSUME NEW c
      PROVE  Given(c)' = IF Takes /\ Current.cmd = c /\ Gives(c, Current.arg)
                         THEN Given(c) \cup {at} ELSE Given(c)
  <2> DEFINE gives(item) == item.cmd = c /\ Gives(c, item.arg)
  <2>1. Given(c)' = {k \in DOMAIN line' : gives(line'[k]) /\ Handled(k)'}
    BY DEF Given, OfLine, Gives
  <2>3. Given(c) = {k \in DOMAIN line : gives(line[k]) /\ Handled(k)}
    BY DEF Given, OfLine
  <2>5. gives(Current) <=> Current.cmd = c /\ Gives(c, Current.arg)
    OBVIOUS
  <2> HIDE DEF gives
  <2>2. Given(c)' = {k \in DOMAIN line : gives(line[k]) /\ (Handled(k) \/ (Takes /\ k = at))}
    BY <1>1, <2>1
  <2>4. Takes => at \in DOMAIN line /\ Current = line[at]
    BY DEF Takes, Current
  <2> QED
    BY <2>2, <2>3, <2>4, <2>5
<1>3. ASSUME Takes, NEW k \in Given(Current.cmd)
      PROVE  k < at
  BY <1>3 DEF Given, OfLine, Handled, Takes, InThisPass, IsOption, Current
<1>4. \A c : Given(c) \subseteq DOMAIN line
  BY DEF Given, OfLine
<1> QED
  BY <1>2, <1>3, <1>4

(* Every step keeps the requests in the order of the line.                  *)
LEMMA SentStep ==
    ASSUME LineInv, PassInv, SentInv, Next
    PROVE  SentInv'
<1>1. /\ Len(line) \in Nat /\ DOMAIN line = 1 .. Len(line)
      /\ Len(line') \in Nat /\ DOMAIN line' = 1 .. Len(line')
      /\ \A k \in DOMAIN line : k \in DOMAIN line' /\ line'[k] = line[k]
  BY LineGrows, SequenceDomain DEF LineInv
<1>2. /\ Len(sent) \in Nat /\ DOMAIN sent = 1 .. Len(sent)
      /\ \A i \in DOMAIN sent : sent[i].for \in 1 .. Len(line)
  BY <1>1, SequenceDomain DEF SentInv, Requested
<1>3. Requested = {k \in DOMAIN line : line[k].cmd \in Commands \ Unsent}
  BY DEF Requested
<1>4. Requested' = {k \in DOMAIN line' : line'[k].cmd \in Commands \ Unsent}
  BY DEF Requested
<1>5. ASSUME sent' = sent,
             \/ pass' = "over" /\ ~ok' /\ ~waiting'
             \/ pass' = "commands" /\ ~waiting' /\ line' = line
                  /\ (\A i \in DOMAIN sent : sent[i].for < at')
                  /\ (\A k \in Requested : k < at' => k \in Served)
             \/ pass' \in {"typing", "options"} /\ sent = <<>> /\ ~waiting'
             \/ pass' = "over" /\ line' = line /\ ~waiting' /\ Requested \subseteq Served
      PROVE  SentInv'
  <2>1. Served' = Served
    BY <1>5 DEF Served
  <2>2. \A i \in DOMAIN sent : \A k \in Requested' : k < sent[i].for => k \in Requested
    BY <1>1, <1>2, <1>3, <1>4
  <2>3. Requested \subseteq Requested'
    BY <1>1, <1>3, <1>4
  <2>4. \A i \in DOMAIN sent : sent[i].for \in Requested /\ line'[sent[i].for] = line[sent[i].for]
    BY <1>1, <1>2 DEF SentInv
  <2>5. line' = line => Requested' = Requested
    BY <1>3, <1>4
  <2> QED
    BY <1>5, <2>1, <2>2, <2>3, <2>4, <2>5 DEF SentInv
<1>6. CASE \E F \in Families : \E item \in F.items : Type(item)
  BY <1>5, <1>6 DEF Type, SentInv, PassInv
<1>7. CASE Open
  BY <1>5, <1>7 DEF Open, SentInv, PassInv
<1>8. CASE Skip
  <2>1. CASE pass = "options"
    BY <1>5, <1>8, <2>1 DEF Skip, Running, SentInv
  <2>2. CASE pass = "commands"
    <3>1. /\ line' = line /\ pass' = pass /\ sent' = sent /\ at' = at + 1 /\ at \in DOMAIN line
          /\ ~waiting /\ waiting' = waiting /\ line[at].cmd \in Options
      BY <1>1, <1>8, <2>2 DEF Skip, Running, InThisPass, Current, IsOption, PassInv
    <3>2. at \notin Requested
      BY <3>1, Kinds, <1>3
    <3>3. /\ \A i \in DOMAIN sent : sent[i].for < at
          /\ \A k \in Requested : k < at => k \in Served
      BY <2>2, <3>1 DEF SentInv
    <3>4. /\ \A i \in DOMAIN sent : sent[i].for < at'
          /\ \A k \in Requested : k < at' => k \in Served
      BY <1>1, <1>2, <1>3, <3>1, <3>2, <3>3
    <3> QED
      BY <1>5, <2>2, <3>1, <3>4 DEF PassInv
  <2> QED
    BY <1>8, <2>1, <2>2 DEF Skip, Running
<1>9. CASE ConnectFails \/ RequestFails
  BY <1>5, <1>9 DEF ConnectFails, RequestFails, Stop
<1>10. ASSUME NEW zero, RunCommand(zero)
       PROVE  SentInv'
  <2>1. CASE Stop
    <3>1. sent' = sent
      BY <1>10, <2>1 DEF RunCommand, Running, Stop
    <3> QED
      BY <1>5, <2>1, <3>1 DEF Stop
  <2>2. CASE Moves(zero)
    <3>1. /\ at' = at + 1 /\ UNCHANGED <<pass, sent, waiting, ok>>
          /\ Current.cmd \notin Commands \ Unsent
          /\ pass \in {"options", "commands"} /\ at \in DOMAIN line /\ ~waiting
          /\ line' = WithSelection(Current.cmd \in Selects)
      BY <2>2, MovesOn, RunsWell DEF Moves
    <3>2. CASE pass = "options"
      BY <1>5, <3>1, <3>2 DEF SentInv
    <3>3. CASE pass = "commands"
      <4>1. /\ \A i \in DOMAIN sent : sent[i].for < at
            /\ \A k \in Requested : k < at => k \in Served
        BY <3>1, <3>3 DEF SentInv
      <4>2. at \notin Requested
        BY <3>1, <1>3 DEF Current
      <4>3. /\ \A i \in DOMAIN sent : sent[i].for < at'
            /\ \A k \in Requested' : k < at' => k \in Served
        BY <1>1, <1>2, <1>3, <1>4, <3>1, <4>1, <4>2
      <4>4. \A i \in DOMAIN sent : sent[i].for \in Requested' /\ line'[sent[i].for] = line[sent[i].for]
        BY <1>1, <1>2, <1>3, <1>4 DEF SentInv
      <4>5. \A i \in DOMAIN sent : \A k \in Requested' : k < sent[i].for => k \in Served
        BY <1>1, <1>2, <1>3, <1>4 DEF SentInv
      <4>6. Served' = Served
        BY <3>1 DEF Served
      <4> QED
        BY <3>1, <3>3, <4>3, <4>4, <4>5, <4>6 DEF SentInv, PassInv
    <3> QED
      BY <3>1, <3>2, <3>3
  <2>3. CASE Sends(zero)
    <3> DEFINE e == [name |-> Current.cmd,
                     carries |-> Prepare(Current, static, zero).request.carries,
                     for |-> at]
    <3>1. /\ pass = "commands" /\ waiting' = TRUE
          /\ UNCHANGED <<line, pass, at, ok>>
          /\ sent' = Append(sent, e)
          /\ Current.cmd \in Commands \ Unsent
          /\ at \in DOMAIN line /\ ~waiting
      BY <2>3, SendsOn, RunsWell DEF Sends
    <3>2. e.name = line[at].cmd /\ e.for = at
      BY DEF Current
    <3> HIDE DEF e
    <3>3. /\ IsSequence(sent') /\ Len(sent') = Len(sent) + 1 /\ DOMAIN sent' = 1 .. Len(sent) + 1
          /\ \A i \in 1 .. Len(sent) : sent'[i] = sent[i]
          /\ sent'[Len(sent) + 1] = e
      BY <3>1, Appended DEF SentInv
    <3>4. Requested' = Requested /\ at \in Requested
      BY <1>3, <1>4, <3>1, <3>2 DEF Current
    <3>5. /\ \A i \in DOMAIN sent : sent[i].for < at
          /\ \A k \in Requested : k < at => k \in Served
      BY <3>1 DEF SentInv
    <3>6. Served \subseteq Served'
      BY <1>2, <3>3 DEF Served
    <3>7. \A i \in DOMAIN sent' : \/ i \in DOMAIN sent /\ sent'[i] = sent[i]
                                  \/ i = Len(sent) + 1 /\ sent'[i] = e
      BY <1>2, <3>3
    <3>8. \A i \in DOMAIN sent' : sent'[i].for \in Requested' /\ sent'[i].name = line'[sent'[i].for].cmd
      BY <3>1, <3>2, <3>4, <3>7 DEF SentInv
    <3>9. \A i, j \in DOMAIN sent' : i < j => sent'[i].for < sent'[j].for
      BY <1>2, <3>2, <3>5, <3>7 DEF SentInv
    <3>10. \A i \in DOMAIN sent' : \A k \in Requested' : k < sent'[i].for => k \in Served'
      BY <3>2, <3>4, <3>5, <3>6, <3>7 DEF SentInv
    <3>11. /\ \A i \in DOMAIN sent' : sent'[i].for < at' \/ (waiting' /\ sent'[i].for = at')
           /\ \A k \in Requested' : k < at' => k \in Served'
      BY <3>1, <3>2, <3>4, <3>5, <3>6, <3>7
    <3>12. sent' # <<>> /\ sent'[Len(sent')].for = at'
      BY <1>2, <3>1, <3>2, <3>3, SequenceDomain
    <3> QED
      BY <3>1, <3>3, <3>8, <3>9, <3>10, <3>11, <3>12 DEF SentInv
  <2> QED
    BY <1>10, <2>1, <2>2, <2>3 DEF RunCommand, Moves, Sends
<1>11. CASE EndOfPass
  <2>1. /\ line' = line /\ sent' = sent /\ at' = 1 /\ at > Len(line) /\ ~waiting /\ waiting' = waiting
        /\ \/ pass = "options" /\ pass' = "commands"
           \/ pass = "commands" /\ pass' = "over"
    BY <1>11 DEF EndOfPass, Running
  <2>2. CASE pass = "options"
    <3>1. sent = <<>> /\ DOMAIN sent = {}
      BY <1>2, <2>2 DEF SentInv
    <3>2. \A k \in Requested : ~(k < 1)
      BY <1>1, <1>3
    <3> QED
      BY <1>5, <2>1, <2>2, <3>1, <3>2
  <2>3. CASE pass = "commands"
    <3>1. \A k \in Requested : k < at
      BY <1>1, <1>3, <2>1 DEF PassInv
    <3> QED
      BY <1>5, <2>1, <2>3, <3>1 DEF SentInv
  <2> QED
    BY <2>1, <2>2, <2>3
<1>12. CASE \E t, message : Answered(t, message)
  <2>1. /\ waiting /\ waiting' = FALSE /\ at' = at + 1 /\ UNCHANGED <<line, pass, sent>>
    BY <1>12 DEF Answered
  <2>2. pass = "commands" /\ at \in Served
    BY <2>1, <1>2, SequenceDomain DEF SentInv, PassInv, Served
  <2>3. /\ \A i \in DOMAIN sent : sent[i].for < at'
        /\ \A k \in Requested : k < at' => k \in Served
    BY <1>1, <1>2, <1>3, <2>1, <2>2 DEF SentInv, PassInv
  <2> QED
    BY <1>5, <2>1, <2>2, <2>3
<1>13. CASE Over
  BY <1>13 DEF Over, vars, SentInv, Served, Requested, PassInv
<1> QED
  BY <1>6, <1>7, <1>8, <1>9, <1>10, <1>11, <1>12, <1>13 DEF Next

(* Every step keeps the selection on the line.                              *)
LEMMA SelectStep ==
    ASSUME LineInv, PassInv, SelectInv, Next
    PROVE  SelectInv'
<1>1. /\ Len(line) \in Nat /\ DOMAIN line = 1 .. Len(line)
      /\ \A k \in DOMAIN line : k \in DOMAIN line' /\ line'[k] = line[k]
  BY LineGrows, SequenceDomain DEF LineInv
<1> DEFINE Settled == \E k \in DOMAIN line : line[k].cmd \in Selects /\ Handled(k)
<1>2. CASE pass' # "over"
  <2>1. \A k \in DOMAIN line' : Handled(k)' <=> k \in DOMAIN line /\ (Handled(k) \/ (Takes /\ k = at))
    BY <1>2, HandledStep
  <2>2. Settled' <=> Settled \/ (Takes /\ Current.cmd \in Selects)
    BY <1>1, <2>1 DEF Takes, Current
  <2>3. Settled <=> Selecting
    BY <1>2 DEF SelectInv, Next, Over, vars, Type, Open, Skip, ConnectFails, RequestFails, Stop,
           RunCommand, EndOfPass, Answered, Running
  <2>4. Selecting' <=> Selecting \/ (Takes /\ Current.cmd \in Selects)
    <3>1. CASE \E zero : Moves(zero)
      <4>1. PICK zero : Moves(zero)
        BY <3>1
      <4>2. Takes
        BY <4>1, MovesOn, RunsWell DEF Moves, Takes, InThisPass, IsOption
      <4>3. line' = IF Current.cmd \in Selects /\ ~Selecting THEN Append(line, SystemSelection)
                                                             ELSE line
        BY <4>1, MovesOn DEF WithSelection
      <4>4. Append(line, SystemSelection)[Len(line) + 1] = SystemSelection
              /\ Len(line) + 1 \in DOMAIN Append(line, SystemSelection)
        BY <1>1, Appended DEF LineInv
      <4>5. Selecting' <=> \E i \in DOMAIN line' : line'[i] = SystemSelection
        BY DEF Selecting
      <4>6. line' = line => (Selecting' <=> Selecting)
        BY DEF Selecting
      <4> QED
        BY <4>2, <4>3, <4>4, <4>5, <4>6
    <3>2. CASE \E F \in Families : \E item \in F.items : Type(item)
      <4>1. pass = "typing" /\ pass' = "typing" /\ at' = at /\ at = 1
        BY <3>2 DEF Type, PassInv
      <4>2. LineInv'
        BY LineGrows
      <4>3. \A k \in DOMAIN line' : line'[k].cmd # SystemSelection.cmd
        BY <4>1, <4>2 DEF LineInv
      <4>4. ~Selecting' /\ ~Selecting
        BY <1>1, <4>3 DEF Selecting
      <4> QED
        BY <4>1, <4>4 DEF Takes
    <3>3. CASE Open \/ Skip \/ (\E zero : Sends(zero)) \/ EndOfPass
                 \/ (\E t, message : Answered(t, message))
      <4>1. line' = line
        BY <3>3, SendsOn DEF Open, Skip, EndOfPass, Answered
      <4>2. Selecting' <=> Selecting
        BY <4>1 DEF Selecting
      <4>3. ~(Takes /\ Current.cmd \in Selects)
        <5>1. CASE Open \/ EndOfPass
          BY <5>1 DEF Open, EndOfPass, Takes, PassInv
        <5>2. CASE Skip
          BY <5>2 DEF Skip, Takes
        <5>3. CASE \E zero : Sends(zero)
          <6>1. PICK zero : Sends(zero)
            BY <5>3
          <6>2. at' = at /\ at \in Nat
            <7>1. at' = at
              BY <6>1, SendsOn
            <7>2. at \in Nat
              BY <1>1 DEF PassInv
            <7> QED
              BY <7>1, <7>2
          <6> QED
            BY <6>2 DEF Takes
        <5>4. CASE \E t, message : Answered(t, message)
          <6>1. Current.cmd \in Commands \ Unsent
            BY <5>4 DEF Answered, PassInv, Current
          <6> QED
            BY <6>1, Kinds
        <5> QED
          BY <3>3, <5>1, <5>2, <5>3, <5>4
      <4> QED
        BY <4>2, <4>3
    <3> QED
      BY <1>2, <3>1, <3>2, <3>3, StepOfTheRun
  <2> QED
    BY <1>2, <2>2, <2>3, <2>4 DEF SelectInv
<1>3. CASE pass' = "over" /\ ok'
  <2>1. CASE EndOfPass
    <3>1. /\ pass = "commands" /\ line' = line /\ at > Len(line)
      BY <1>3, <2>1 DEF EndOfPass, Running
    <3>2. \A k \in DOMAIN line : Handled(k)
      BY <1>1, <3>1 DEF Handled, PassInv
    <3>3. (\E k \in DOMAIN line : line[k].cmd \in Selects) <=> Selecting
      BY <3>1, <3>2 DEF SelectInv
    <3>4. Selecting' <=> Selecting
      BY <3>1 DEF Selecting
    <3> QED
      BY <1>3, <3>1, <3>3, <3>4 DEF SelectInv
  <2>2. CASE Over
    <3>1. /\ pass = "over" /\ ok /\ line' = line
      BY <1>3, <2>2 DEF Over, vars
    <3>2. (Selecting' <=> Selecting)
      BY <3>1 DEF Selecting
    <3> QED
      BY <1>3, <3>1, <3>2 DEF SelectInv
  <2>3. ASSUME NEW zero, RunCommand(zero)
        PROVE  FALSE
    BY <1>3, <2>3 DEF RunCommand, Running, Stop
  <2>4. ~(\E F \in Families : \E item \in F.items : Type(item)) /\ ~Open /\ ~Skip
          /\ ~ConnectFails /\ ~RequestFails
          /\ ~(\E t, message : Answered(t, message))
    BY <1>3 DEF Type, Open, Skip, ConnectFails, RequestFails, Stop, Answered, PassInv, Running
  <2> QED
    BY <2>1, <2>2, <2>3, <2>4 DEF Next
<1> QED
  BY <1>2, <1>3 DEF SelectInv

(* What an item leaves of the network to choose.                            *)
LEMMA ChoiceStep ==
    ASSUME NEW s, NEW t, Keeps(s, t, "sel_req", "mode"), Keeps(s, t, "plmn", "mcc"),
           Keeps(s, t, "plmn", "mnc"), "mode" \in DOMAIN s["sel_req"], ChosenIn(s)
    PROVE  "mode" \in DOMAIN t["sel_req"] /\ ChosenIn(t)
BY DEF ChosenIn, Keeps

LEMMA NumbersOwned ==
    /\ "plmn" \in DOMAIN Owner /\ "sel_req" \in DOMAIN Owner
    /\ DOMAIN Owner["plmn"] = {"mcc", "mnc"}
    /\ Owner["plmn"]["mcc"] = "nas_set_mcc" /\ Owner["plmn"]["mnc"] = "nas_set_mnc"
    /\ "nas_set_mcc" \in Options /\ "nas_set_mnc" \in Options
    /\ "nas_set_plmn" \in Commands /\ "nas_set_plmn" # SystemSelection.cmd
    /\ \A c : Owns(c) => c \in Options /\ c # SystemSelection.cmd
<1>1. \A c : Owns(c) => c \in Options
  BY DEF Owns, Owner, Options, WdsOptions, DmsOptions, NasOptions, WmsOptions, WdaOptions,
         UimOptions
<1>2. "nas_set_plmn" # SystemSelection.cmd
  BY DEF SystemSelection, Item
<1> QED
  BY <1>1, <1>2, SelectionIsSent
     DEF Owner, Options, NasOptions, Commands, NasCommands

LEMMA PreparesChoice ==
    ASSUME NEW s, NEW item, item.cmd = "nas_set_plmn", NEW zero
    PROVE  Prepare(item, s, zero) = nas_set_plmn(s)
<1>1. Prepare(item, s, zero) = NasPrepare(item.cmd, s, item.arg)
  BY DEF Prepare, CtlCommands, WdsOptions, WdsCommands, DmsOptions, DmsCommands, DmsIds,
         NasOptions, NasCommands, WmsOptions, WmsCommands, WdaOptions, WdaCommands, UimOptions,
         UimCommands
<1> QED
  BY <1>1 DEF NasPrepare

(* Every step keeps the structures as the options given say.                *)
LEMMA StaticStep ==
    ASSUME LineInv, PassInv, StaticInv, Next
    PROVE  StaticInv'
<1> SUFFICES ASSUME pass' # "over" PROVE StaticInv'
  BY DEF StaticInv
<1>1. /\ \A c : c # SystemSelection.cmd =>
            Given(c)' = IF Takes /\ Current.cmd = c /\ Gives(c, Current.arg)
                        THEN Given(c) \cup {at} ELSE Given(c)
      /\ Takes => \A k \in Given(Current.cmd) : k < at
      /\ \A c : Given(c) \subseteq DOMAIN line
      /\ \A k \in DOMAIN line : k \in DOMAIN line' /\ line'[k] = line[k]
      /\ Len(line) \in Nat /\ DOMAIN line = 1 .. Len(line)
      /\ at \in Nat
  BY GivenStep, LineGrows, SequenceDomain DEF LineInv, PassInv
<1>2. /\ pass # "over"
      /\ pass = "commands" => pass' = "commands"
  BY DEF Next, Over, vars, Type, Open, Skip, ConnectFails, RequestFails, Stop, RunCommand,
         EndOfPass, Answered, Running, PassInv
<1>3. /\ DOMAIN static["plmn"] \subseteq {"mcc", "mnc"}
      /\ "mcc" \notin DOMAIN static["sel_req"] /\ "mnc" \notin DOMAIN static["sel_req"]
      /\ "mode" \in DOMAIN static["sel_req"] <=> Given("nas_set_plmn") # {}
      /\ "mode" \in DOMAIN static["sel_req"] => pass = "commands" /\ ChosenIn(static)
  BY <1>2 DEF StaticInv
<1>4. ASSUME NEW q \in DOMAIN Owner, NEW f \in DOMAIN Owner[q], NEW c, c = Owner[q][f]
      PROVE  \/ Given(c) = {} /\ Keeps(Static0, static, q, f)
             \/ \E j \in Given(c) :
                   /\ IsLast(j, Given(c))
                   /\ f \in DOMAIN static[q]
                   /\ AsTheHelpAsks => static[q][f] = Meant(c, line[j].arg)
                   /\ q = "plmn" => Meant(c, line[j].arg) = line[j].arg[1].num
  BY <1>2, <1>4 DEF StaticInv
<1>5. ASSUME NEW q \in DOMAIN Owner, NEW f \in DOMAIN Owner[q], NEW c, c = Owner[q][f],
             Keeps(static, static', q, f), Given(c)' = Given(c)
      PROVE  \/ Given(c)' = {} /\ Keeps(Static0, static', q, f)
             \/ \E j \in Given(c)' :
                   /\ IsLast(j, Given(c)')
                   /\ f \in DOMAIN static'[q]
                   /\ AsTheHelpAsks => static'[q][f] = Meant(c, line'[j].arg)
                   /\ q = "plmn" => Meant(c, line'[j].arg) = line'[j].arg[1].num
  <2>1. CASE Given(c) = {} /\ Keeps(Static0, static, q, f)
    BY <1>5, <2>1 DEF Keeps
  <2>2. CASE \E j \in Given(c) :
                   /\ IsLast(j, Given(c))
                   /\ f \in DOMAIN static[q]
                   /\ AsTheHelpAsks => static[q][f] = Meant(c, line[j].arg)
                   /\ q = "plmn" => Meant(c, line[j].arg) = line[j].arg[1].num
    <3>1. PICK j \in Given(c) :
                   /\ IsLast(j, Given(c))
                   /\ f \in DOMAIN static[q]
                   /\ AsTheHelpAsks => static[q][f] = Meant(c, line[j].arg)
                   /\ q = "plmn" => Meant(c, line[j].arg) = line[j].arg[1].num
      BY <2>2
    <3>2. line'[j] = line[j] /\ j \in Given(c)' /\ IsLast(j, Given(c)')
      BY <1>1, <1>5, <3>1
    <3>3. f \in DOMAIN static'[q] /\ static'[q][f] = static[q][f]
      BY <1>5, <3>1 DEF Keeps
    <3> QED
      BY <3>1, <3>2, <3>3
  <2> QED
    BY <1>4, <1>5, <2>1, <2>2
<1>6. ASSUME \A q \in DOMAIN Owner : \A f \in DOMAIN Owner[q] :
                Keeps(static, static', q, f) /\ Given(Owner[q][f])' = Given(Owner[q][f]),
             Keeps(static, static', "sel_req", "mode"),
             Keeps(static, static', "sel_req", "mcc"), Keeps(static, static', "sel_req", "mnc"),
             DOMAIN static'["plmn"] \subseteq DOMAIN static["plmn"] \cup {"mcc", "mnc"},
             Given("nas_set_plmn")' = Given("nas_set_plmn")
      PROVE  StaticInv'
  <2>1. "mode" \in DOMAIN static'["sel_req"] => pass' = "commands" /\ ChosenIn(static)'
    <3> SUFFICES ASSUME "mode" \in DOMAIN static'["sel_req"]
                 PROVE  pass' = "commands" /\ ChosenIn(static)'
      OBVIOUS
    <3>1. "mode" \in DOMAIN static["sel_req"]
      BY <1>6 DEF Keeps
    <3>2. ChosenIn(static')
      BY <1>3, <1>6, <3>1, ChoiceStep, NumbersOwned
    <3> QED
      BY <1>2, <1>3, <3>1, <3>2 DEF ChosenIn
  <2>2. /\ DOMAIN static'["plmn"] \subseteq {"mcc", "mnc"}
        /\ "mcc" \notin DOMAIN static'["sel_req"] /\ "mnc" \notin DOMAIN static'["sel_req"]
        /\ "mode" \in DOMAIN static'["sel_req"] <=> Given("nas_set_plmn")' # {}
    BY <1>3, <1>6 DEF Keeps
  <2>3. \A q \in DOMAIN Owner : \A f \in DOMAIN Owner[q] :
            LET c == Owner[q][f]
            IN  \/ Given(c)' = {} /\ Keeps(Static0, static', q, f)
                \/ \E j \in Given(c)' :
                      /\ IsLast(j, Given(c)')
                      /\ f \in DOMAIN static'[q]
                      /\ AsTheHelpAsks => static'[q][f] = Meant(c, line'[j].arg)
                      /\ q = "plmn" => Meant(c, line'[j].arg) = line'[j].arg[1].num
    BY <1>5, <1>6
  <2> QED
    BY <2>1, <2>2, <2>3 DEF StaticInv
<1>7. CASE \E zero : Sends(zero)
  <2>1. PICK zero : Sends(zero)
    BY <1>7
  <2>2. /\ at' = at /\ Current.cmd \in Commands \ Unsent
        /\ After(Current.cmd, Current.arg, static, static')
    BY <2>1, SendsOn
  <2>3. ~Takes
    BY <1>1, <2>2 DEF Takes
  <2>4. ~Owns(Current.cmd) /\ Current.cmd # "nas_set_plmn"
    BY <2>2, NumbersOwned, Kinds DEF Unsent
  <2>5. \A q \in DOMAIN Owner : \A f \in DOMAIN Owner[q] :
            Owner[q][f] # Current.cmd /\ Owns(Owner[q][f])
    BY <2>4 DEF Owns
  <2> QED
    BY <1>1, <1>6, <2>2, <2>3, <2>4, <2>5, NumbersOwned DEF After
<1>8. CASE Open \/ Skip \/ EndOfPass \/ (\E F \in Families : \E item \in F.items : Type(item))
              \/ (\E t, message : Answered(t, message))
  <2>1. static' = static
    BY <1>8 DEF Open, Skip, EndOfPass, Type, Answered
  <2>2. Takes => Current.cmd \in Commands \ Unsent
    <3>1. CASE Open \/ EndOfPass \/ (\E F \in Families : \E item \in F.items : Type(item))
      BY <3>1 DEF Open, EndOfPass, Takes, Type, PassInv
    <3>2. CASE Skip
      BY <3>2 DEF Skip, Takes
    <3>3. CASE \E t, message : Answered(t, message)
      BY <3>3 DEF Answered, PassInv, Current
    <3> QED
      BY <1>8, <3>1, <3>2, <3>3
  <2>3. \A q \in DOMAIN Owner : \A f \in DOMAIN Owner[q] :
            Owns(Owner[q][f])
    BY DEF Owns
  <2>4. \A c : Owns(c) \/ c = "nas_set_plmn" => Given(c)' = Given(c)
    BY <1>1, <2>2, NumbersOwned, Kinds DEF Unsent
  <2>5. \A q, f : Keeps(static, static', q, f)
    BY <2>1 DEF Keeps
  <2> QED
    BY <1>6, <2>1, <2>3, <2>4, <2>5
<1>9. CASE \E zero : Moves(zero)
  <2>1. PICK zero : Moves(zero)
    BY <1>9
  <2>7. PICK c : Current.cmd = c
    OBVIOUS
  <2>2. /\ at' = at + 1 /\ pass' = pass /\ at \in DOMAIN line /\ Takes
        /\ c \in Options <=> pass = "options"
        /\ pass \in {"options", "commands"}
        /\ c = line[at].cmd
        /\ After(c, line[at].arg, static, static')
        /\ c # SystemSelection.cmd
    BY <2>1, <2>7, MovesOn, RunsWell, SelectionIsSent
       DEF Moves, Takes, InThisPass, IsOption, Current
  <2> DEFINE gives == Gives(c, line[at].arg)
  <2>3. /\ Given(c)' = IF gives THEN Given(c) \cup {at} ELSE Given(c)
        /\ \A k \in Given(c) : k < at
        /\ \A d : d # c /\ (Owns(d) \/ d = "nas_set_plmn") => Given(d)' = Given(d)
        /\ c = "nas_set_plmn" => gives
    <3>1. Current.arg = line[at].arg
      BY DEF Current
    <3>2. c = "nas_set_plmn" => gives
      BY DEF Gives
    <3> QED
      BY <1>1, <2>2, <2>7, <3>1, <3>2, NumbersOwned
  <2>4. \A q \in DOMAIN Owner : \A f \in DOMAIN Owner[q] :
            /\ Owns(Owner[q][f])
            /\ ~(Owner[q][f] = c /\ gives) => Keeps(static, static', q, f)
            /\ Owner[q][f] = c /\ gives =>
                  /\ f \in DOMAIN static'[q]
                  /\ Suits(c, line[at].arg) => static'[q][f] = Meant(c, line[at].arg)
    BY <2>2 DEF After, Owns
  <2> HIDE DEF gives
  <2>5. /\ AsTheHelpAsks => Suits(c, line[at].arg)
        /\ gives => IsLast(at, Given(c)') /\ at \in Given(c)'
        /\ line'[at] = line[at]
    BY <1>1, <2>2, <2>3 DEF LineInv, IsLast
  <2>6. ASSUME NEW q \in DOMAIN Owner, NEW f \in DOMAIN Owner[q], q = "plmn", Owner[q][f] = c
        PROVE  Meant(c, line[at].arg) = line[at].arg[1].num
    <3>1. c \in {"nas_set_mcc", "nas_set_mnc"}
      BY <2>6, NumbersOwned
    <3>2. Prepare(Current, static, zero).res # "exit"
      BY <2>1 DEF Moves
    <3> QED
      BY <2>7, <3>1, <3>2, NumbersMeant DEF Current
  <2>8. \A q \in DOMAIN Owner : \A f \in DOMAIN Owner[q] :
            LET d == Owner[q][f]
            IN  \/ Given(d)' = {} /\ Keeps(Static0, static', q, f)
                \/ \E j \in Given(d)' :
                      /\ IsLast(j, Given(d)')
                      /\ f \in DOMAIN static'[q]
                      /\ AsTheHelpAsks => static'[q][f] = Meant(d, line'[j].arg)
                      /\ q = "plmn" => Meant(d, line'[j].arg) = line'[j].arg[1].num
    <3> SUFFICES ASSUME NEW q \in DOMAIN Owner, NEW f \in DOMAIN Owner[q], NEW d, d = Owner[q][f]
                 PROVE  \/ Given(d)' = {} /\ Keeps(Static0, static', q, f)
                        \/ \E j \in Given(d)' :
                              /\ IsLast(j, Given(d)')
                              /\ f \in DOMAIN static'[q]
                              /\ AsTheHelpAsks => static'[q][f] = Meant(d, line'[j].arg)
                              /\ q = "plmn" => Meant(d, line'[j].arg) = line'[j].arg[1].num
      OBVIOUS
    <3>1. CASE d = c /\ gives
      BY <2>4, <2>5, <2>6, <3>1
    <3>2. CASE ~(d = c /\ gives)
      <4>1. Keeps(static, static', q, f) /\ Given(d)' = Given(d)
        BY <2>3, <2>4, <3>2
      <4> QED
        BY <4>1, <1>5
    <3> QED
      BY <3>1, <3>2
  <2>9. /\ DOMAIN static'["plmn"] \subseteq {"mcc", "mnc"}
        /\ "mcc" \notin DOMAIN static'["sel_req"] /\ "mnc" \notin DOMAIN static'["sel_req"]
    BY <1>3, <2>2 DEF After, Keeps
  <2>10. CASE c = "nas_set_plmn"
    <3>1. Prepare(Current, static, zero) = nas_set_plmn(static)
      BY <2>7, <2>10, PreparesChoice
    <3>2. nas_set_plmn(static).res # "exit" /\ static' = nas_set_plmn(static).static
      BY <2>1, <3>1, MovesOn DEF Moves
    <3>3. "mode" \in DOMAIN static'["sel_req"] /\ ChosenIn(static')
      BY <1>3, <2>1, <3>2, RunsWell, SetPlmnChooses DEF Moves
    <3>4. pass' = "commands"
      BY <2>2, <2>10, NumbersOwned, Kinds
    <3>5. "mode" \in DOMAIN static'["sel_req"] <=> Given("nas_set_plmn")' # {}
      BY <2>3, <2>5, <2>10, <3>3
    <3>6. "mode" \in DOMAIN static'["sel_req"] => pass' = "commands" /\ ChosenIn(static)'
      BY <3>3, <3>4 DEF ChosenIn
    <3> QED
      BY <2>8, <2>9, <3>5, <3>6 DEF StaticInv
  <2>11. CASE c # "nas_set_plmn"
    <3>1. Keeps(static, static', "sel_req", "mode")
      BY <2>2, <2>11 DEF After
    <3>2. "mode" \in DOMAIN static'["sel_req"] <=> Given("nas_set_plmn")' # {}
      BY <1>3, <2>3, <2>11, <3>1 DEF Keeps
    <3>3. ASSUME "mode" \in DOMAIN static'["sel_req"]
          PROVE  pass' = "commands" /\ ChosenIn(static')
      <4>1. "mode" \in DOMAIN static["sel_req"] /\ pass = "commands" /\ ChosenIn(static)
        BY <1>3, <3>1, <3>3 DEF Keeps
      <4>2. c \notin Options
        BY <2>2, <4>1
      <4>3. Keeps(static, static', "plmn", "mcc") /\ Keeps(static, static', "plmn", "mnc")
        BY <2>4, <4>2, NumbersOwned
      <4> QED
        BY <2>2, <3>1, <4>1, <4>3, ChoiceStep
    <3>4. "mode" \in DOMAIN static'["sel_req"] => pass' = "commands" /\ ChosenIn(static)'
      BY <3>3 DEF ChosenIn
    <3> QED
      BY <2>8, <2>9, <3>2, <3>4 DEF StaticInv
  <2> QED
    BY <2>10, <2>11
<1> QED
  BY <1>7, <1>8, <1>9, StepOfTheRun

(***************************************************************************)
(* What the requests carry.                                                 *)
(***************************************************************************)

(* The two properties, for one request.                                     *)
CarriesFor(e) ==
    /\ \A h \in HelpOptions(e.name) :
          IF OfLine(h[1]) = {}
          THEN h[2] \in DOMAIN e.carries =>
                  h[2] \in DOMAIN Default /\ e.carries[h[2]] = Default[h[2]]
          ELSE h[2] \in DOMAIN e.carries /\ e.carries[h[2]] = LastValue(h[1])
    /\ e.name = "wms_send_message" =>
          e.carries.raw_data = RawMessage(ValueOr("wms_send_message_smsc", <<>>),
                                          ValueOr("wms_send_message_target", <<>>),
                                          ValueOr("wms_send_message_flash", FALSE),
                                          Chars(line[e.for].arg))

Named == OfLine("nas_set_mcc") # {} /\ line[LastOf("nas_set_mcc")].arg[1].num # 0
SelectsFor(e) ==
    e.name = SystemSelection.cmd =>
      /\ "mode" \in DOMAIN e.carries <=> OfLine("nas_set_plmn") # {}
      /\ "mode" \in DOMAIN e.carries =>
            IF Named
            THEN /\ OfLine("nas_set_mnc") # {}
                 /\ e.carries.mode = "manual"
                 /\ e.carries.mcc = line[LastOf("nas_set_mcc")].arg[1].num
                 /\ e.carries.mnc = line[LastOf("nas_set_mnc")].arg[1].num
            ELSE e.carries.mode = "automatic"

LEMMA ForEachRequest ==
    /\ CarriesTheOptionsGiven <=> \A i \in DOMAIN sent : CarriesFor(sent[i])
    /\ SelectsTheNetworkGiven <=> \A i \in DOMAIN sent : SelectsFor(sent[i])
<1>1. CarriesTheOptionsGiven <=> \A i \in DOMAIN sent : CarriesFor(sent[i])
  BY DEF CarriesTheOptionsGiven, CarriesFor
<1>2. SelectsTheNetworkGiven <=> \A i \in DOMAIN sent : SelectsFor(sent[i])
  BY DEF SelectsTheNetworkGiven, SelectsFor, Named
<1> QED
  BY <1>1, <1>2

(* The last of a kind is the one that no other follows.                     *)
LEMMA TheLast ==
    ASSUME LineInv, NEW c, NEW j, IsLast(j, OfLine(c))
    PROVE  LastOf(c) = j /\ OfLine(c) # {}
<1>1. OfLine(c) \subseteq Nat
  BY SequenceDomain DEF LineInv, OfLine
<1>2. \A k \in OfLine(c) : (\A i \in OfLine(c) : i <= k) => k = j
  BY <1>1 DEF IsLast
<1> QED
  BY <1>2 DEF LastOf, IsLast

(* There is one, if there is any of the kind.                               *)
LEMMA HasALast ==
    ASSUME LineInv, LastInv, NEW c, OfLine(c) # {}
    PROVE  LastOf(c) \in OfLine(c)
<1>1. PICK i \in DOMAIN line : line[i].cmd = c /\ Gives(c, line[i].arg)
  BY DEF OfLine
<1>2. PICK j : IsLast(j, OfLine(c))
  BY <1>1 DEF LastInv
<1> QED
  BY <1>2, TheLast DEF IsLast

(* An item that is added is the last of its kind.                           *)
LEMMA LastStep ==
    ASSUME LineInv, PassInv, LastInv, Next
    PROVE  LastInv'
<1>1. line' = line \/ \E item : line' = Append(line, item)
  BY LineGrows DEF Next, Type, Open, Skip, ConnectFails, RequestFails, EndOfPass, Answered, Over,
     vars, RunCommand, WithSelection
<1>2. CASE line' = line
  BY <1>2 DEF LastInv, OfLine, Gives, IsLast
<1>3. ASSUME NEW item, line' = Append(line, item)
      PROVE  LastInv'
  <2>1. /\ DOMAIN line = 1 .. Len(line) /\ DOMAIN line' = 1 .. Len(line) + 1
        /\ \A i \in 1 .. Len(line) : line'[i] = line[i]
        /\ line'[Len(line) + 1] = item /\ Len(line) \in Nat
    BY <1>3, Appended, SequenceDomain DEF LineInv
  <2>2. SUFFICES ASSUME NEW i \in DOMAIN line', NEW c, c = line'[i].cmd, Gives(c, line'[i].arg)
                 PROVE  \E j \in DOMAIN line' : IsLast(j, OfLine(c)')
    BY DEF LastInv, OfLine, IsLast, Gives
  <2> DEFINE gives(x) == x.cmd = c /\ Gives(c, x.arg)
  <2>3. OfLine(c)' = {j \in DOMAIN line' : gives(line'[j])}
    BY DEF OfLine, Gives
  <2>6. OfLine(c) = {j \in DOMAIN line : gives(line[j])}
    BY DEF OfLine
  <2>7. gives(line'[i])
    BY <2>2
  <2>8. ASSUME i \in DOMAIN line, gives(line[i])
        PROVE  \E j \in DOMAIN line : IsLast(j, OfLine(c))
    BY <2>8 DEF LastInv
  <2> HIDE DEF gives
  <2>4. CASE gives(item)
    <3>1. Len(line) + 1 \in DOMAIN line' /\ IsLast(Len(line) + 1, OfLine(c)')
      BY <2>1, <2>3, <2>4 DEF IsLast
    <3> QED
      BY <3>1
  <2>5. CASE ~gives(item)
    <3>1. i \in DOMAIN line /\ gives(line[i])
      BY <2>1, <2>5, <2>7
    <3>2. PICK j \in DOMAIN line : IsLast(j, OfLine(c))
      BY <2>8, <3>1
    <3>3. \A k \in DOMAIN line' : gives(line'[k]) <=> k \in DOMAIN line /\ gives(line[k])
      BY <2>1, <2>5
    <3>4. OfLine(c)' = OfLine(c)
      BY <2>1, <2>3, <2>6, <3>3
    <3> QED
      BY <2>1, <3>2, <3>4
  <2> QED
    BY <2>4, <2>5
<1> QED
  BY <1>1, <1>2, <1>3

(* In the second pass all the options of the line are over with.            *)
LEMMA OptionsAreTaken ==
    ASSUME pass = "commands", NEW c \in Options
    PROVE  Given(c) = OfLine(c)
BY DEF Given, Handled, OfLine, IsOption

(* Each field of an option holds the value given last, if one was.          *)
LEMMA HoldsTheLast ==
    ASSUME LineInv, StaticInv, AsTheHelpAsks, pass = "commands",
           NEW q \in DOMAIN Owner, NEW f \in DOMAIN Owner[q], NEW c, c = Owner[q][f]
    PROVE  IF OfLine(c) = {} THEN Keeps(Static0, static, q, f)
                             ELSE f \in DOMAIN static[q] /\ static[q][f] = LastValue(c)
<1>1. c \in Options
  BY NumbersOwned DEF Owns
<1>2. Given(c) = OfLine(c)
  BY <1>1, OptionsAreTaken
<1>3. \/ OfLine(c) = {} /\ Keeps(Static0, static, q, f)
      \/ \E j \in OfLine(c) :
            /\ IsLast(j, OfLine(c))
            /\ f \in DOMAIN static[q] /\ static[q][f] = Meant(c, line[j].arg)
  BY <1>2 DEF StaticInv
<1> QED
  BY <1>3, TheLast DEF LastValue

LEMMA PreparesText ==
    ASSUME NEW s, NEW item, item.cmd = "wms_send_message", NEW zero
    PROVE  Prepare(item, s, zero) = wms_send_message(s, item.arg)
<1>1. Prepare(item, s, zero) = WmsPrepare(item.cmd, s, item.arg)
  BY DEF Prepare, CtlCommands, WdsOptions, WdsCommands, DmsOptions, DmsCommands, DmsIds,
         NasOptions, NasCommands, WmsOptions, WmsCommands, WdaOptions, WdaCommands, UimOptions,
         UimCommands
<1> QED
  BY <1>1 DEF WmsPrepare

(* A text is sent with the numbers given last.                              *)
LEMMA TextCarries ==
    ASSUME LineInv, PassInv, StaticInv, AsTheHelpAsks, NEW zero, Sends(zero),
           Current.cmd = "wms_send_message"
    PROVE  Prepare(Current, static, zero).request.carries.raw_data =
              RawMessage(ValueOr("wms_send_message_smsc", <<>>),
                         ValueOr("wms_send_message_target", <<>>),
                         ValueOr("wms_send_message_flash", FALSE), Chars(Current.arg))
<1> DEFINE send == Onto(static["_send"], [smsc |-> <<>>, target |-> <<>>, flash |-> FALSE])
<1>1. pass = "commands" /\ "_send" \in DOMAIN Owner
  BY SendsOn DEF Owner
<1>2. /\ DOMAIN Owner["_send"] = {"smsc", "target", "flash"}
      /\ Owner["_send"]["smsc"] = "wms_send_message_smsc"
      /\ Owner["_send"]["target"] = "wms_send_message_target"
      /\ Owner["_send"]["flash"] = "wms_send_message_flash"
  BY DEF Owner
<1>3. ASSUME NEW f \in {"smsc", "target", "flash"}, NEW c, c = Owner["_send"][f]
      PROVE  send[f] = ValueOr(c, [smsc |-> <<>>, target |-> <<>>, flash |-> FALSE][f])
  <2>1. IF OfLine(c) = {} THEN Keeps(Static0, static, "_send", f)
        ELSE f \in DOMAIN static["_send"] /\ static["_send"][f] = LastValue(c)
    BY <1>1, <1>2, <1>3, HoldsTheLast
  <2>2. f \notin DOMAIN Static0["_send"]
    BY StaticDefaults
  <2> QED
    BY <2>1, <2>2 DEF Onto, Keeps, ValueOr
<1>4. /\ send.smsc = ValueOr("wms_send_message_smsc", <<>>)
      /\ send.target = ValueOr("wms_send_message_target", <<>>)
      /\ send.flash = ValueOr("wms_send_message_flash", FALSE)
  BY <1>2, <1>3
<1>5. Prepare(Current, static, zero) = wms_send_message(static, Current.arg)
  BY PreparesText
<1>6. wms_send_message(static, Current.arg).res = "request"
  BY <1>5 DEF Sends
<1>7. wms_send_message(static, Current.arg).request.carries.raw_data
         = RawMessage(send.smsc, send.target, send.flash, Chars(Current.arg))
  BY <1>6 DEF wms_send_message, Request, Exit, Done
<1> QED
  BY <1>4, <1>5, <1>7

(* The options the help lists are options, and owned.                       *)
LEMMA RequestCarries ==
    ASSUME LineInv, PassInv, StaticInv, AsTheHelpAsks, NEW zero, Sends(zero)
    PROVE  CarriesFor([name |-> Current.cmd,
                       carries |-> Prepare(Current, static, zero).request.carries, for |-> at])
<1> DEFINE carries == Prepare(Current, static, zero).request.carries
<1>1. /\ pass = "commands" /\ Current.cmd \in Commands /\ Structures(static)
      /\ Prepare(Current, static, zero).res = "request"
  BY SendsOn, RunsWell DEF Sends
<1>2. \A h \in HelpOptions(Current.cmd) : Carries(static, carries, h)
  BY <1>1, PrepareCarries DEF StaticInv
<1> HIDE DEF carries
<1>3. ASSUME NEW h \in HelpOptions(Current.cmd)
      PROVE  IF OfLine(h[1]) = {}
             THEN h[2] \in DOMAIN carries =>
                     h[2] \in DOMAIN Default /\ carries[h[2]] = Default[h[2]]
             ELSE h[2] \in DOMAIN carries /\ carries[h[2]] = LastValue(h[1])
  <2>1. PICK q \in DOMAIN Owner : \E f \in DOMAIN Owner[q] :
            /\ Owner[q][f] = h[1]
            /\ f = h[2] \/ q = "dms_req_data"
            /\ f \in DOMAIN static[q] => h[2] \in DOMAIN carries /\ carries[h[2]] = static[q][f]
            /\ f \notin DOMAIN static[q] /\ h[2] \in DOMAIN carries =>
                  h[2] = "channel_id" /\ carries[h[2]] = 255
    BY <1>2 DEF Carries
  <2>2. PICK f \in DOMAIN Owner[q] :
            /\ Owner[q][f] = h[1]
            /\ f = h[2] \/ q = "dms_req_data"
            /\ f \in DOMAIN static[q] => h[2] \in DOMAIN carries /\ carries[h[2]] = static[q][f]
            /\ f \notin DOMAIN static[q] /\ h[2] \in DOMAIN carries =>
                  h[2] = "channel_id" /\ carries[h[2]] = 255
    BY <2>1
  <2>3. IF OfLine(h[1]) = {} THEN Keeps(Static0, static, q, f)
        ELSE f \in DOMAIN static[q] /\ static[q][f] = LastValue(h[1])
    BY <1>1, <2>2, HoldsTheLast
  <2>4. CASE OfLine(h[1]) = {}
    <3>1. f \in DOMAIN static[q] => /\ f \in DOMAIN Default /\ f = h[2]
                                    /\ static[q][f] = Default[f]
      BY <2>2, <2>3, <2>4, StaticDefaults DEF Keeps
    <3>2. "channel_id" \in DOMAIN Default /\ Default["channel_id"] = 255
      BY DEF Default
    <3> QED
      BY <2>2, <2>4, <3>1, <3>2
  <2>5. CASE OfLine(h[1]) # {}
    BY <2>2, <2>3, <2>5
  <2> QED
    BY <2>4, <2>5
<1>4. ASSUME Current.cmd = "wms_send_message"
      PROVE  carries.raw_data = RawMessage(ValueOr("wms_send_message_smsc", <<>>),
                                           ValueOr("wms_send_message_target", <<>>),
                                           ValueOr("wms_send_message_flash", FALSE),
                                           Chars(line[at].arg))
  BY <1>4, TextCarries DEF Current, carries
<1> QED
  BY <1>3, <1>4 DEF CarriesFor, carries

LEMMA PreparesSelection ==
    ASSUME NEW s, NEW item, item.cmd = "nas_do_set_system_selection", NEW zero
    PROVE  Prepare(item, s, zero) = cmd_nas_do_set_system_selection(s)
<1>1. Prepare(item, s, zero) = NasPrepare(item.cmd, s, item.arg)
  BY DEF Prepare, CtlCommands, WdsOptions, WdsCommands, DmsOptions, DmsCommands, DmsIds,
         NasOptions, NasCommands, WmsOptions, WmsCommands, WdaOptions, WdaCommands, UimOptions,
         UimCommands
<1> QED
  BY <1>1 DEF NasPrepare

LEMMA RequestSelects ==
    ASSUME LineInv, PassInv, StaticInv, AsTheHelpAsks, NEW zero, Sends(zero)
    PROVE  SelectsFor([name |-> Current.cmd,
                       carries |-> Prepare(Current, static, zero).request.carries, for |-> at])
<1> DEFINE carries == Prepare(Current, static, zero).request.carries
<1> SUFFICES ASSUME Current.cmd = SystemSelection.cmd
             PROVE  /\ "mode" \in DOMAIN carries <=> OfLine("nas_set_plmn") # {}
                    /\ "mode" \in DOMAIN carries =>
                          IF Named
                          THEN /\ OfLine("nas_set_mnc") # {}
                               /\ carries["mode"] = "manual"
                               /\ carries["mcc"] = line[LastOf("nas_set_mcc")].arg[1].num
                               /\ carries["mnc"] = line[LastOf("nas_set_mnc")].arg[1].num
                          ELSE carries["mode"] = "automatic"
  BY DEF SelectsFor
<1> DEFINE s == static["sel_req"]
           p == static["plmn"]
<1>1. /\ pass = "commands" /\ at \in DOMAIN line /\ at = Len(line)
      /\ Len(line) \in Nat /\ DOMAIN line = 1 .. Len(line)
  <2>1. pass = "commands" /\ at \in DOMAIN line
    BY SendsOn, RunsWell DEF Sends
  <2> QED
    BY <2>1, SequenceDomain DEF LineInv, Current
<1>2. /\ DOMAIN p \subseteq {"mcc", "mnc"}
      /\ "mcc" \notin DOMAIN s /\ "mnc" \notin DOMAIN s
      /\ "mode" \in DOMAIN s <=> Given("nas_set_plmn") # {}
      /\ "mode" \in DOMAIN s => ChosenIn(static)
  BY <1>1 DEF StaticInv
<1>3. Given("nas_set_plmn") = OfLine("nas_set_plmn")
  <2>1. \A k \in OfLine("nas_set_plmn") : k < at
    BY <1>1, NumbersOwned DEF OfLine, Current
  <2> QED
    BY <1>1, <2>1, NumbersOwned, Kinds DEF Given, Handled, OfLine, IsOption
<1>4. carries = IF "mode" \in DOMAIN s THEN Onto(s, Onto(p, [mcc |-> 0, mnc |-> 0])) ELSE s
  <2>1. Prepare(Current, static, zero) = cmd_nas_do_set_system_selection(static)
    BY SelectionIsSent, PreparesSelection
  <2> QED
    BY <2>1 DEF cmd_nas_do_set_system_selection, Request, Done
<1>5. ASSUME NEW f \in {"mcc", "mnc"}, NEW c, c = Owner["plmn"][f]
      PROVE  IF OfLine(c) = {} THEN f \notin DOMAIN p
                               ELSE f \in DOMAIN p /\ p[f] = line[LastOf(c)].arg[1].num
  <2>1. Given(c) = OfLine(c)
    BY <1>1, <1>5, NumbersOwned, OptionsAreTaken
  <2>2. f \in DOMAIN Owner["plmn"] /\ "plmn" \in DOMAIN Owner
    BY NumbersOwned
  <2>3. \/ OfLine(c) = {} /\ Keeps(Static0, static, "plmn", f)
        \/ \E j \in OfLine(c) :
              /\ IsLast(j, OfLine(c))
              /\ f \in DOMAIN p /\ p[f] = line[j].arg[1].num
    BY <1>1, <1>5, <2>1, <2>2 DEF StaticInv
  <2>4. f \notin DOMAIN Static0["plmn"]
    BY StaticDefaults
  <2> QED
    BY <2>3, <2>4, TheLast DEF Keeps
<1>6. /\ IF OfLine("nas_set_mcc") = {}
         THEN "mcc" \notin DOMAIN p
         ELSE "mcc" \in DOMAIN p /\ p["mcc"] = line[LastOf("nas_set_mcc")].arg[1].num
      /\ IF OfLine("nas_set_mnc") = {}
         THEN "mnc" \notin DOMAIN p
         ELSE "mnc" \in DOMAIN p /\ p["mnc"] = line[LastOf("nas_set_mnc")].arg[1].num
  BY <1>5, NumbersOwned
<1> HIDE DEF carries, s, p
<1>7. "mode" \in DOMAIN carries <=> "mode" \in DOMAIN s
  BY <1>2, <1>4 DEF Onto
<1>8. "mode" \in DOMAIN s =>
          /\ carries["mode"] = s["mode"]
          /\ "mcc" \in DOMAIN p => carries["mcc"] = p["mcc"]
          /\ "mnc" \in DOMAIN p => carries["mnc"] = p["mnc"]
  BY <1>2, <1>4 DEF Onto
<1>9. "mode" \in DOMAIN s =>
          IF "mcc" \in DOMAIN p /\ p["mcc"] # 0
          THEN "mnc" \in DOMAIN p /\ s["mode"] = "manual"
          ELSE s["mode"] = "automatic"
  BY <1>2 DEF ChosenIn, s, p
<1> QED
  BY <1>2, <1>3, <1>6, <1>7, <1>8, <1>9 DEF Named

(* What is asked of a request that is sent stays so: the line only grows by *)
(* a selection, which is no option.                                         *)
LEMMA RequestStays ==
    ASSUME LineInv, LastInv, PassInv, SentInv, Next, sent # <<>>, NEW e,
           e.for \in DOMAIN line
    PROVE  /\ CarriesFor(e) => CarriesFor(e)'
           /\ SelectsFor(e) => SelectsFor(e)'
<1>1. line' = line \/ line' = Append(line, SystemSelection)
  BY LineGrows DEF SentInv, PassInv
<1>2. ASSUME NEW c, c # SystemSelection.cmd
      PROVE  /\ OfLine(c)' = OfLine(c)
             /\ LastOf(c)' = LastOf(c)
             /\ OfLine(c) # {} => line'[LastOf(c)] = line[LastOf(c)]
             /\ OfLine(c) # {} => LastValue(c)' = LastValue(c)
             /\ \A default : ValueOr(c, default)' = ValueOr(c, default)
  <2>1. OfLine(c)' = OfLine(c)
    <3>1. CASE line' = line
      BY <3>1 DEF OfLine, Gives
    <3>2. CASE line' = Append(line, SystemSelection)
      <4>1. /\ DOMAIN line = 1 .. Len(line) /\ DOMAIN line' = 1 .. Len(line) + 1
            /\ \A i \in 1 .. Len(line) : line'[i] = line[i]
            /\ line'[Len(line) + 1] = SystemSelection /\ Len(line) \in Nat
        BY <3>2, Appended, SequenceDomain DEF LineInv
      <4> DEFINE gives(x) == x.cmd = c /\ Gives(c, x.arg)
      <4>2. OfLine(c)' = {j \in DOMAIN line' : gives(line'[j])}
        BY DEF OfLine, Gives
      <4>3. OfLine(c) = {j \in DOMAIN line : gives(line[j])}
        BY DEF OfLine
      <4>4. ~gives(SystemSelection)
        BY <1>2
      <4> HIDE DEF gives
      <4>5. \A j \in DOMAIN line' : gives(line'[j]) <=> j \in DOMAIN line /\ gives(line[j])
        BY <4>1, <4>4
      <4> QED
        BY <4>1, <4>2, <4>3, <4>5
    <3> QED
      BY <1>1, <3>1, <3>2
  <2>2. LastOf(c)' = LastOf(c)
    BY <2>1 DEF LastOf
  <2>3. OfLine(c) # {} => LastOf(c) \in DOMAIN line
    BY HasALast DEF OfLine
  <2>4. OfLine(c) # {} => line'[LastOf(c)] = line[LastOf(c)]
    BY <2>3, LineGrows
  <2>5. OfLine(c) # {} => LastValue(c)' = LastValue(c)
    BY <2>2, <2>4 DEF LastValue, Meant, Chars
  <2>6. \A default : ValueOr(c, default)' = ValueOr(c, default)
    BY <2>1, <2>5 DEF ValueOr
  <2> QED
    BY <2>1, <2>2, <2>4, <2>5, <2>6
<1>3. ASSUME NEW c, NEW h \in HelpOptions(c)
      PROVE  h[1] # SystemSelection.cmd
  BY <1>3, SelectionIsSent DEF HelpOptions
<1>4. CarriesFor(e) => CarriesFor(e)'
  <2>1. line'[e.for] = line[e.for]
    BY LineGrows
  <2>2. \A c \in {"wms_send_message_smsc", "wms_send_message_target", "wms_send_message_flash"} :
           c # SystemSelection.cmd
    BY SelectionIsSent
  <2>3. \A c, default : c # SystemSelection.cmd => ValueOr(c, default)' = ValueOr(c, default)
    BY <1>2
  <2>4. ValueOr("wms_send_message_smsc", <<>>)' = ValueOr("wms_send_message_smsc", <<>>)
          /\ ValueOr("wms_send_message_target", <<>>)' = ValueOr("wms_send_message_target", <<>>)
          /\ ValueOr("wms_send_message_flash", FALSE)' = ValueOr("wms_send_message_flash", FALSE)
    BY <2>2, <2>3
  <2> QED
    BY <1>2, <1>3, <2>1, <2>4 DEF CarriesFor
<1>5. SelectsFor(e) => SelectsFor(e)'
  <2>1. \A c \in {"nas_set_mcc", "nas_set_mnc", "nas_set_plmn"} : c # SystemSelection.cmd
    BY SelectionIsSent
  <2> QED
    BY <1>2, <2>1 DEF SelectsFor, Named
<1> QED
  BY <1>4, <1>5

(* Every step keeps the two properties.                                     *)
LEMMA CarriesStep ==
    ASSUME LineInv, LastInv, PassInv, SentInv, StaticInv, AsTheHelpAsks, Next,
           CarriesTheOptionsGiven, SelectsTheNetworkGiven
    PROVE  CarriesTheOptionsGiven' /\ SelectsTheNetworkGiven'
<1>1. \A i \in DOMAIN sent : CarriesFor(sent[i]) /\ SelectsFor(sent[i])
  BY ForEachRequest
<1>2. \A i \in DOMAIN sent : \A e : e = sent[i] => CarriesFor(e)' /\ SelectsFor(e)'
  <2> SUFFICES ASSUME NEW i \in DOMAIN sent, NEW e, e = sent[i]
               PROVE  CarriesFor(e)' /\ SelectsFor(e)'
    OBVIOUS
  <2>1. sent # <<>> /\ e.for \in DOMAIN line
    BY SequenceDomain DEF SentInv, Requested
  <2> QED
    BY <1>1, <2>1, RequestStays
<1>3. \/ sent' = sent
      \/ \E zero : Sends(zero)
  BY DEF Next, Type, Open, Skip, ConnectFails, RequestFails, RunCommand, EndOfPass, Answered,
         Over, vars, Sends
<1>4. \A i \in DOMAIN sent' : \A e : e = sent'[i] => CarriesFor(e)' /\ SelectsFor(e)'
  <2>1. CASE sent' = sent
    BY <1>2, <2>1
  <2>2. ASSUME NEW zero, Sends(zero)
        PROVE  \A i \in DOMAIN sent' : \A e : e = sent'[i] => CarriesFor(e)' /\ SelectsFor(e)'
    <3>1. PICK new : new = [name |-> Current.cmd,
                            carries |-> Prepare(Current, static, zero).request.carries,
                            for |-> at]
      OBVIOUS
    <3>2. line' = line /\ sent' = Append(sent, new)
      BY <2>2, <3>1, SendsOn
    <3>3. CarriesFor(new) /\ SelectsFor(new)
      BY <2>2, <3>1, RequestCarries, RequestSelects
    <3>4. CarriesFor(new)' /\ SelectsFor(new)'
      <4>1. \A c : OfLine(c)' = OfLine(c)
        BY <3>2 DEF OfLine, Gives
      <4>2. \A c : LastOf(c)' = LastOf(c)
        BY <4>1 DEF LastOf
      <4>3. CarriesFor(new)'
        <5>1. \A c : LastValue(c)' = LastValue(c)
          BY <3>2, <4>2 DEF LastValue, Meant, Chars
        <5>2. \A c, default : ValueOr(c, default)' = ValueOr(c, default)
          BY <4>1, <5>1 DEF ValueOr
        <5> QED
          BY <3>2, <3>3, <4>1, <5>1, <5>2 DEF CarriesFor
      <4>4. SelectsFor(new)'
        BY <3>2, <3>3, <4>1, <4>2 DEF SelectsFor, Named
      <4> QED
        BY <4>3, <4>4
    <3>5. \A i \in DOMAIN sent' : (i \in DOMAIN sent /\ sent'[i] = sent[i]) \/ sent'[i] = new
      BY <3>2, Appended, SequenceDomain DEF SentInv
    <3> QED
      BY <1>2, <3>4, <3>5
  <2> QED
    BY <1>3, <2>1, <2>2
<1>5. /\ (\A i \in DOMAIN sent : CarriesFor(sent[i]))' => CarriesTheOptionsGiven'
      /\ (\A i \in DOMAIN sent : SelectsFor(sent[i]))' => SelectsTheNetworkGiven'
  BY ForEachRequest, PTL
<1>6. \A i \in DOMAIN sent' : CarriesFor(sent[i])'
  BY <1>4 DEF CarriesFor, ValueOr, LastValue
<1>7. \A i \in DOMAIN sent' : SelectsFor(sent[i])'
  BY <1>4 DEF SelectsFor, Named
<1> QED
  BY <1>5, <1>6, <1>7

(***************************************************************************)
(* The invariant and what follows from it.                                  *)
(***************************************************************************)
LEMMA InitInv == Init => CommandsInv
<1> SUFFICES ASSUME Init PROVE CommandsInv
  OBVIOUS
<1>1. /\ IsSequence(<<>>) /\ Len(<<>>) = 0 /\ DOMAIN <<>> = {}
  BY DEF IsSequence
<1>2. line = <<>> /\ sent = <<>> /\ static = Static0 /\ pass = "typing" /\ at = 1
        /\ waiting = FALSE /\ ok = TRUE /\ shown = NothingShown
  BY DEF Init
<1>3. LineInv /\ LastInv /\ SentInv
  BY <1>1, <1>2 DEF LineInv, LastInv, SentInv, Requested, Served
<1>4. PassInv
  <2>1. at \in 1 .. Len(line) + 1 /\ shown.fields = {}
    BY <1>1, <1>2 DEF NothingShown
  <2> QED
    BY <1>2, <2>1 DEF PassInv
<1>5. SelectInv
  BY <1>1, <1>2 DEF SelectInv, Selecting
<1>6. StaticInv
  <2>1. \A c : Given(c) = {}
    BY <1>1, <1>2 DEF Given, OfLine
  <2>2. DOMAIN static["plmn"] = {} /\ DOMAIN static["sel_req"] = {}
    BY <1>1, <1>2, StaticDefaults
  <2> QED
    BY <1>2, <2>1, <2>2 DEF StaticInv, Keeps
<1>7. CarriesTheOptionsGiven /\ SelectsTheNetworkGiven
  BY <1>1, <1>2 DEF CarriesTheOptionsGiven, SelectsTheNetworkGiven
<1> QED
  BY <1>3, <1>4, <1>5, <1>6, <1>7 DEF CommandsInv

LEMMA NextInv == CommandsInv /\ [Next]_vars => CommandsInv'
<1> SUFFICES ASSUME CommandsInv, [Next]_vars PROVE CommandsInv'
  OBVIOUS
<1>1. CASE Next
  <2>1. LineInv' /\ LastInv'
    BY <1>1, LineGrows, LastStep DEF CommandsInv
  <2>2. PassInv' /\ SentInv' /\ SelectInv' /\ StaticInv'
    BY <1>1, PassStep, SentStep, SelectStep, StaticStep DEF CommandsInv
  <2>3. AsTheHelpAsks' <=> AsTheHelpAsks
    BY DEF AsTheHelpAsks
  <2>4. AsTheHelpAsks => CarriesTheOptionsGiven' /\ SelectsTheNetworkGiven'
    BY <1>1, CarriesStep DEF CommandsInv
  <2> QED
    BY <2>1, <2>2, <2>3, <2>4 DEF CommandsInv
<1>2. CASE UNCHANGED vars
  <2> USE <1>2 DEF vars, CommandsInv
  <2>1. LineInv' /\ LastInv' /\ PassInv'
    BY DEF LineInv, LastInv, OfLine, Gives, PassInv
  <2>2. SentInv'
    BY DEF SentInv, Requested, Served
  <2>3. \A k : Handled(k)' <=> Handled(k)
    BY DEF Handled
  <2>4. SelectInv'
    BY <2>3 DEF SelectInv, Selecting
  <2>5. \A c : Given(c)' = Given(c)
    BY <2>3 DEF Given, OfLine, Gives
  <2>6. ChosenIn(static)' <=> ChosenIn(static)
    BY DEF ChosenIn
  <2>7. StaticInv'
    BY <2>5, <2>6 DEF StaticInv, Keeps
  <2>8. AsTheHelpAsks => CarriesTheOptionsGiven' /\ SelectsTheNetworkGiven'
    <3>1. line' = line /\ sent' = sent
      OBVIOUS
    <3>2. \A c : OfLine(c)' = OfLine(c)
      BY <3>1 DEF OfLine, Gives
    <3>3. \A c : LastOf(c)' = LastOf(c)
      BY <3>2 DEF LastOf
    <3>7. \A c : LastValue(c)' = LastValue(c)
      BY <3>1, <3>3 DEF LastValue, Meant, Chars
    <3>8. \A c, default : ValueOr(c, default)' = ValueOr(c, default)
      BY <3>2, <3>7 DEF ValueOr
    <3>9. ASSUME NEW e, CarriesFor(e) PROVE CarriesFor(e)'
      BY <3>1, <3>2, <3>7, <3>8, <3>9 DEF CarriesFor
    <3>4. ASSUME NEW i \in DOMAIN sent, CarriesFor(sent[i])
          PROVE  CarriesFor(sent[i])'
      <4>1. PICK e : e = sent[i]
        OBVIOUS
      <4>2. CarriesFor(e)'
        BY <3>4, <3>9, <4>1
      <4>3. e = sent'[i]
        BY <3>1, <4>1
      <4> QED
        BY <4>2, <4>3 DEF CarriesFor
    <3>5. ASSUME NEW i \in DOMAIN sent, SelectsFor(sent[i])
          PROVE  SelectsFor(sent[i])'
      BY <3>1, <3>2, <3>3, <3>5 DEF SelectsFor, Named
    <3>6. /\ CarriesTheOptionsGiven' <=> (\A i \in DOMAIN sent : CarriesFor(sent[i]))'
          /\ SelectsTheNetworkGiven' <=> (\A i \in DOMAIN sent : SelectsFor(sent[i]))'
      BY ForEachRequest, PTL
    <3> QED
      BY <3>1, <3>4, <3>5, <3>6, ForEachRequest
  <2>9. AsTheHelpAsks' <=> AsTheHelpAsks
    BY DEF AsTheHelpAsks
  <2> QED
    BY <2>1, <2>2, <2>4, <2>7, <2>8, <2>9
<1> QED
  BY <1>1, <1>2

LEMMA AlwaysInv == Spec => []CommandsInv
BY InitInv, NextInv, PTL DEF Spec

(* The line holds commands of the program, the passes take them in turn,    *)
(* and every request is for a place in the line: of uqmi_run_commands, for  *)
(* every line the program can be given.                                     *)
THEOREM CommandsTypeCorrect == Spec => []CommandsTypeOK
<1>1. CommandsInv => CommandsTypeOK
  <2> SUFFICES ASSUME CommandsInv PROVE CommandsTypeOK
    OBVIOUS
  <2>1. \A i \in DOMAIN sent : sent[i].for \in DOMAIN line /\ sent[i].name \in Commands
    BY DEF CommandsInv, SentInv, Requested
  <2> QED
    BY <2>1 DEF CommandsTypeOK, CommandsInv, LineInv, PassInv, SentInv
<1> QED
  BY <1>1, AlwaysInv, PTL

(* The modem is sent one request for each command of the line, in the order *)
(* of the line, nothing after one that failed, and the system selection     *)
(* once, as the last, exactly if an item of the line selects (use_sel_req). *)
THEOREM SendsCorrect == Spec => []SendsWhatTheLineSays
<1>1. CommandsInv => SendsWhatTheLineSays
  <2> SUFFICES ASSUME CommandsInv PROVE SendsWhatTheLineSays
    OBVIOUS
  <2> USE DEF CommandsInv
  <2>1. /\ Len(sent) \in Nat /\ DOMAIN sent = 1 .. Len(sent)
        /\ Len(line) \in Nat /\ DOMAIN line = 1 .. Len(line)
    BY SequenceDomain DEF LineInv, SentInv
  <2>2. \A i \in DOMAIN sent : sent[i].for \in Requested /\ sent[i].name = line[sent[i].for].cmd
    BY DEF SentInv
  <2>3. ASSUME NEW i \in DOMAIN sent, sent[i].name = SystemSelection.cmd
        PROVE  i = Len(sent)
    <3>1. sent[i].for = Len(line)
      BY <2>2, <2>3 DEF LineInv, Requested
    <3>2. SUFFICES ASSUME i < Len(sent) PROVE FALSE
      BY <2>1
    <3>3. Len(sent) \in DOMAIN sent /\ sent[i].for < sent[Len(sent)].for
      BY <2>1, <3>2 DEF SentInv
    <3>4. sent[Len(sent)].for \in 1 .. Len(line)
      BY <2>1, <2>2, <3>3 DEF Requested
    <3> QED
      BY <2>1, <3>1, <3>3, <3>4
  <2>4. ASSUME pass = "over", ok
        PROVE  /\ Requested \subseteq Served
               /\ (\E k \in DOMAIN line : line[k].cmd \in Selects)
                     <=> (\E i \in DOMAIN sent : sent[i].name = SystemSelection.cmd)
    <3>1. Requested \subseteq Served
      BY <2>4 DEF SentInv
    <3>2. (\E k \in DOMAIN line : line[k].cmd \in Selects) <=> Selecting
      BY <2>4 DEF SelectInv
    <3>3. ASSUME Selecting PROVE \E i \in DOMAIN sent : sent[i].name = SystemSelection.cmd
      <4>1. PICK k \in DOMAIN line : line[k] = SystemSelection
        BY <3>3 DEF Selecting
      <4>2. k \in Requested
        BY <4>1, SelectionIsSent DEF Requested
      <4>3. PICK i \in DOMAIN sent : sent[i].for = k
        BY <3>1, <4>2 DEF Served
      <4> QED
        BY <2>2, <4>1, <4>3
    <3>4. ASSUME NEW i \in DOMAIN sent, sent[i].name = SystemSelection.cmd PROVE Selecting
      BY <2>2, <3>4 DEF LineInv, Requested, Selecting
    <3> QED
      BY <3>1, <3>2, <3>3, <3>4
  <2> QED
    BY <2>2, <2>3, <2>4 DEF SendsWhatTheLineSays, SentInv, Served
<1> QED
  BY <1>1, AlwaysInv, PTL

(* Whatever the order and the length of the line, a request carries each    *)
(* option the help lists for its command with the last value given that     *)
(* sets something (`--storage sim' does not), and no value of its own for   *)
(* one that was not given; a text is sent with the numbers given last: if   *)
(* the values are such as the help asks for.  Nothing a command leaves in   *)
(* the structures, and no option of another command, gets into it.          *)
THEOREM CarriesCorrect ==
    ASSUME AsTheHelpAsks
    PROVE  Spec => []CarriesTheOptionsGiven
<1>1. CommandsInv => CarriesTheOptionsGiven
  BY DEF CommandsInv
<1> QED
  BY <1>1, AlwaysInv, PTL

(* --set-plmn registers at the network the last --mcc and --mnc name, or at *)
(* none, wherever they stand on the line; and never with one number alone.  *)
THEOREM SelectsCorrect ==
    ASSUME AsTheHelpAsks
    PROVE  Spec => []SelectsTheNetworkGiven
<1>1. CommandsInv => SelectsTheNetworkGiven
  BY DEF CommandsInv
<1> QED
  BY <1>1, AlwaysInv, PTL

(***************************************************************************)
(* One command does not interfere with another.  What the options fill is a *)
(* recursive function over the line; that there is one comes from the order *)
(* of the naturals being well-founded.                                      *)
(***************************************************************************)

LEMMA Smallest ==
    ASSUME NEW S, S \subseteq Nat, S # {}
    PROVE  \E m \in S : \A k \in S : m <= k
<1> DEFINE R == {p \in Nat \X Nat : p[1] < p[2]}
<1>1. IsWellFoundedOn(R, Nat)
  <2>1. OpToRel(<, Nat) = R
    BY Zenon DEF OpToRel
  <2> QED
    BY <2>1, NatLessThanWellFounded, Zenon
<1>2. PICK m \in S : \A k \in S : ~(<<k, m>> \in R)
  <2> HIDE DEF R
  <2> QED
    BY <1>1, WFMin
<1>3. ASSUME NEW k \in S
      PROVE  m <= k
  <2>1. ~(<<k, m>> \in R) /\ k \in Nat /\ m \in Nat
    BY <1>2
  <2> QED
    BY <2>1
<1> QED
  BY <1>3

IsFilling(items, k, g) ==
    g = [n \in 0 .. k |-> IF n = 0 THEN Static0 ELSE Fill(g[n - 1], items[n])]

LEMMA FillingExists ==
    ASSUME NEW items, NEW L \in Nat
    PROVE  \E g : IsFilling(items, L, g)
<1> DEFINE Lacking == {k \in Nat : ~ \E g : IsFilling(items, k, g)}
<1> SUFFICES ASSUME Lacking # {} PROVE FALSE
  OBVIOUS
<1>1. PICK m \in Lacking : \A k \in Lacking : m <= k
  <2> HIDE DEF Lacking
  <2>1. Lacking \subseteq Nat
    BY DEF Lacking
  <2> QED
    BY <2>1, Smallest
<1>2. m \in Nat /\ ~ \E g : IsFilling(items, m, g)
  BY <1>1
<1>3. CASE m = 0
  <2> DEFINE g == [n \in 0 .. 0 |-> Static0]
  <2>1. g = [n \in 0 .. 0 |-> IF n = 0 THEN Static0 ELSE Fill(g[n - 1], items[n])]
    OBVIOUS
  <2> QED
    BY <1>2, <1>3, <2>1 DEF IsFilling
<1>4. CASE m # 0
  <2>1. m - 1 \in Nat /\ m - 1 < m
    BY <1>2, <1>4
  <2>2. m - 1 \notin Lacking
    BY <1>1, <2>1
  <2>3. PICK g : IsFilling(items, m - 1, g)
    BY <2>1, <2>2
  <2> DEFINE h == [n \in 0 .. m |-> IF n = m THEN Fill(g[m - 1], items[m]) ELSE g[n]]
  <2>4. \A n \in 0 .. m - 1 : g[n] = IF n = 0 THEN Static0 ELSE Fill(g[n - 1], items[n])
    BY <2>3 DEF IsFilling
  <2>5. ASSUME NEW n \in 0 .. m
        PROVE  h[n] = IF n = 0 THEN Static0 ELSE Fill(h[n - 1], items[n])
    <3>1. CASE n = 0
      <4>1. 0 \in 0 .. m - 1 /\ n # m
        BY <1>4, <2>1, <3>1
      <4>2. h[n] = g[0]
        BY <3>1, <4>1
      <4> QED
        BY <2>4, <3>1, <4>1, <4>2
    <3>2. CASE n # 0 /\ n = m
      <4>1. n - 1 \in 0 .. m /\ n - 1 # m
        BY <1>2, <3>2
      <4>2. h[n - 1] = g[m - 1] /\ h[n] = Fill(g[m - 1], items[m])
        BY <3>2, <4>1
      <4> QED
        BY <3>2, <4>2
    <3>3. CASE n # 0 /\ n # m
      <4>1. n \in 0 .. m - 1 /\ n - 1 \in 0 .. m /\ n - 1 # m
        BY <1>2, <3>3
      <4>2. h[n] = g[n] /\ h[n - 1] = g[n - 1]
        BY <3>3, <4>1
      <4> QED
        BY <2>4, <3>3, <4>1, <4>2
    <3> QED
      BY <3>1, <3>2, <3>3
  <2>6. h = [n \in 0 .. m |-> h[n]]
    OBVIOUS
  <2> HIDE DEF h
  <2>7. IsFilling(items, m, h)
    BY <2>5, <2>6 DEF IsFilling
  <2> QED
    BY <1>2, <2>7
<1> QED
  BY <1>3, <1>4

(* An option of the line fills what the ones before it left; anything else  *)
(* leaves it.                                                               *)
LEMMA FillingSteps ==
    ASSUME NEW items, Len(items) \in Nat
    PROVE  /\ Filling(items)[0] = Static0
           /\ \A n \in 1 .. Len(items) :
                 Filling(items)[n] = Fill(Filling(items)[n - 1], items[n])
<1>1. Filling(items) = CHOOSE g : IsFilling(items, Len(items), g)
  BY DEF Filling, IsFilling
<1>2. IsFilling(items, Len(items), Filling(items))
  BY <1>1, FillingExists
<1>3. \A n \in 0 .. Len(items) :
         Filling(items)[n] = IF n = 0 THEN Static0 ELSE Fill(Filling(items)[n - 1], items[n])
  BY <1>2 DEF IsFilling
<1> QED
  BY <1>3

(* An item added to a line changes nothing of what those before it fill.    *)
LEMMA FillingGrows ==
    ASSUME NEW s, IsSequence(s), NEW e
    PROVE  \A k \in 0 .. Len(s) : Filling(Append(s, e))[k] = Filling(s)[k]
<1> DEFINE t == Append(s, e)
           Differing == {k \in 0 .. Len(s) : Filling(t)[k] # Filling(s)[k]}
<1> SUFFICES ASSUME Differing # {} PROVE FALSE
  OBVIOUS
<1>1. /\ Len(s) \in Nat /\ Len(t) = Len(s) + 1
      /\ \A i \in 1 .. Len(s) : t[i] = s[i]
  BY Appended DEF IsSequence
<1> HIDE DEF t
<1>2. /\ Filling(s)[0] = Static0 /\ Filling(t)[0] = Static0
      /\ \A n \in 1 .. Len(s) : Filling(s)[n] = Fill(Filling(s)[n - 1], s[n])
      /\ \A n \in 1 .. Len(s) + 1 : Filling(t)[n] = Fill(Filling(t)[n - 1], t[n])
  BY <1>1, FillingSteps
<1>3. PICK m \in Differing : \A k \in Differing : m <= k
  <2>1. Differing \subseteq Nat
    BY <1>1
  <2> HIDE DEF Differing
  <2> QED
    BY <2>1, Smallest
<1>4. m \in 0 .. Len(s) /\ Filling(t)[m] # Filling(s)[m]
  BY <1>3
<1>5. m # 0
  BY <1>2, <1>4
<1>6. m \in 1 .. Len(s) /\ m \in 1 .. Len(s) + 1 /\ m - 1 \in 0 .. Len(s) /\ ~(m <= m - 1)
  BY <1>1, <1>4, <1>5
<1>7. Filling(t)[m - 1] = Filling(s)[m - 1]
  BY <1>3, <1>6
<1> QED
  BY <1>1, <1>2, <1>4, <1>6, <1>7

LEMMA FilledGrows ==
    ASSUME LineInv, line' = line \/ line' = Append(line, SystemSelection)
    PROVE  /\ \A k \in 0 .. Len(line) : Filling(line')[k] = Filling(line)[k]
           /\ \A k \in DOMAIN line : line'[k] = line[k]
           /\ Filled' = Filled
<1>1. IsSequence(line) /\ Len(line) \in Nat /\ DOMAIN line = 1 .. Len(line)
  BY SequenceDomain DEF LineInv
<1>2. CASE line' = line
  BY <1>2 DEF Filled
<1>3. CASE line' = Append(line, SystemSelection)
  <2> DEFINE t == Append(line, SystemSelection)
  <2>1. /\ IsSequence(t) /\ Len(t) = Len(line) + 1
        /\ \A k \in 1 .. Len(line) : t[k] = line[k]
        /\ t[Len(line) + 1] = SystemSelection
    BY <1>1, Appended
  <2>2. \A k \in 0 .. Len(line) : Filling(t)[k] = Filling(line)[k]
    BY <1>1, FillingGrows
  <2> HIDE DEF t
  <2>3. Filling(t)[Len(t)] = Fill(Filling(t)[Len(t) - 1], t[Len(t)])
    <3>1. Len(t) \in Nat /\ Len(t) \in 1 .. Len(t)
      BY <1>1, <2>1
    <3> QED
      BY <3>1, FillingSteps
  <2>4. Len(t) - 1 = Len(line) /\ Len(line) \in 0 .. Len(line)
    BY <1>1, <2>1
  <2>5. Filling(t)[Len(t)] = Fill(Filling(line)[Len(line)], SystemSelection)
    BY <2>1, <2>2, <2>3, <2>4
  <2>6. ~IsOption(SystemSelection)
    BY SelectionIsSent DEF IsOption
  <2>7. Filling(t)[Len(t)] = Filling(line)[Len(line)]
    BY <2>5, <2>6 DEF Fill
  <2>8. line' = t
    BY <1>3 DEF t
  <2>9. Filled' = Filling(t)[Len(t)]
    BY <2>8 DEF Filled
  <2> QED
    BY <1>1, <2>1, <2>2, <2>7, <2>8, <2>9 DEF Filled
<1> QED
  BY <1>2, <1>3

-----------------------------------------------------------------------------
(* The fields the commands write themselves, before they read them; the     *)
(* structures are alike but for these.                                      *)
Scratch ==
    [wds_stn_req  |-> {"packet_data_handle"},
     wds_mp_req   |-> {"profile_type", "profile_index"},
     wds_cp_req   |-> {"profile_type"},
     dms_req_data |-> {"pin_id"},
     sel_req      |-> {"mode"},
     tx_rx_req    |-> {"radio_interface"},
     dmreq        |-> {"memory_index"},
     gmreq        |-> {"memory_index"}]

Rest(s, q) == [f \in DOMAIN s[q] \ Scratch[q] |-> s[q][f]]
Alike(s, t) ==
    /\ DOMAIN s = DOMAIN Static0 /\ DOMAIN t = DOMAIN Static0
    /\ \A q \in DOMAIN Static0 \ DOMAIN Scratch : s[q] = t[q]
    /\ \A q \in DOMAIN Scratch : Rest(s, q) = Rest(t, q)

(* A command makes of structures that are alike the same request, and       *)
(* leaves structures that are alike.                                        *)
Matches(r, u, s) == r.request.carries = u.request.carries /\ Alike(r.static, s)

LEMMA StructuresAre ==
    /\ DOMAIN Scratch \subseteq DOMAIN Static0
    /\ {"wds_sn_req", "wds_endpoint_info", "plmn", "lmreq", "_send", "wda_aggregation_info",
        "uim"} \subseteq DOMAIN Static0 \ DOMAIN Scratch
<1>1. DOMAIN Scratch = {"wds_stn_req", "wds_mp_req", "wds_cp_req", "dms_req_data", "sel_req",
                        "tx_rx_req", "dmreq", "gmreq"}
  BY DEF Scratch
<1>2. DOMAIN Static0 = UNION {DOMAIN WdsStatic, DOMAIN WdsEndpoint, DOMAIN DmsStatic,
                              DOMAIN NasStatic, DOMAIN WmsStatic, DOMAIN WdaStatic,
                              DOMAIN UimStatic}
  BY DEF Static0, Onto
<1>3. /\ DOMAIN WdsStatic = {"wds_sn_req", "wds_stn_req", "wds_mp_req", "wds_cp_req"}
      /\ DOMAIN WdsEndpoint = {"wds_endpoint_info"} /\ DOMAIN DmsStatic = {"dms_req_data"}
      /\ DOMAIN NasStatic = {"sel_req", "plmn", "tx_rx_req"}
      /\ DOMAIN WmsStatic = {"lmreq", "dmreq", "gmreq", "_send"}
      /\ DOMAIN WdaStatic = {"wda_aggregation_info"} /\ DOMAIN UimStatic = {"uim"}
  BY DEF WdsStatic, WdsEndpoint, DmsStatic, NasStatic, WmsStatic, WdaStatic, UimStatic
<1> QED
  BY <1>1, <1>2, <1>3

LEMMA AlikeItself == ASSUME NEW s, DOMAIN s = DOMAIN Static0 PROVE Alike(s, s)
BY DEF Alike

LEMMA AlikeBoth == ASSUME NEW s, NEW t, NEW u, Alike(s, t), Alike(t, u) PROVE Alike(s, u)
BY DEF Alike

LEMMA AlikeSet ==
    ASSUME NEW s, DOMAIN s = DOMAIN Static0, NEW q \in DOMAIN Scratch,
           NEW fields, DOMAIN fields \subseteq Scratch[q]
    PROVE  Alike(Set(s, q, fields), s)
<1> DEFINE t == Set(s, q, fields)
<1>1. /\ q \in DOMAIN s /\ DOMAIN t = DOMAIN s /\ t[q] = Onto(fields, s[q])
      /\ \A p \in DOMAIN s : p # q => t[p] = s[p]
  BY StructuresAre DEF Set
<1> HIDE DEF t
<1>2. Rest(t, q) = Rest(s, q)
  <2>1. DOMAIN t[q] = DOMAIN fields \cup DOMAIN s[q]
    BY <1>1 DEF Onto
  <2>2. DOMAIN t[q] \ Scratch[q] = DOMAIN s[q] \ Scratch[q]
    BY <2>1
  <2>3. \A f \in DOMAIN s[q] \ Scratch[q] : t[q][f] = s[q][f]
    BY <1>1 DEF Onto
  <2> QED
    BY <2>2, <2>3 DEF Rest
<1>3. \A p \in DOMAIN Scratch : Rest(t, p) = Rest(s, p)
  <2> SUFFICES ASSUME NEW p \in DOMAIN Scratch, p # q PROVE Rest(t, p) = Rest(s, p)
    BY <1>2
  <2>1. t[p] = s[p]
    BY <1>1, StructuresAre
  <2> QED
    BY <2>1 DEF Rest
<1> QED
  BY <1>1, <1>3 DEF Alike, t

(* What is read of structures that are alike.                               *)
LEMMA AlikeField ==
    ASSUME NEW s, NEW t, Alike(s, t), NEW q \in DOMAIN Scratch, NEW f, f \notin Scratch[q]
    PROVE  /\ f \in DOMAIN s[q] <=> f \in DOMAIN t[q]
           /\ (f \in DOMAIN t[q] => s[q][f] = t[q][f])
<1>1. Rest(s, q) = Rest(t, q)
  BY DEF Alike
<1>2. /\ DOMAIN Rest(s, q) = DOMAIN s[q] \ Scratch[q]
      /\ DOMAIN Rest(t, q) = DOMAIN t[q] \ Scratch[q]
      /\ f \in DOMAIN s[q] => Rest(s, q)[f] = s[q][f]
      /\ f \in DOMAIN t[q] => Rest(t, q)[f] = t[q][f]
  BY DEF Rest
<1> QED
  BY <1>1, <1>2

LEMMA AlikeOnto ==
    ASSUME NEW s, NEW t, Alike(s, t), NEW q \in DOMAIN Scratch,
           NEW fields, Scratch[q] \subseteq DOMAIN fields
    PROVE  Onto(fields, s[q]) = Onto(fields, t[q])
<1>1. \A f : f \notin DOMAIN fields =>
         /\ f \in DOMAIN s[q] <=> f \in DOMAIN t[q]
         /\ f \in DOMAIN t[q] => s[q][f] = t[q][f]
  BY AlikeField
<1>2. DOMAIN fields \cup DOMAIN s[q] = DOMAIN fields \cup DOMAIN t[q]
  BY <1>1
<1> QED
  BY <1>1, <1>2 DEF Onto

LEMMA SetReads ==
    ASSUME NEW s, DOMAIN s = DOMAIN Static0, NEW q \in DOMAIN Scratch, NEW fields
    PROVE  Set(s, q, fields)[q] = Onto(fields, s[q])
BY StructuresAre DEF Set

(* The results.                                                             *)
LEMMA DoneMatches ==
    ASSUME NEW s, NEW x, NEW y, Alike(x, s)
    PROVE  Matches(Done(x), Done(y), s) /\ Matches(Exit(x), Exit(y), s)
BY DEF Matches, Done, Exit, NoRequest

LEMMA RequestMatches ==
    ASSUME NEW s, NEW x, NEW y, Alike(x, s), NEW name, NEW fields
    PROVE  Matches(Request(x, name, fields), Request(y, name, fields), s)
BY DEF Matches, Done, Request, NoRequest

LEMMA PlainMatches ==
    ASSUME NEW s, NEW x, NEW y, Alike(x, s), NEW name
    PROVE  Matches(Plain(x, name), Plain(y, name), s)
BY RequestMatches DEF Plain

(* The commands, one service after the other.                               *)

LEMMA CtlMatches ==
    ASSUME NEW s, NEW t, Alike(s, t), NEW a,
           NEW c \in CtlCommands
    PROVE  Matches(CtlPrepare(c, s, a), CtlPrepare(c, t, a), s)
<1>1. DOMAIN s = DOMAIN Static0 /\ DOMAIN t = DOMAIN Static0 /\ Alike(s, s)
  BY AlikeItself DEF Alike
<1>2. CASE c \in {"version", "sync"}
  <2>1. CtlPrepare(c, s, a) = Plain(s, c) /\ CtlPrepare(c, t, a) = Plain(t, c)
    BY <1>2 DEF CtlPrepare
  <2> QED
    BY <1>1, <2>1, PlainMatches DEF Plain
<1>3. CASE c = "get_client_id"
  <2>1. CtlPrepare(c, s, a) = get_client_id(s, a) /\ CtlPrepare(c, t, a) = get_client_id(t, a)
    BY <1>3 DEF CtlPrepare
  <2> QED
    BY <1>1, <2>1, DoneMatches DEF get_client_id
<1>4. CASE c = "ctl_set_data_format"
  <2>1. CtlPrepare(c, s, a) = ctl_set_data_format(s, a) /\ CtlPrepare(c, t, a) = ctl_set_data_format(t, a)
    BY <1>4 DEF CtlPrepare
  <2> QED
    BY <1>1, <2>1, DoneMatches DEF ctl_set_data_format
<1> QED
  BY <1>2, <1>3, <1>4 DEF CtlCommands

LEMMA WdsMatches ==
    ASSUME NEW s, NEW t, Alike(s, t), NEW a,
           NEW c \in WdsCommands
    PROVE  Matches(WdsPrepare(c, s, a), WdsPrepare(c, t, a), s)
<1>1. DOMAIN s = DOMAIN Static0 /\ DOMAIN t = DOMAIN Static0 /\ Alike(s, s)
  BY AlikeItself DEF Alike
<1>2. CASE c = "wds_start_network"
  <2>1. WdsPrepare(c, s, a) = wds_start_network(s) /\ WdsPrepare(c, t, a) = wds_start_network(t)
    BY <1>2 DEF WdsPrepare
  <2>2. s.wds_sn_req = t.wds_sn_req
    BY StructuresAre DEF Alike
  <2> QED
    BY <1>1, <2>1, <2>2, RequestMatches DEF wds_start_network
<1>3. CASE c = "wds_stop_network"
  <2> DEFINE fields == [packet_data_handle |-> Number(a, 32)]
             x == Set(s, "wds_stn_req", fields)
             y == Set(t, "wds_stn_req", fields)
  <2>1. WdsPrepare(c, s, a) = wds_stop_network(s, a) /\ WdsPrepare(c, t, a) = wds_stop_network(t, a)
    BY <1>3 DEF WdsPrepare
  <2>2. "wds_stn_req" \in DOMAIN Scratch /\ DOMAIN fields = Scratch["wds_stn_req"]
    BY DEF Scratch
  <2> HIDE DEF fields
  <2>3. Alike(x, s) /\ x["wds_stn_req"] = y["wds_stn_req"]
    BY <1>1, <2>2, AlikeSet, AlikeOnto, SetReads
  <2>4. Matches(Request(x, "wds_stop_network", x["wds_stn_req"]), Request(y, "wds_stop_network", y["wds_stn_req"]), s)
    BY <2>3, RequestMatches
  <2> QED
    BY <2>1, <2>4 DEF wds_stop_network, fields
<1>4. CASE c = "wds_modify_profile"
  <2> DEFINE fields == Profile(a)
             x == Set(s, "wds_mp_req", fields)
             y == Set(t, "wds_mp_req", fields)
  <2>1. WdsPrepare(c, s, a) = wds_modify_profile(s, a) /\ WdsPrepare(c, t, a) = wds_modify_profile(t, a)
    BY <1>4 DEF WdsPrepare
  <2>2. "wds_mp_req" \in DOMAIN Scratch /\ DOMAIN fields = Scratch["wds_mp_req"]
    BY DEF Scratch, Profile
  <2> HIDE DEF fields
  <2>3. Alike(x, s) /\ x["wds_mp_req"] = y["wds_mp_req"]
    BY <1>1, <2>2, AlikeSet, AlikeOnto, SetReads
  <2>4. Matches(Request(x, "wds_modify_profile", x["wds_mp_req"]), Request(y, "wds_modify_profile", y["wds_mp_req"]), s)
    BY <2>3, RequestMatches
  <2>5. Matches(Exit(s), Exit(t), s)
    BY <1>1, DoneMatches
  <2> QED
    BY <2>1, <2>4, <2>5 DEF wds_modify_profile, fields
<1>5. CASE c = "wds_get_profile_list"
  <2>1. WdsPrepare(c, s, a) = wds_get_profile_list(s, a) /\ WdsPrepare(c, t, a) = wds_get_profile_list(t, a)
    BY <1>5 DEF WdsPrepare
  <2> QED
    BY <1>1, <2>1, RequestMatches, DoneMatches DEF wds_get_profile_list
<1>6. CASE c = "wds_create_profile"
  <2> DEFINE fields == [profile_type |-> Word(a)]
             x == Set(s, "wds_cp_req", fields)
             y == Set(t, "wds_cp_req", fields)
  <2>1. WdsPrepare(c, s, a) = wds_create_profile(s, a) /\ WdsPrepare(c, t, a) = wds_create_profile(t, a)
    BY <1>6 DEF WdsPrepare
  <2>2. "wds_cp_req" \in DOMAIN Scratch /\ DOMAIN fields = Scratch["wds_cp_req"]
    BY DEF Scratch
  <2> HIDE DEF fields
  <2>3. Alike(x, s) /\ x["wds_cp_req"] = y["wds_cp_req"]
    BY <1>1, <2>2, AlikeSet, AlikeOnto, SetReads
  <2>4. Matches(Request(x, "wds_create_profile", x["wds_cp_req"]), Request(y, "wds_create_profile", y["wds_cp_req"]), s)
    BY <2>3, RequestMatches
  <2>5. Matches(Exit(s), Exit(t), s)
    BY <1>1, DoneMatches
  <2> QED
    BY <2>1, <2>4, <2>5 DEF wds_create_profile, fields
<1>7. CASE c = "wds_get_packet_service_status"
  <2>1. WdsPrepare(c, s, a) = wds_get_packet_service_status(s) /\ WdsPrepare(c, t, a) = wds_get_packet_service_status(t)
    BY <1>7 DEF WdsPrepare
  <2> QED
    BY <1>1, <2>1, PlainMatches DEF wds_get_packet_service_status
<1>8. CASE c = "wds_set_autoconnect_settings"
  <2>1. WdsPrepare(c, s, a) = wds_set_autoconnect_settings(s, a) /\ WdsPrepare(c, t, a) = wds_set_autoconnect_settings(t, a)
    BY <1>8 DEF WdsPrepare
  <2> QED
    BY <1>1, <2>1, DoneMatches DEF wds_set_autoconnect_settings
<1>9. CASE c = "wds_reset"
  <2>1. WdsPrepare(c, s, a) = wds_reset(s) /\ WdsPrepare(c, t, a) = wds_reset(t)
    BY <1>9 DEF WdsPrepare
  <2> QED
    BY <1>1, <2>1, PlainMatches DEF wds_reset
<1>10. CASE c = "wds_set_ip_family"
  <2>1. WdsPrepare(c, s, a) = wds_set_ip_family(s, a) /\ WdsPrepare(c, t, a) = wds_set_ip_family(t, a)
    BY <1>10 DEF WdsPrepare
  <2> QED
    BY <1>1, <2>1, RequestMatches, DoneMatches DEF wds_set_ip_family
<1>11. CASE c = "wds_bind_mux"
  <2>1. WdsPrepare(c, s, a) = wds_bind_mux(s, a) /\ WdsPrepare(c, t, a) = wds_bind_mux(t, a)
    BY <1>11 DEF WdsPrepare
  <2>2. s.wds_endpoint_info = t.wds_endpoint_info
    BY StructuresAre DEF Alike
  <2> QED
    BY <1>1, <2>1, <2>2, RequestMatches DEF wds_bind_mux
<1>12. CASE c = "wds_get_profile_settings"
  <2>1. WdsPrepare(c, s, a) = wds_get_profile_settings(s, a) /\ WdsPrepare(c, t, a) = wds_get_profile_settings(t, a)
    BY <1>12 DEF WdsPrepare
  <2> QED
    BY <1>1, <2>1, RequestMatches, DoneMatches DEF wds_get_profile_settings
<1>13. CASE c = "wds_get_current_settings"
  <2>1. WdsPrepare(c, s, a) = wds_get_current_settings(s) /\ WdsPrepare(c, t, a) = wds_get_current_settings(t)
    BY <1>13 DEF WdsPrepare
  <2> QED
    BY <1>1, <2>1, PlainMatches DEF wds_get_current_settings
<1>14. CASE c = "wds_get_default_profile"
  <2>1. WdsPrepare(c, s, a) = wds_get_default_profile(s, a) /\ WdsPrepare(c, t, a) = wds_get_default_profile(t, a)
    BY <1>14 DEF WdsPrepare
  <2> QED
    BY <1>1, <2>1, RequestMatches, DoneMatches DEF wds_get_default_profile
<1>15. CASE c = "wds_set_default_profile"
  <2>1. WdsPrepare(c, s, a) = wds_set_default_profile(s, a) /\ WdsPrepare(c, t, a) = wds_set_default_profile(t, a)
    BY <1>15 DEF WdsPrepare
  <2> QED
    BY <1>1, <2>1, RequestMatches, DoneMatches DEF wds_set_default_profile
<1>16. CASE c = "wds_delete_profile"
  <2>1. WdsPrepare(c, s, a) = wds_delete_profile(s, a) /\ WdsPrepare(c, t, a) = wds_delete_profile(t, a)
    BY <1>16 DEF WdsPrepare
  <2> QED
    BY <1>1, <2>1, RequestMatches, DoneMatches DEF wds_delete_profile
<1>17. CASE c = "wds_set_lte_attach_pdn"
  <2>1. WdsPrepare(c, s, a) = wds_set_lte_attach_pdn(s) /\ WdsPrepare(c, t, a) = wds_set_lte_attach_pdn(t)
    BY <1>17 DEF WdsPrepare
  <2> QED
    BY <1>1, <2>1, DoneMatches DEF wds_set_lte_attach_pdn
<1> QED
  BY <1>2, <1>3, <1>4, <1>5, <1>6, <1>7, <1>8, <1>9, <1>10, <1>11, <1>12, <1>13, <1>14, <1>15, <1>16, <1>17 DEF WdsCommands

LEMMA DmsMatches ==
    ASSUME NEW s, NEW t, Alike(s, t), NEW a,
           NEW c \in DmsCommands
    PROVE  Matches(DmsPrepare(c, s, a), DmsPrepare(c, t, a), s)
<1>1. DOMAIN s = DOMAIN Static0 /\ DOMAIN t = DOMAIN Static0 /\ Alike(s, s)
  BY AlikeItself DEF Alike
<1>2. CASE c = "dms_get_capabilities"
  <2>1. DmsPrepare(c, s, a) = dms_get_capabilities(s) /\ DmsPrepare(c, t, a) = dms_get_capabilities(t)
    BY <1>2 DEF DmsPrepare, DmsIds
  <2> QED
    BY <1>1, <2>1, PlainMatches DEF dms_get_capabilities
<1>3. CASE c = "dms_get_pin_status"
  <2>1. DmsPrepare(c, s, a) = dms_get_pin_status(s) /\ DmsPrepare(c, t, a) = dms_get_pin_status(t)
    BY <1>3 DEF DmsPrepare, DmsIds
  <2> QED
    BY <1>1, <2>1, PlainMatches DEF dms_get_pin_status
<1>4. CASE c = "dms_verify_pin1"
  <2>1. DmsPrepare(c, s, a) = dms_verify_pin(s, a, 1) /\ DmsPrepare(c, t, a) = dms_verify_pin(t, a, 1)
    BY <1>4 DEF DmsPrepare, DmsIds
  <2> QED
    BY <1>1, <2>1, RequestMatches DEF dms_verify_pin
<1>5. CASE c = "dms_verify_pin2"
  <2>1. DmsPrepare(c, s, a) = dms_verify_pin(s, a, 2) /\ DmsPrepare(c, t, a) = dms_verify_pin(t, a, 2)
    BY <1>5 DEF DmsPrepare, DmsIds
  <2> QED
    BY <1>1, <2>1, RequestMatches DEF dms_verify_pin
<1>6. CASE c = "dms_set_pin1_protection"
  <2> DEFINE fields == [pin_id |-> 1]
             x == Set(s, "dms_req_data", fields)
             y == Set(t, "dms_req_data", fields)
  <2>1. DmsPrepare(c, s, a) = dms_set_pin_protection(s, a, 1) /\ DmsPrepare(c, t, a) = dms_set_pin_protection(t, a, 1)
    BY <1>6 DEF DmsPrepare, DmsIds
  <2>2. "dms_req_data" \in DOMAIN Scratch /\ DOMAIN fields = Scratch["dms_req_data"]
    BY DEF Scratch
  <2> HIDE DEF fields
  <2>3. Alike(x, s) /\ x["dms_req_data"] = y["dms_req_data"]
    BY <1>1, <2>2, AlikeSet, AlikeOnto, SetReads
  <2>4. /\ Matches(Exit(x), Exit(y), s)
        /\ \A carries : Matches(Request(x, c, carries), Request(y, c, carries), s)
    BY <2>3, DoneMatches, RequestMatches
  <2> QED
    BY <1>6, <2>1, <2>3, <2>4 DEF dms_set_pin_protection, fields
<1>7. CASE c = "dms_set_pin2_protection"
  <2> DEFINE fields == [pin_id |-> 2]
             x == Set(s, "dms_req_data", fields)
             y == Set(t, "dms_req_data", fields)
  <2>1. DmsPrepare(c, s, a) = dms_set_pin_protection(s, a, 2) /\ DmsPrepare(c, t, a) = dms_set_pin_protection(t, a, 2)
    BY <1>7 DEF DmsPrepare, DmsIds
  <2>2. "dms_req_data" \in DOMAIN Scratch /\ DOMAIN fields = Scratch["dms_req_data"]
    BY DEF Scratch
  <2> HIDE DEF fields
  <2>3. Alike(x, s) /\ x["dms_req_data"] = y["dms_req_data"]
    BY <1>1, <2>2, AlikeSet, AlikeOnto, SetReads
  <2>4. /\ Matches(Exit(x), Exit(y), s)
        /\ \A carries : Matches(Request(x, c, carries), Request(y, c, carries), s)
    BY <2>3, DoneMatches, RequestMatches
  <2> QED
    BY <1>7, <2>1, <2>3, <2>4 DEF dms_set_pin_protection, fields
<1>8. CASE c = "dms_change_pin1"
  <2> DEFINE fields == [pin_id |-> 1]
             x == Set(s, "dms_req_data", fields)
             y == Set(t, "dms_req_data", fields)
  <2>1. DmsPrepare(c, s, a) = dms_change_pin(s, 1) /\ DmsPrepare(c, t, a) = dms_change_pin(t, 1)
    BY <1>8 DEF DmsPrepare, DmsIds
  <2>2. "dms_req_data" \in DOMAIN Scratch /\ DOMAIN fields = Scratch["dms_req_data"]
    BY DEF Scratch
  <2> HIDE DEF fields
  <2>3. Alike(x, s) /\ x["dms_req_data"] = y["dms_req_data"]
    BY <1>1, <2>2, AlikeSet, AlikeOnto, SetReads
  <2>4. /\ Matches(Exit(x), Exit(y), s)
        /\ \A carries : Matches(Request(x, c, carries), Request(y, c, carries), s)
    BY <2>3, DoneMatches, RequestMatches
  <2> QED
    BY <1>8, <2>1, <2>3, <2>4 DEF dms_change_pin, fields
<1>9. CASE c = "dms_change_pin2"
  <2> DEFINE fields == [pin_id |-> 2]
             x == Set(s, "dms_req_data", fields)
             y == Set(t, "dms_req_data", fields)
  <2>1. DmsPrepare(c, s, a) = dms_change_pin(s, 2) /\ DmsPrepare(c, t, a) = dms_change_pin(t, 2)
    BY <1>9 DEF DmsPrepare, DmsIds
  <2>2. "dms_req_data" \in DOMAIN Scratch /\ DOMAIN fields = Scratch["dms_req_data"]
    BY DEF Scratch
  <2> HIDE DEF fields
  <2>3. Alike(x, s) /\ x["dms_req_data"] = y["dms_req_data"]
    BY <1>1, <2>2, AlikeSet, AlikeOnto, SetReads
  <2>4. /\ Matches(Exit(x), Exit(y), s)
        /\ \A carries : Matches(Request(x, c, carries), Request(y, c, carries), s)
    BY <2>3, DoneMatches, RequestMatches
  <2> QED
    BY <1>9, <2>1, <2>3, <2>4 DEF dms_change_pin, fields
<1>10. CASE c = "dms_unblock_pin1"
  <2>1. DmsPrepare(c, s, a) = dms_unblock_pin(s, 1) /\ DmsPrepare(c, t, a) = dms_unblock_pin(t, 1)
    BY <1>10 DEF DmsPrepare, DmsIds
  <2>2. "dms_req_data" \in DOMAIN Scratch /\ {"puk", "new_pin"} \cap Scratch["dms_req_data"] = {}
    BY DEF Scratch
  <2>3. /\ {"puk", "new_pin"} \subseteq DOMAIN s.dms_req_data
            <=> {"puk", "new_pin"} \subseteq DOMAIN t.dms_req_data
        /\ {"puk", "new_pin"} \subseteq DOMAIN t.dms_req_data =>
              /\ s.dms_req_data.puk = t.dms_req_data.puk
              /\ s.dms_req_data.new_pin = t.dms_req_data.new_pin
    BY <2>2, AlikeField
  <2>4. /\ Matches(Exit(s), Exit(t), s)
        /\ \A carries : Matches(Request(s, c, carries), Request(t, c, carries), s)
    BY <1>1, DoneMatches, RequestMatches
  <2> QED
    BY <1>10, <2>1, <2>3, <2>4 DEF dms_unblock_pin
<1>11. CASE c = "dms_unblock_pin2"
  <2>1. DmsPrepare(c, s, a) = dms_unblock_pin(s, 2) /\ DmsPrepare(c, t, a) = dms_unblock_pin(t, 2)
    BY <1>11 DEF DmsPrepare, DmsIds
  <2>2. "dms_req_data" \in DOMAIN Scratch /\ {"puk", "new_pin"} \cap Scratch["dms_req_data"] = {}
    BY DEF Scratch
  <2>3. /\ {"puk", "new_pin"} \subseteq DOMAIN s.dms_req_data
            <=> {"puk", "new_pin"} \subseteq DOMAIN t.dms_req_data
        /\ {"puk", "new_pin"} \subseteq DOMAIN t.dms_req_data =>
              /\ s.dms_req_data.puk = t.dms_req_data.puk
              /\ s.dms_req_data.new_pin = t.dms_req_data.new_pin
    BY <2>2, AlikeField
  <2>4. /\ Matches(Exit(s), Exit(t), s)
        /\ \A carries : Matches(Request(s, c, carries), Request(t, c, carries), s)
    BY <1>1, DoneMatches, RequestMatches
  <2> QED
    BY <1>11, <2>1, <2>3, <2>4 DEF dms_unblock_pin
<1>12. CASE c = "dms_get_operating_mode"
  <2>1. DmsPrepare(c, s, a) = dms_get_operating_mode(s) /\ DmsPrepare(c, t, a) = dms_get_operating_mode(t)
    BY <1>12 DEF DmsPrepare, DmsIds
  <2> QED
    BY <1>1, <2>1, PlainMatches DEF dms_get_operating_mode
<1>13. CASE c = "dms_set_operating_mode"
  <2>1. DmsPrepare(c, s, a) = dms_set_operating_mode(s, a) /\ DmsPrepare(c, t, a) = dms_set_operating_mode(t, a)
    BY <1>13 DEF DmsPrepare, DmsIds
  <2> QED
    BY <1>1, <2>1, RequestMatches, DoneMatches DEF dms_set_operating_mode
<1>14. CASE c = "dms_reset"
  <2>1. DmsPrepare(c, s, a) = dms_reset(s) /\ DmsPrepare(c, t, a) = dms_reset(t)
    BY <1>14 DEF DmsPrepare, DmsIds
  <2> QED
    BY <1>1, <2>1, PlainMatches DEF dms_reset
<1>15. CASE c = "dms_set_fcc_authentication"
  <2>1. DmsPrepare(c, s, a) = dms_set_fcc_authentication(s) /\ DmsPrepare(c, t, a) = dms_set_fcc_authentication(t)
    BY <1>15 DEF DmsPrepare, DmsIds
  <2> QED
    BY <1>1, <2>1, PlainMatches DEF dms_set_fcc_authentication
<1>16. CASE c \in DmsIds
  <2>1. DmsPrepare(c, s, a) = dms_get_ids(s, c) /\ DmsPrepare(c, t, a) = dms_get_ids(t, c)
    BY <1>16 DEF DmsPrepare, DmsIds
  <2> QED
    BY <1>1, <2>1, PlainMatches DEF dms_get_ids
<1> QED
  BY <1>2, <1>3, <1>4, <1>5, <1>6, <1>7, <1>8, <1>9, <1>10, <1>11, <1>12, <1>13, <1>14, <1>15, <1>16 DEF DmsCommands

LEMMA NasMatches ==
    ASSUME NEW s, NEW t, Alike(s, t), NEW a,
           NEW c \in NasCommands \ {"nas_do_set_system_selection"}
    PROVE  Matches(NasPrepare(c, s, a), NasPrepare(c, t, a), s)
<1>1. DOMAIN s = DOMAIN Static0 /\ DOMAIN t = DOMAIN Static0 /\ Alike(s, s)
  BY AlikeItself DEF Alike
<1>2. CASE c = "nas_initiate_network_register"
  <2>1. NasPrepare(c, s, a) = nas_initiate_network_register(s) /\ NasPrepare(c, t, a) = nas_initiate_network_register(t)
    BY <1>2 DEF NasPrepare
  <2> QED
    BY <1>1, <2>1, RequestMatches DEF nas_initiate_network_register
<1>3. CASE c = "nas_set_plmn"
  <2> DEFINE x == Set(s, "sel_req", [mode |-> "automatic"])
             z == Set(s, "sel_req", [mode |-> "manual"])
  <2>1. NasPrepare(c, s, a) = nas_set_plmn(s) /\ NasPrepare(c, t, a) = nas_set_plmn(t)
    BY <1>3 DEF NasPrepare
  <2>2. "sel_req" \in DOMAIN Scratch /\ Scratch["sel_req"] = {"mode"}
    BY DEF Scratch
  <2>3. Alike(x, s) /\ Alike(z, s)
    BY <1>1, <2>2, AlikeSet
  <2> HIDE DEF x, z
  <2>4. \/ nas_set_plmn(s) = Exit(x)
        \/ nas_set_plmn(s) = do_sel_network(x) \/ nas_set_plmn(s) = do_sel_network(z)
    BY DEF nas_set_plmn, x, z
  <2>5. nas_set_plmn(s).request = NoRequest /\ Alike(nas_set_plmn(s).static, s)
    BY <2>3, <2>4 DEF Exit, Done, do_sel_network
  <2>6. nas_set_plmn(t).request = NoRequest
    BY DEF nas_set_plmn, Exit, Done, do_sel_network
  <2> QED
    BY <2>1, <2>5, <2>6 DEF Matches
<1>4. CASE c = "nas_get_plmn"
  <2>1. NasPrepare(c, s, a) = nas_get_plmn(s) /\ NasPrepare(c, t, a) = nas_get_plmn(t)
    BY <1>4 DEF NasPrepare
  <2> QED
    BY <1>1, <2>1, PlainMatches DEF nas_get_plmn
<1>5. CASE c = "nas_network_scan"
  <2>1. NasPrepare(c, s, a) = nas_network_scan(s) /\ NasPrepare(c, t, a) = nas_network_scan(t)
    BY <1>5 DEF NasPrepare
  <2> QED
    BY <1>1, <2>1, RequestMatches DEF nas_network_scan
<1>6. CASE c = "nas_get_signal_info"
  <2>1. NasPrepare(c, s, a) = nas_get_signal_info(s) /\ NasPrepare(c, t, a) = nas_get_signal_info(t)
    BY <1>6 DEF NasPrepare
  <2> QED
    BY <1>1, <2>1, PlainMatches DEF nas_get_signal_info
<1>7. CASE c = "nas_get_serving_system"
  <2>1. NasPrepare(c, s, a) = nas_get_serving_system(s) /\ NasPrepare(c, t, a) = nas_get_serving_system(t)
    BY <1>7 DEF NasPrepare
  <2> QED
    BY <1>1, <2>1, PlainMatches DEF nas_get_serving_system
<1>8. CASE c = "nas_get_system_info"
  <2>1. NasPrepare(c, s, a) = nas_get_system_info(s) /\ NasPrepare(c, t, a) = nas_get_system_info(t)
    BY <1>8 DEF NasPrepare
  <2> QED
    BY <1>1, <2>1, PlainMatches DEF nas_get_system_info
<1>9. CASE c = "nas_get_lte_cphy_ca_info"
  <2>1. NasPrepare(c, s, a) = nas_get_lte_cphy_ca_info(s) /\ NasPrepare(c, t, a) = nas_get_lte_cphy_ca_info(t)
    BY <1>9 DEF NasPrepare
  <2> QED
    BY <1>1, <2>1, PlainMatches DEF nas_get_lte_cphy_ca_info
<1>10. CASE c = "nas_get_cell_location_info"
  <2>1. NasPrepare(c, s, a) = nas_get_cell_location_info(s) /\ NasPrepare(c, t, a) = nas_get_cell_location_info(t)
    BY <1>10 DEF NasPrepare
  <2> QED
    BY <1>1, <2>1, PlainMatches DEF nas_get_cell_location_info
<1>11. CASE c = "nas_get_tx_rx_info"
  <2> DEFINE fields == [radio_interface |-> Word(a)]
             x == Set(s, "tx_rx_req", fields)
             y == Set(t, "tx_rx_req", fields)
  <2>1. NasPrepare(c, s, a) = nas_get_tx_rx_info(s, a) /\ NasPrepare(c, t, a) = nas_get_tx_rx_info(t, a)
    BY <1>11 DEF NasPrepare
  <2>2. "tx_rx_req" \in DOMAIN Scratch /\ DOMAIN fields = Scratch["tx_rx_req"]
    BY DEF Scratch
  <2> HIDE DEF fields
  <2>3. Alike(x, s) /\ x["tx_rx_req"] = y["tx_rx_req"]
    BY <1>1, <2>2, AlikeSet, AlikeOnto, SetReads
  <2>4. Matches(Request(x, "nas_get_tx_rx_info", x["tx_rx_req"]), Request(y, "nas_get_tx_rx_info", y["tx_rx_req"]), s)
    BY <2>3, RequestMatches
  <2>5. Matches(Exit(s), Exit(t), s)
    BY <1>1, DoneMatches
  <2> QED
    BY <2>1, <2>4, <2>5 DEF nas_get_tx_rx_info, fields
<1> QED
  BY <1>2, <1>3, <1>4, <1>5, <1>6, <1>7, <1>8, <1>9, <1>10, <1>11 DEF NasCommands

LEMMA WmsMatches ==
    ASSUME NEW s, NEW t, Alike(s, t), NEW a,
           NEW c \in WmsCommands
    PROVE  Matches(WmsPrepare(c, s, a), WmsPrepare(c, t, a), s)
<1>1. DOMAIN s = DOMAIN Static0 /\ DOMAIN t = DOMAIN Static0 /\ Alike(s, s)
  BY AlikeItself DEF Alike
<1>2. CASE c = "wms_list_messages"
  <2>1. WmsPrepare(c, s, a) = wms_list_messages(s) /\ WmsPrepare(c, t, a) = wms_list_messages(t)
    BY <1>2 DEF WmsPrepare
  <2>2. s.lmreq = t.lmreq
    BY StructuresAre DEF Alike
  <2> QED
    BY <1>1, <2>1, <2>2, RequestMatches DEF wms_list_messages
<1>3. CASE c = "wms_delete_message"
  <2> DEFINE fields == [memory_index |-> Number(a, 32)]
             x == Set(s, "dmreq", fields)
             y == Set(t, "dmreq", fields)
  <2>1. WmsPrepare(c, s, a) = wms_delete_message(s, a) /\ WmsPrepare(c, t, a) = wms_delete_message(t, a)
    BY <1>3 DEF WmsPrepare
  <2>2. "dmreq" \in DOMAIN Scratch /\ DOMAIN fields = Scratch["dmreq"]
    BY DEF Scratch
  <2> HIDE DEF fields
  <2>3. Alike(x, s) /\ x["dmreq"] = y["dmreq"]
    BY <1>1, <2>2, AlikeSet, AlikeOnto, SetReads
  <2>4. Matches(Request(x, "wms_delete_message", x["dmreq"]), Request(y, "wms_delete_message", y["dmreq"]), s)
    BY <2>3, RequestMatches
  <2>5. Matches(Exit(s), Exit(t), s)
    BY <1>1, DoneMatches
  <2> QED
    BY <2>1, <2>4, <2>5 DEF wms_delete_message, fields
<1>4. CASE c \in {"wms_get_message", "wms_get_raw_message"}
  <2> DEFINE fields == [memory_index |-> Number(a, 32)]
             x == Set(s, "gmreq", fields)
             y == Set(t, "gmreq", fields)
  <2>1. WmsPrepare(c, s, a) = wms_get_message(s, a, c) /\ WmsPrepare(c, t, a) = wms_get_message(t, a, c)
    BY <1>4 DEF WmsPrepare
  <2>2. "gmreq" \in DOMAIN Scratch /\ DOMAIN fields = Scratch["gmreq"]
    BY DEF Scratch
  <2> HIDE DEF fields
  <2>3. Alike(x, s) /\ x["gmreq"] = y["gmreq"]
    BY <1>1, <2>2, AlikeSet, AlikeOnto, SetReads
  <2>4. Matches(Request(x, c, x["gmreq"]), Request(y, c, y["gmreq"]), s)
    BY <2>3, RequestMatches
  <2>5. Matches(Exit(s), Exit(t), s)
    BY <1>1, DoneMatches
  <2> QED
    BY <2>1, <2>4, <2>5 DEF wms_get_message, fields
<1>5. CASE c = "wms_send_message"
  <2>1. WmsPrepare(c, s, a) = wms_send_message(s, a) /\ WmsPrepare(c, t, a) = wms_send_message(t, a)
    BY <1>5 DEF WmsPrepare
  <2>2. s._send = t._send
    BY StructuresAre DEF Alike
  <2> QED
    BY <1>1, <2>1, <2>2, RequestMatches, DoneMatches DEF wms_send_message
<1> QED
  BY <1>2, <1>3, <1>4, <1>5 DEF WmsCommands

LEMMA WdaMatches ==
    ASSUME NEW s, NEW t, Alike(s, t), NEW a, NEW zero,
           NEW c \in WdaCommands
    PROVE  Matches(WdaPrepare(c, s, a, zero), WdaPrepare(c, t, a, zero), s)
<1>1. DOMAIN s = DOMAIN Static0 /\ DOMAIN t = DOMAIN Static0 /\ Alike(s, s)
  BY AlikeItself DEF Alike
<1>2. CASE c = "wda_set_data_format"
  <2>1. WdaPrepare(c, s, a, zero) = wda_set_data_format(s, a, zero) /\ WdaPrepare(c, t, a, zero) = wda_set_data_format(t, a, zero)
    BY <1>2 DEF WdaPrepare
  <2>2. s.wda_aggregation_info = t.wda_aggregation_info
    BY StructuresAre DEF Alike
  <2> QED
    BY <1>1, <2>1, <2>2, RequestMatches, DoneMatches DEF wda_set_data_format
<1>3. CASE c = "wda_get_data_format"
  <2>1. WdaPrepare(c, s, a, zero) = wda_get_data_format(s) /\ WdaPrepare(c, t, a, zero) = wda_get_data_format(t)
    BY <1>3 DEF WdaPrepare
  <2> QED
    BY <1>1, <2>1, PlainMatches DEF wda_get_data_format
<1> QED
  BY <1>2, <1>3 DEF WdaCommands

LEMMA UimMatches ==
    ASSUME NEW s, NEW t, Alike(s, t), NEW a,
           NEW c \in UimCommands
    PROVE  Matches(UimPrepare(c, s, a), UimPrepare(c, t, a), s)
<1>1. DOMAIN s = DOMAIN Static0 /\ DOMAIN t = DOMAIN Static0 /\ Alike(s, s)
  BY AlikeItself DEF Alike
<1>2. CASE c = "uim_verify_pin1"
  <2>1. UimPrepare(c, s, a) = uim_verify_pin(s, a, 1) /\ UimPrepare(c, t, a) = uim_verify_pin(t, a, 1)
    BY <1>2 DEF UimPrepare
  <2> QED
    BY <1>1, <2>1, RequestMatches DEF uim_verify_pin
<1>3. CASE c = "uim_verify_pin2"
  <2>1. UimPrepare(c, s, a) = uim_verify_pin(s, a, 2) /\ UimPrepare(c, t, a) = uim_verify_pin(t, a, 2)
    BY <1>3 DEF UimPrepare
  <2> QED
    BY <1>1, <2>1, RequestMatches DEF uim_verify_pin
<1>4. CASE c = "uim_get_sim_state"
  <2>1. UimPrepare(c, s, a) = uim_get_sim_state(s) /\ UimPrepare(c, t, a) = uim_get_sim_state(t)
    BY <1>4 DEF UimPrepare
  <2> QED
    BY <1>1, <2>1, PlainMatches DEF uim_get_sim_state
<1>5. CASE c = "uim_power_off"
  <2>1. UimPrepare(c, s, a) = uim_power_off(s) /\ UimPrepare(c, t, a) = uim_power_off(t)
    BY <1>5 DEF UimPrepare
  <2>2. s.uim = t.uim
    BY StructuresAre DEF Alike
  <2> QED
    BY <1>1, <2>1, <2>2, RequestMatches, DoneMatches DEF uim_power_off, HasSlot
<1>6. CASE c = "uim_power_on"
  <2>1. UimPrepare(c, s, a) = uim_power_on(s) /\ UimPrepare(c, t, a) = uim_power_on(t)
    BY <1>6 DEF UimPrepare
  <2>2. s.uim = t.uim
    BY StructuresAre DEF Alike
  <2> QED
    BY <1>1, <2>1, <2>2, RequestMatches, DoneMatches DEF uim_power_on, HasSlot
<1>7. CASE c = "uim_open_logical_channel"
  <2>1. UimPrepare(c, s, a) = uim_open_logical_channel(s, a) /\ UimPrepare(c, t, a) = uim_open_logical_channel(t, a)
    BY <1>7 DEF UimPrepare
  <2>2. s.uim = t.uim
    BY StructuresAre DEF Alike
  <2> QED
    BY <1>1, <2>1, <2>2, RequestMatches, DoneMatches DEF uim_open_logical_channel, HasSlot
<1>8. CASE c = "uim_close_logical_channel"
  <2>1. UimPrepare(c, s, a) = uim_close_logical_channel(s) /\ UimPrepare(c, t, a) = uim_close_logical_channel(t)
    BY <1>8 DEF UimPrepare
  <2>2. s.uim = t.uim
    BY StructuresAre DEF Alike
  <2> QED
    BY <1>1, <2>1, <2>2, RequestMatches, DoneMatches DEF uim_close_logical_channel, HasSlot
<1>9. CASE c = "uim_send_apdu"
  <2>1. UimPrepare(c, s, a) = uim_send_apdu(s, a) /\ UimPrepare(c, t, a) = uim_send_apdu(t, a)
    BY <1>9 DEF UimPrepare
  <2>2. s.uim = t.uim
    BY StructuresAre DEF Alike
  <2> QED
    BY <1>1, <2>1, <2>2, RequestMatches, DoneMatches DEF uim_send_apdu, HasSlot
<1> QED
  BY <1>2, <1>3, <1>4, <1>5, <1>6, <1>7, <1>8, <1>9 DEF UimCommands

(* A command matches itself on structures that are alike; only the selection *)
(* reads what another command wrote.                                         *)
LEMMA PrepareMatches ==
    ASSUME NEW s, NEW t, Alike(s, t), NEW item, NEW zero,
           item.cmd \in Commands, item.cmd # SystemSelection.cmd
    PROVE  Matches(Prepare(item, s, zero), Prepare(item, t, zero), s)
<1> DEFINE c == item.cmd
           a == item.arg
<1>1. ASSUME NEW v
      PROVE  /\ c \in CtlCommands => Prepare(item, v, zero) = CtlPrepare(c, v, a)
             /\ c \in WdsCommands => Prepare(item, v, zero) = WdsPrepare(c, v, a)
             /\ c \in DmsCommands => Prepare(item, v, zero) = DmsPrepare(c, v, a)
             /\ c \in NasCommands => Prepare(item, v, zero) = NasPrepare(c, v, a)
             /\ c \in WmsCommands => Prepare(item, v, zero) = WmsPrepare(c, v, a)
             /\ c \in WdaCommands => Prepare(item, v, zero) = WdaPrepare(c, v, a, zero)
             /\ c \in UimCommands => Prepare(item, v, zero) = UimPrepare(c, v, a)
  BY DEF Prepare, CtlCommands, WdsOptions, WdsCommands, DmsOptions, DmsCommands, DmsIds,
         NasOptions, NasCommands, WmsOptions, WmsCommands, WdaOptions, WdaCommands, UimOptions,
         UimCommands
<1>2. \/ c \in CtlCommands \/ c \in WdsCommands \/ c \in DmsCommands
      \/ c \in NasCommands \ {"nas_do_set_system_selection"}
      \/ c \in WmsCommands \/ c \in WdaCommands \/ c \in UimCommands
  BY SelectionIsSent DEF Commands
<1> HIDE DEF c, a
<1> QED
  BY <1>1, <1>2, CtlMatches, WdsMatches, DmsMatches, NasMatches, WmsMatches, WdaMatches,
     UimMatches

(* What happens to hold zero matters to no option.                          *)
LEMMA OptionsAreSure ==
    ASSUME NEW s, NEW item, NEW zero, IsOption(item)
    PROVE  Prepare(item, s, zero).static = Fill(s, item)
<1>1. Prepare(item, s, zero) = Prepare(item, s, TRUE)
  <2> DEFINE c == item.cmd
  <2>1. c \in WdaOptions => WdaPrepare(c, s, item.arg, zero) = WdaPrepare(c, s, item.arg, TRUE)
    BY DEF WdaPrepare, WdaOptions
  <2>2. c \notin WdaCommands
    BY DEF IsOption, Options, WdaCommands, WdsOptions, DmsOptions, NasOptions, WmsOptions,
           WdaOptions, UimOptions
  <2> HIDE DEF c
  <2> QED
    BY <2>1, <2>2 DEF Prepare, c
<1> QED
  BY <1>1 DEF Fill

LEMMA SelectionLeaves ==
    ASSUME NEW s, NEW item, NEW zero, item.cmd = SystemSelection.cmd
    PROVE  Prepare(item, s, zero).static = s
<1>1. item.cmd = "nas_do_set_system_selection"
  BY SelectionIsSent
<1>2. Prepare(item, s, zero) = NasPrepare(item.cmd, s, item.arg)
  <2>1. item.cmd \in NasCommands => Prepare(item, s, zero) = NasPrepare(item.cmd, s, item.arg)
    BY DEF Prepare, CtlCommands, WdsOptions, WdsCommands, DmsOptions, DmsCommands, DmsIds,
           NasOptions, NasCommands, WmsOptions, WmsCommands, WdaOptions, WdaCommands,
           UimOptions, UimCommands
  <2> QED
    BY <1>1, <2>1 DEF NasCommands
<1>3. NasPrepare(item.cmd, s, item.arg) = cmd_nas_do_set_system_selection(s)
  BY <1>1 DEF NasPrepare
<1> QED
  BY <1>2, <1>3 DEF cmd_nas_do_set_system_selection, Request, Done

-----------------------------------------------------------------------------
(* In the first pass the structures hold what the options so far say; in    *)
(* the second they are alike to what all of them say.                       *)
FillInv ==
    /\ pass = "options" => static = Filling(line)[at - 1]
    /\ pass = "commands" => Alike(static, Filled)
    /\ CommandsDoNotInterfere

(* What was sent was sent with what the options say, of a line that grew by *)
(* the selection only.                                                      *)
LEMMA SentAsMeant ==
    ASSUME LineInv, SentInv, CommandsDoNotInterfere, sent' = sent,
           line' = line \/ line' = Append(line, SystemSelection)
    PROVE  CommandsDoNotInterfere'
<1>1. Filled' = Filled /\ \A k \in DOMAIN line : line'[k] = line[k]
  BY FilledGrows
<1>2. \A i \in DOMAIN sent : sent[i].for \in DOMAIN line
  BY DEF SentInv, Requested
<1> QED
  BY <1>1, <1>2 DEF CommandsDoNotInterfere

LEMMA RunFills ==
    ASSUME LineInv, PassInv, SentInv, FillInv, NEW zero \in BOOLEAN, RunCommand(zero)
    PROVE  FillInv'
<1> DEFINE r == Prepare(Current, static, zero)
<1>1. /\ at \in 1 .. Len(line) /\ pass \in {"options", "commands"}
      /\ Current.cmd \in Options <=> pass = "options"
      /\ Current.cmd \in Options \cup Commands
      /\ Current = line[at]
  BY RunsWell DEF Current
<1>2. line' = line \/ line' = Append(line, SystemSelection)
  BY DEF RunCommand, WithSelection
<1>3. /\ \A k \in 0 .. Len(line) : Filling(line')[k] = Filling(line)[k]
      /\ Filled' = Filled
  BY <1>2, FilledGrows
<1>4. static' = r.static
  BY DEF RunCommand
<1>5. Len(line) \in Nat
  BY SequenceDomain DEF LineInv
<1>6. CASE pass' = "over"
  <2>1. sent' = sent
    BY <1>1, <1>6 DEF RunCommand, Stop
  <2> QED
    BY <1>2, <1>6, <2>1, SentAsMeant DEF FillInv
<1>7. CASE Moves(zero)
  <2>1. at' = at + 1 /\ pass' = pass /\ sent' = sent /\ Current.cmd \notin Commands \ Unsent
    BY <1>7, MovesOn
  <2>2. CASE pass = "options"
    <3>1. static' = Fill(Filling(line)[at - 1], line[at])
      BY <1>1, <1>4, <2>2, OptionsAreSure DEF FillInv, IsOption
    <3>2. Filling(line)[at] = static'
      BY <1>1, <1>5, <3>1, FillingSteps
    <3>3. at \in 0 .. Len(line) /\ at' - 1 = at
      BY <1>1, <1>5, <2>1
    <3>4. static' = Filling(line')[at' - 1]
      BY <1>3, <3>2, <3>3
    <3> QED
      BY <1>2, <2>1, <2>2, <3>4, SentAsMeant DEF FillInv
  <2>3. CASE pass = "commands"
    <3>1. Current.cmd \in Commands /\ Current.cmd # SystemSelection.cmd
      BY <1>1, <2>1, <2>3, SelectionIsSent
    <3>2. Alike(static, Filled)
      BY <2>3 DEF FillInv
    <3>3. Alike(static', static)
      BY <1>4, <3>1, <3>2, PrepareMatches DEF Matches
    <3>4. Alike(static', Filled')
      BY <1>3, <3>2, <3>3, AlikeBoth
    <3> QED
      BY <1>2, <2>1, <2>3, <3>4, SentAsMeant DEF FillInv
  <2> QED
    BY <1>1, <2>2, <2>3
<1>8. CASE Sends(zero)
  <2>1. /\ pass = "commands" /\ line' = line /\ pass' = pass
        /\ sent' = Append(sent, [name |-> Current.cmd, carries |-> r.request.carries,
                                 for |-> at])
        /\ Current.cmd \in Commands \ Unsent
    BY <1>8, SendsOn
  <2>2. Alike(static, Filled)
    BY <2>1 DEF FillInv
  <2>3. Current.cmd # SystemSelection.cmd => Matches(r, Prepare(Current, Filled, zero), static)
    BY <2>1, <2>2, PrepareMatches
  <2>4. Alike(static', static)
    <3>1. CASE Current.cmd = SystemSelection.cmd
      BY <1>4, <2>2, <3>1, SelectionLeaves, AlikeItself DEF Alike
    <3>2. CASE Current.cmd # SystemSelection.cmd
      BY <1>4, <2>3, <3>2 DEF Matches
    <3> QED
      BY <3>1, <3>2
  <2>5. Alike(static', Filled')
    BY <1>3, <2>2, <2>4, AlikeBoth
  <2>6. CommandsDoNotInterfere'
    <3> DEFINE e == [name |-> Current.cmd, carries |-> r.request.carries, for |-> at]
    <3>1. \A i \in DOMAIN sent' : (i \in DOMAIN sent /\ sent'[i] = sent[i]) \/ sent'[i] = e
      BY <2>1, Appended, SequenceDomain DEF SentInv
    <3>2. e.name # SystemSelection.cmd =>
             e.carries = Prepare(line[e.for], Filled, zero).request.carries
      BY <1>1, <2>3 DEF Matches
    <3> HIDE DEF e
    <3>3. ASSUME NEW i \in DOMAIN sent', sent'[i].name # SystemSelection.cmd
          PROVE  \E z \in BOOLEAN :
                    sent'[i].carries = Prepare(line'[sent'[i].for], Filled', z).request.carries
      <4>1. CASE i \in DOMAIN sent /\ sent'[i] = sent[i]
        BY <1>3, <2>1, <3>3, <4>1 DEF FillInv, CommandsDoNotInterfere
      <4>2. CASE sent'[i] = e
        BY <1>3, <2>1, <3>2, <3>3, <4>2
      <4> QED
        BY <3>1, <4>1, <4>2
    <3> QED
      BY <3>3 DEF CommandsDoNotInterfere
  <2> QED
    BY <2>1, <2>5, <2>6 DEF FillInv
<1> QED
  BY <1>6, <1>7, <1>8 DEF RunCommand, Stop, Moves, Sends

LEMMA FillStep ==
    ASSUME LineInv, PassInv, SentInv, FillInv, [Next]_vars
    PROVE  FillInv'
<1>1. Len(line) \in Nat /\ DOMAIN line = 1 .. Len(line)
  BY SequenceDomain DEF LineInv
<1>2. ASSUME UNCHANGED <<line, sent>>
      PROVE  CommandsDoNotInterfere'
  BY <1>2, SentAsMeant DEF FillInv
<1>3. ASSUME NEW item, Type(item)
      PROVE  FillInv'
  <2>1. pass' = "typing" /\ sent' = <<>>
    BY <1>3 DEF Type, SentInv
  <2> QED
    BY <2>1 DEF FillInv, CommandsDoNotInterfere
<1>4. CASE Open
  <2>1. pass' = "options" /\ at' = 1 /\ static' = Static0 /\ UNCHANGED <<line, sent>>
    BY <1>4 DEF Open, PassInv
  <2>2. Filling(line)[0] = Static0
    BY <1>1, FillingSteps
  <2> QED
    BY <1>2, <2>1, <2>2 DEF FillInv
<1>5. CASE Skip
  <2>1. /\ at \in 1 .. Len(line) /\ at' = at + 1 /\ UNCHANGED <<line, pass, static, sent>>
        /\ pass = "options" => ~IsOption(line[at])
    BY <1>1, <1>5 DEF Skip, PassInv, InThisPass, Current
  <2>2. pass = "options" => Filling(line)[at] = Filling(line)[at - 1]
    BY <1>1, <2>1, FillingSteps DEF Fill
  <2>3. at' - 1 = at
    BY <2>1
  <2>4. Filled' = Filled
    BY <2>1 DEF Filled
  <2> QED
    BY <1>2, <2>1, <2>2, <2>3, <2>4 DEF FillInv
<1>6. CASE EndOfPass
  <2>1. /\ at > Len(line) /\ UNCHANGED <<line, static, sent>>
        /\ (pass = "options" /\ pass' = "commands") \/ pass' = "over"
    BY <1>6 DEF EndOfPass, Running
  <2>2. at - 1 = Len(line)
    BY <1>1, <2>1 DEF PassInv
  <2>3. pass' = "commands" => static = Filled
    BY <2>1, <2>2 DEF FillInv, Filled
  <2>4. Alike(static, static) /\ Filled' = Filled
    BY <2>1, AlikeItself DEF PassInv, Filled
  <2> QED
    BY <1>2, <2>1, <2>3, <2>4 DEF FillInv
<1>7. CASE ConnectFails \/ RequestFails
  <2>1. pass' = "over" /\ UNCHANGED <<line, sent>>
    BY <1>7 DEF ConnectFails, RequestFails, Stop
  <2> QED
    BY <1>2, <2>1 DEF FillInv
<1>8. ASSUME NEW t, NEW message, Answered(t, message)
      PROVE  FillInv'
  <2>1. pass = "commands" /\ UNCHANGED <<line, pass, static, sent>>
    BY <1>8 DEF Answered, PassInv
  <2>2. Filled' = Filled
    BY <2>1 DEF Filled
  <2> QED
    BY <1>2, <2>1, <2>2 DEF FillInv
<1>9. CASE Over \/ UNCHANGED vars
  <2>1. UNCHANGED <<line, pass, at, static, sent>>
    BY <1>9 DEF Over, vars
  <2>2. Filled' = Filled
    BY <2>1 DEF Filled
  <2> QED
    BY <1>2, <2>1, <2>2 DEF FillInv
<1> QED
  BY <1>3, <1>4, <1>5, <1>6, <1>7, <1>8, <1>9, RunFills DEF Next

(* Of a line of any length a command is sent with what all its options say  *)
(* and with its own argument, and with nothing that the commands before it  *)
(* left in the structures they share (commands-wds.c, commands-dms.c,       *)
(* commands-wms.c, uqmi_run_commands).                                      *)
THEOREM IndependenceCorrect == Spec => []CommandsDoNotInterfere
<1>1. Init => FillInv
  BY DEF Init, FillInv, CommandsDoNotInterfere
<1>2. CommandsInv /\ FillInv /\ [Next]_vars => FillInv'
  BY FillStep DEF CommandsInv
<1>3. FillInv => CommandsDoNotInterfere
  BY DEF FillInv
<1> QED
  BY <1>1, <1>2, <1>3, AlwaysInv, PTL DEF Spec
=============================================================================
