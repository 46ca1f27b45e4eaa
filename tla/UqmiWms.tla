-------------------------------- MODULE UqmiWms --------------------------------
(* The message commands: uqmi/commands-wms.c.  What a message looks like is *)
(* in Sms.                                                                  *)
EXTENDS UqmiHandlers, Sms

WmsStatic == [lmreq |-> [storage_type |-> "uim", message_tag |-> "mt_not_read"],
              dmreq |-> [memory_storage |-> "uim", message_mode |-> "gsm_wcdma"],
              gmreq |-> [storage_type |-> "uim", message_mode |-> "gsm_wcdma"],
              _send |-> <<>>]

-----------------------------------------------------------------------------
(* Options.  "sim" is the storage the structures begin with, and sets none. *)

wms_storage(s, a) ==
    IF Is(a, {"sim"}) THEN Done(s)
    ELSE IF Is(a, {"me"})
         THEN Done(Put(s, {<<"lmreq", "storage_type">>, <<"dmreq", "memory_storage">>,
                           <<"gmreq", "storage_type">>}, "nv"))
         ELSE Exit(s)

wms_send_message_smsc(s, a) == Done(Put(s, {<<"_send", "smsc">>}, Chars(a)))
wms_send_message_target(s, a) == Done(Put(s, {<<"_send", "target">>}, Chars(a)))
wms_send_message_flash(s) == Done(Put(s, {<<"_send", "flash">>}, TRUE))

-----------------------------------------------------------------------------
(* Commands.                                                                *)

wms_list_messages(s) == Request(s, "wms_list_messages", s.lmreq)

wms_delete_message(s, a) ==
    IF IsNumber(a)
    THEN LET t == Set(s, "dmreq", [memory_index |-> Number(a, 32)])
         IN  Request(t, "wms_delete_message", t.dmreq)
    ELSE Exit(s)

(* And wms_get_raw_message, which has the same preparation.                 *)
wms_get_message(s, a, c) ==
    IF IsNumber(a)
    THEN LET t == Set(s, "gmreq", [memory_index |-> Number(a, 32)])
         IN  Request(t, c, t.gmreq)
    ELSE Exit(s)

wms_send_message(s, a) ==
    LET send == Onto(s._send, [smsc |-> <<>>, target |-> <<>>, flash |-> FALSE])
    IN  IF send.target = <<>> \/ Len(send.smsc) > 16 \/ Len(send.target) > 16
             \/ Len(Chars(a)) > 160
        THEN Exit(s)
        ELSE Request(s, "wms_send_message",
                [format |-> "gsm_wcdma_point_to_point",
                 raw_data |-> RawMessage(send.smsc, send.target, send.flash, Chars(a))])

-----------------------------------------------------------------------------
(* Printing: a list of indices, a message, or its octets.                   *)

wms_list_messages_cb == Show("message_list", {"message_list"})
wms_get_raw_message_cb == Show("raw_message_data", {"raw_message"})
wms_message_shown(raw) ==
    Show("raw_message_data", DOMAIN wms_get_message_cb(raw))

-----------------------------------------------------------------------------
(* __uqmi_wms_commands.                                                     *)

WmsOptions == {"wms_storage", "wms_send_message_smsc", "wms_send_message_target",
               "wms_send_message_flash"}
WmsCommands == {"wms_list_messages", "wms_delete_message", "wms_get_message",
                "wms_get_raw_message", "wms_send_message"}

WmsPrepare(c, s, a) ==
    CASE c = "wms_storage" -> wms_storage(s, a)
      [] c = "wms_list_messages" -> wms_list_messages(s)
      [] c = "wms_delete_message" -> wms_delete_message(s, a)
      [] c \in {"wms_get_message", "wms_get_raw_message"} -> wms_get_message(s, a, c)
      [] c = "wms_send_message_smsc" -> wms_send_message_smsc(s, a)
      [] c = "wms_send_message_target" -> wms_send_message_target(s, a)
      [] c = "wms_send_message_flash" -> wms_send_message_flash(s)
      [] c = "wms_send_message" -> wms_send_message(s, a)

WmsPrint(c, raw) ==
    CASE c = "wms_list_messages" -> wms_list_messages_cb
      [] c = "wms_get_message" -> wms_message_shown(raw)
      [] c = "wms_get_raw_message" -> wms_get_raw_message_cb
      [] OTHER -> {}
=============================================================================
