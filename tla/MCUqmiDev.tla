------------------------------- MODULE MCUqmiDev -------------------------------
(* Instances of UqmiDev: services 2 (DMS) and 3 (NAS), and the command lines *)
(* a script around a modem would use.                                       *)
EXTENDS UqmiDev

Cmd(type, svc, does, id) == [type |-> type, svc |-> svc, does |-> does, id |-> id]
Ask(s) == Cmd("command", s, "request", 0)
Sync == Cmd("command", CTL, "sync", 0)
GetCid(s) == Cmd("command", s, "get_client_id", 0)
SetCid(s, id) == Cmd("option", s, "set_client_id", id)
Bad(s) == Cmd("command", s, "exit", 0)

Line(cmds, keep, release, timeout) ==
    [cmds |-> cmds, keep |-> keep, release |-> release, timeout |-> timeout]

(* Two commands on one service, with a timer; getting client ids, one to     *)
(* keep and one to release, until a command is refused; using a given id,    *)
(* with SYNC, and releasing it.                                              *)
ScriptLines ==
    {Line(<<Ask(2), Ask(2)>>, {}, {}, TRUE),
     Line(<<GetCid(3), Bad(2), Ask(3)>>, {2}, {3}, FALSE),
     Line(<<Ask(2), Sync, SetCid(2, 257), SetCid(2, 2)>>, {}, {2}, FALSE)}
=============================================================================
