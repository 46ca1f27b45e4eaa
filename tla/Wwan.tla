---------------------------------- MODULE Wwan ----------------------------------
(***************************************************************************)
(* The network interface the kernel has for a modem, and how uqmid sets it  *)
(* up (uqmid/wwan.c): it looks the interface up in sysfs, takes it down,    *)
(* writes its settings file by file and brings it up again.  Every step may *)
(* fail, and what the steps before it did stays done; a setting that the    *)
(* kernel refuses is no failure to the daemon.  All is done in one handler. *)
(***************************************************************************)
EXTENDS Naturals

DefaultMtu == 1500

(* The settings of the interface: struct wwan_conf, and what ioctl changes. *)
(* A history of it: the settings whose value the kernel refused when they   *)
(* were to be set last.                                                     *)
Interface ==
    [raw_ip : BOOLEAN, pass_through : BOOLEAN, up : BOOLEAN, mtu : Nat,
     refused : SUBSET {"raw_ip", "pass_through"}]

RawIp == [raw_ip |-> TRUE, pass_through |-> FALSE]
Ethernet == [raw_ip |-> FALSE, pass_through |-> FALSE]

-----------------------------------------------------------------------------
(* A step is the set of its outcomes: the interface it leaves, and whether  *)
(* it returned 0.                                                           *)

Done(net) == [net |-> net, ok |-> TRUE]
Failed(net) == [net |-> net, ok |-> FALSE]

(* The next step is taken from where the last one succeeded.                *)
Then(outcomes, Step(_)) ==
    {o \in outcomes : ~o.ok} \cup UNION {Step(o.net) : o \in {p \in outcomes : p.ok}}

(* No interface is found under the device, in usbmisc.  The second search,  *)
(* in usb, is for a name that was never read, and finds none.               *)
wwan_refresh_device(net) == {Done(net), Failed(net)}

wwan_ifupdown(net, up) == {Done([net EXCEPT !.up = up]), Failed(net)}

wwan_set_mtu(net, mtu) == {Done([net EXCEPT !.mtu = mtu]), Failed(net)}

(* A setting that differs is written to its file, unless that cannot be     *)
(* opened.  The kernel sees the value when the file is closed, and whether  *)
(* it refuses it is not looked at (write_char_to_file, wwan.c:157-174).     *)
write_raw_ip(net, value) ==
    IF net.raw_ip = value
    THEN {Done([net EXCEPT !.refused = @ \ {"raw_ip"}])}
    ELSE {Done([net EXCEPT !.raw_ip = value, !.refused = @ \ {"raw_ip"}]),
          Done([net EXCEPT !.refused = @ \cup {"raw_ip"}]),
          Failed(net)}

write_pass_through(net, value) ==
    IF net.pass_through = value
    THEN {Done([net EXCEPT !.refused = @ \ {"pass_through"}])}
    ELSE {Done([net EXCEPT !.pass_through = value, !.refused = @ \ {"pass_through"}]),
          Done([net EXCEPT !.refused = @ \cup {"pass_through"}]),
          Failed(net)}

(* Mistake: with one setting written there is nothing more to do.           *)
Wrong_wwan_set_configuration(net, config) ==
    IF net.raw_ip # config.raw_ip
    THEN write_raw_ip(net, config.raw_ip)
    ELSE write_pass_through(net, config.pass_through)

(* The settings cannot be read, or are written one after the other.         *)
wwan_set_configuration(net, config) ==
    {Failed(net)} \cup Then(write_raw_ip(net, config.raw_ip),
                            LAMBDA n : write_pass_through(n, config.pass_through))

(* The interface has the settings of config, but for those that the kernel  *)
(* refused.                                                                 *)
SetTo(net, config) ==
    /\ net.raw_ip = config.raw_ip \/ "raw_ip" \in net.refused
    /\ net.pass_through = config.pass_through \/ "pass_through" \in net.refused

(* The sequence of modem_st_configure_kernel_onenter.                       *)
configure_kernel(net) ==
    LET refreshed == wwan_refresh_device(net)
        down      == Then(refreshed, LAMBDA n : wwan_ifupdown(n, FALSE))
        ethernet  == Then(down, LAMBDA n : wwan_set_configuration(n, Ethernet))
        sized     == Then(ethernet, LAMBDA n : wwan_set_mtu(n, DefaultMtu))
        raw       == Then(sized, LAMBDA n : wwan_set_configuration(n, RawIp))
    IN  Then(raw, LAMBDA n : wwan_ifupdown(n, TRUE))

=================================================================================
