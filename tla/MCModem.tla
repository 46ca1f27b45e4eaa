------------------------------- MODULE MCModem -------------------------------
(* Instances of Modem for TLC.                                             *)
EXTENDS Modem

App(state, pin, puk) == [usable |-> TRUE, pinState |-> state, pin |-> pin, puk |-> puk]

Open == <<App("DISABLED", 3, 3)>>
Locked(pin) == <<App("NOT_VERIFIED", pin, 3)>>
Blocked(puk) == <<App("BLOCKED", 0, puk)>>
Dead == <<App("PERMANENTLY_BLOCKED", 0, 0)>>
Empty == <<[usable |-> FALSE, pinState |-> "NOT_INITIALIZED", pin |-> 0, puk |-> 0]>>

OpenCard == {Open}
LockedCards == {Locked(1), Locked(2)}
AnyCard == {Open, Empty, Locked(1), Locked(2), Blocked(1), Blocked(2), Dead}

(* A card whose first application is of a type the daemon does not know.    *)
OtherFirst == [App("NOT_VERIFIED", 3, 3) EXCEPT !.usable = FALSE]
MixedCard == {<<OtherFirst>> \o Locked(1)}

NoPin == {[configured |-> TRUE, pin |-> FALSE, puk |-> FALSE]}
AnyChoice == {c \in [configured : {TRUE}, pin : BOOLEAN, puk : BOOLEAN] : c.pin \/ c.puk}

AllServices == {"CTL", "DMS", "WDS", "WDA", "NAS", "UIM"}
OfferAll == {AllServices}
OfferSome == {AllServices, AllServices \ {"UIM"}}

(* An interface nobody has used yet, and one that another program has left. *)
Fresh == [raw_ip |-> FALSE, pass_through |-> FALSE, up |-> FALSE, mtu |-> 1500,
          refused |-> {}]
Used == [raw_ip |-> TRUE, pass_through |-> TRUE, up |-> TRUE, mtu |-> 1430,
         refused |-> {}]
FreshLink == {Fresh}
UsedLink == {Used}

AnyFault == Kinds \cup {"no_mode", "call_failed", "no_effect", "kernel", "refused"}
KernelRefuses == {"refused"}
CallFails == {"call_failed"}

(* Where requests are answered in any order, the order they were sent in    *)
(* tells no states apart: the view keeps how many there are of each.        *)
HowMany(r) ==
    Cardinality({i \in DOMAIN asked[ServiceOf[r]] : asked[ServiceOf[r]][i] = r})
AnyOrder ==
    <<at, timer, T, todo, services, crashed, gone, [r \in Kinds |-> HowMany(r)],
      simVars, modemVars>>
=============================================================================
