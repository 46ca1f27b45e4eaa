--------------------------------- MODULE Modem ---------------------------------
(***************************************************************************)
(* A modem of uqmid from the moment it is added to the moment it is freed:  *)
(* its MODEM and SIM machines, the user who configures and removes it over  *)
(* ubus, the answers the modem gives in any order, the timers and the death *)
(* of the connection.                                                       *)
(***************************************************************************)
EXTENDS ModemFsm

vars == <<engineVars, simVars, modemVars>>

(* uqmid_modem_add allocates the machines and starts MODEM.                 *)
Init ==
    /\ at = [MODEM |-> "IDLE", SIM |-> "IDLE"]
    /\ timer = FALSE
    /\ T = N_NONE
    /\ todo = <<ToModem("REQ_START")>>
    /\ asked = [s \in Services |-> <<>>]
    /\ services = {"CTL"}
    /\ crashed = FALSE
    /\ gone = FALSE
    /\ SimInit
    /\ ModemInit

-----------------------------------------------------------------------------

engineBut == <<at, timer, T, asked, services, crashed, gone>>

(* modem_configure replaces the whole configuration and tells MODEM, which  *)
(* listens in POWEROFF only.                                                *)
Configure ==
    /\ Idle /\ FewAsked
    /\ config' \in Given
    /\ todo' = <<ToModem("REQ_CONFIGURED")>>
    /\ UNCHANGED <<engineBut, sim, card, modemVars>>

(* uqmid_modem_remove has no effect on a modem that is being removed.       *)
RemoveModem ==
    /\ Idle
    /\ at["MODEM"] # "DESTROY"
    /\ todo' = <<ToModem("REQ_DESTROY")>>
    /\ UNCHANGED <<engineBut, simVars, modemVars>>

(* While the device closes, its services are freed, with their requests.    *)
ServiceFreed ==
    /\ Idle
    /\ at["MODEM"] = "DESTROY"
    /\ \E s \in services \ {"CTL"} :
          /\ services' = services \ {s}
          /\ asked' = [asked EXCEPT ![s] = <<>>]
    /\ UNCHANGED <<at, timer, T, todo, crashed, gone, simVars, modemVars>>

(* The device is closed, after the last service or when its time is up, or  *)
(* the connection died: modem_remove_cb and modem_error_cb free the modem.  *)
Freed ==
    /\ Idle
    /\ gone' = TRUE
    /\ UNCHANGED <<at, timer, T, todo, asked, services, crashed, simVars, modemVars>>

(* The world outside: a network comes into reach.                           *)
CoverageComes ==
    /\ Running
    /\ ~coverage
    /\ coverage' = TRUE
    /\ UNCHANGED <<engineVars, simVars, error, link, agreed, radio>>

-----------------------------------------------------------------------------

Callback == (SimCallback /\ UNCHANGED modemVars) \/ ModemCallback
Handler == (SimHandler /\ UNCHANGED modemVars) \/ ModemHandler

Next ==
    \/ Callback
    \/ Handler
    \/ TimerCallback
    \/ Configure
    \/ RemoveModem
    \/ ServiceFreed
    \/ Freed
    \/ CoverageComes

Spec == Init /\ [][Next]_vars

(* Handlers run to their end; uloop serves, on every turn, the answers that *)
(* came and the timers that are due.  The modem answers what it is asked,   *)
(* the user configures it and a network comes into reach.                   *)
FairSpec ==
    /\ Spec
    /\ WF_vars(Handler)
    /\ SF_vars(Callback)
    /\ SF_vars(TimerCallback)
    /\ SF_vars(~config.configured /\ Configure)
    /\ WF_vars(CoverageComes)

-----------------------------------------------------------------------------
(* Properties.                                                               *)

State(machine, states) == at[machine] \in states
IsAsked(request) ==
    LET s == ServiceOf[request] IN \E i \in DOMAIN asked[s] : asked[s][i] = request

(* Every variable has its type, and the number of the timer is one the code *)
(* uses in the state: a timer must not outlive the state that started it.   *)
ModemTypeOK ==
    /\ at \in [{"MODEM", "SIM"} -> ModemStates \cup DOMAIN sim_in_events]
    /\ at["MODEM"] \in ModemStates
    /\ at["SIM"] \in DOMAIN sim_in_events
    /\ timer \in BOOLEAN
    /\ T \in {N_NONE, N_RESEND, N_FAILURE}
    /\ T = N_FAILURE => State("MODEM", {"RESYNC"})
    /\ T = N_RESEND => State("MODEM", {"START_IFACE"})
    /\ asked \in [Services -> Seq(Kinds)]
    /\ \A i \in DOMAIN todo : todo[i].to \in {"MODEM", "SIM"}
    /\ services \subseteq Services
    /\ crashed \in BOOLEAN
    /\ gone \in BOOLEAN
    /\ config \in Configurations
    /\ sim \in SimRecord
    /\ card \in Seq(Application)
    /\ error \in BOOLEAN
    /\ link \in Interface
    /\ agreed \in BOOLEAN
    /\ radio \in {"online", "low", "other"}
    /\ coverage \in BOOLEAN

(* Whenever MODEM rests in WAIT_UIM, the SIM machine has yet to become      *)
(* READY: it tells MODEM once, and what it told one that was not yet, or no *)
(* longer, in WAIT_UIM is not told again.  modem_st_wait_uim_onenter must   *)
(* notice a SIM that was ready before.                                      *)
NoMissedSimReady ==
    Idle /\ State("MODEM", {"WAIT_UIM"}) => ~State("SIM", {"READY"})

(* A PIN is tried only while the card has more than one try left, in all    *)
(* the orders in which slot status, card status and IMSI are answered.      *)
TriesOnlyWithSpareTries ==
    Running /\ IsAsked("verify_pin") => card[Active].pin >= 2

(* No card is blocked by the daemon: neither its PIN nor its PUK, however   *)
(* often the modem is configured with wrong ones.                           *)
NeverBlocksCard ==
    [][\A j \in DOMAIN card :
          card'[j].pinState \in {"BLOCKED", "PERMANENTLY_BLOCKED"} =>
              card[j].pinState = card'[j].pinState]_vars

(* The interface was set up for raw IP.                                     *)
SetUpForRawIp == link.up /\ link.mtu = 1500 /\ SetTo(link, RawIp)

(* From POWERON to LIVE the kernel interface is up with the settings that   *)
(* raw IP needs, whatever it was before and however often the connection    *)
(* was attempted, and the modem has agreed to raw IP since they were last   *)
(* written: neither a step that failed nor an old answer is passed over     *)
(* (modem_fsm.c:563-672, wwan.c).  Only a setting whose value the kernel    *)
(* refused can be another, for that is no failure to wwan_set_configuration *)
(* (UsesOnlyRawIp).                                                         *)
CarriesOnlyRawIp ==
    State("MODEM", {"POWERON", "NETSEARCH", "REGISTERED", "START_IFACE", "LIVE"})
        => agreed /\ SetUpForRawIp

(* A search for a network never ends without a result: the timer that polls *)
(* the serving system is pending whenever MODEM rests in NETSEARCH.         *)
SearchIsPolled ==
    Idle /\ State("MODEM", {"NETSEARCH"}) => timer

(* The daemon dereferences a service that is not there only if the modem    *)
(* never offered one that it needs: never for want of UIM, nor for a        *)
(* service already freed while the device closes.                           *)
CrashesOnlyForWantOfService ==
    crashed => /\ ~State("MODEM", {"DESTROY"})
               /\ ~({"DMS", "WDS", "WDA", "NAS"} \subseteq services)

(* A modem is connected, or on the way there, only when the user configured *)
(* it and its SIM is ready, whatever the order in which SIM and MODEM got   *)
(* there, the calls came and connections failed (modem_fsm.c:421-446).      *)
ConnectsOnlyWithSim ==
    State("MODEM", {"CONFIGURE_MODEM", "CONFIGURE_KERNEL", "POWERON", "NETSEARCH",
                    "REGISTERED", "START_IFACE", "LIVE"})
        => config.configured /\ State("SIM", {"READY"})

(* The network is searched with the radio on, although the answers about    *)
(* the operating mode do not say which state they were asked in.            *)
SearchesWithRadioOn ==
    State("MODEM", {"NETSEARCH", "START_IFACE", "LIVE"}) => radio = "online"

(* What the users of ubus see of the modem.                                 *)
LifeOf(state) ==
    CASE state \in {"IDLE", "RESYNC", "GET_VERSION", "GET_MODEL"} -> "starting"
      [] state = "POWEROFF" -> "off"
      [] state = "WAIT_UIM" -> "waiting"
      [] state \in {"CONFIGURE_MODEM", "CONFIGURE_KERNEL"} -> "prepared"
      [] state \in {"POWERON", "NETSEARCH", "REGISTERED", "START_IFACE"} -> "connecting"
      [] state = "LIVE" -> "live"
      [] state = "FAILED" -> "broken"
      [] state = "DESTROY" -> "closing"

CallOf(ev) ==
    CASE ev = "REQ_CONFIGURED" -> "configure"
      [] ev = "REQ_DESTROY" -> "remove"
      [] OTHER -> "none"

LifeSeen == IF gone THEN "gone" ELSE LifeOf(at["MODEM"])
CallSeen == IF todo = <<>> THEN "none" ELSE CallOf(Head(todo).ev)
SimIsReady == at["SIM"] = "READY"
RawIpAgreed == agreed /\ SetUpForRawIp

Life ==
    INSTANCE ModemLife WITH
        life       <- LifeSeen,
        configured <- config.configured,
        failed     <- error,
        simReady   <- SimIsReady,
        carries    <- RawIpAgreed,
        call       <- CallSeen

(* The life of the modem is as ModemLife promises it to the users of ubus:  *)
(* it connects only when told, never again untold after a connection that   *)
(* failed ("the modem should stay off", modem.h:97), with the SIM ready and *)
(* the interface set up and agreed (of what the kernel refused, see         *)
(* CarriesOnlyRawIp), and heeds every call made while it is off             *)
(* (ubus.c:287-345, modem.c:79-181, modem_fsm.c:409-450).                   *)
LivesAsPromised == Life!Spec

(* A modem that answers, with a SIM that needs no PIN, is brought online    *)
(* once it is configured, unless it was too slow to synchronise or the user *)
(* removes it.                                                              *)
ReachesLive ==
    config.configured ~> State("MODEM", {"LIVE", "FAILED", "DESTROY"}) \/ gone

(* wwan_set_configuration has "0 on success", and "currently uqmid only     *)
(* supports raw-ip" (modem_fsm.c:584): a modem is connected only over an    *)
(* interface that has the settings of raw IP, refused or not.               *)
UsesOnlyRawIp ==
    State("MODEM", {"POWERON", "NETSEARCH", "REGISTERED", "START_IFACE", "LIVE"})
        => link.raw_ip /\ ~link.pass_through

(* "Enter a failed state if not enough PIN tries are available", and when   *)
(* unlocked "read IMSI" (sim_fsm.c): the SIM rests in CHV_PIN only while    *)
(* the PIN is being verified.                                               *)
LeavesChvPin ==
    Idle /\ State("SIM", {"CHV_PIN"}) /\ ~State("MODEM", {"DESTROY"})
        => IsAsked("verify_pin")

=============================================================================
