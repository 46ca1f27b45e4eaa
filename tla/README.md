# A verification of uqmid and uqmi

TLA+ models of **uqmid**, the daemon that manages QMI modems on OpenWrt, and of
**uqmi**, the older command line tool, with TLC runs that check them on small
instances and TLAPS proofs of what matters most.  A generator in the repository
makes the message code both use.  The models follow the C source;
`PROJECT.json` names the lines each definition stands for.

## 1. The system

uqmid is one thread around libubox's `uloop`: a callback (data read, timer,
ubus call) runs to its end before the next begins.  There are no races on
memory; what is hard is the *order of callbacks*.  The modem answers QMI
requests when and in whatever order it likes, or not at all; a user configures
and removes the modem at any moment over ubus; timers expire; the character
device can die.  State is spread over several objects that each see only part
of this.

uqmi is a process that lives for one command line.  It too is a single thread,
but it waits for each answer in an event loop *nested* in the code that asked,
and it shares the modem with the runs before and after it: what one leaves
behind, client ids or answers still on their way, the next one meets.

| Component | State | Operations | Interacts with |
|---|---|---|---|
| **Request layer** `uqmid/services.c` | per service: state (IDLE, WAIT_CID, READY), client id, last transaction id, request list | send a message, send all queued, find/create, close | CTL for client ids; the device for writing; callbacks of its users |
| **Control service** `uqmid/ctrl.c` | none of its own: acts on the service its answers name | allocate and release a client id | request layer both ways |
| **QMI device** `uqmid/ddev.c` | running/stopping, shutdown timer, file descriptor, services | open, read, match an answer, close with or without a timeout, die | everything above; `modem.c` through `error_cb` and `closing_cb` |
| **State machine engine** `uqmid/osmocom/fsm.c` | per instance: state, timer, timer number | dispatch, change state, terminate | calls the handlers, which dispatch further |
| **MODEM machine** `uqmid/modem_fsm.c`, `modem_tx.c` | 15 states, error flag, profile, bearer, kernel interface | one handler per state, one callback per request, timer | SIM machine (starts it, reads its state); request layer; kernel |
| **SIM machine** `uqmid/sim_fsm.c`, `sim.c` | 11 states, PIN state, tries left, what was tried | slot status, card status, IMSI, PIN and PUK | tells MODEM once when the card is ready |
| **Life cycle and ubus** `uqmid/modem.c`, `ubus.c`, `uqmid.c` | list of modems, configuration | add, configure, remove, free, report | dispatches to MODEM |
| **Kernel interface** `uqmid/wwan.c` | sysfs flags, MTU, interface flags | refresh, configure, up and down | called by MODEM in CONFIGURE_KERNEL |
| **netifd handler** `uqmid/uqmid.proto.sh` | none | configures over ubus, polls the state | the daemon over ubus |
| **Command line tool, requests** `uqmi/dev.c`, `uqmi.c`, `commands.c` | list of requests, connected services and their client ids, which to keep or release; a timer | connect, send, wait in a nested loop, cancel on SYNC, timer or signal, disconnect | the modem; runs before it |
| **Command line tool, handlers** `uqmi/commands-*.c` | static structures shared by options and commands | prepare a request from the options and an argument; print an answer | called by the two passes over the command line |
| **Messages** `common/qmi-message.c`, `data/gen-*.pl` | a static buffer | build, walk over TLVs, status of an answer | everything that parses an answer |

What makes each of them correct, in a sentence:

- *Request layer, control service*: every request is on exactly one list until
  it is answered or freed; it is transmitted once; an answer reaches the request
  it answers; nothing stays queued behind a service that is ready; a ready
  service owns its client id.
- *Device*: closing ends, whatever the modem does, and frees everything once.
- *Engine*: an event or a change of state the masks do not allow has no effect;
  a timer and its number do not outlive the state they were started in.
- *MODEM and SIM*: no combination of late, failed, doubled or reordered answers
  loses the one notification that the SIM is ready, moves the machine past a
  step that did not happen, stops the search for a network, uses up a card's
  last try, or dereferences a service the modem offered and the daemon freed.
- *Command line tool, requests*: a run ends; it is given its own answers; it
  releases what it allocated and only that, however it ends, as far as it can know
  what it allocated.
- *Command line tool, handlers*: each command sends one request, with what the
  options say wherever on the line they stand and nothing of another command;
  what is printed is what the answer carries.

`PROJECT.json` lists the hazards, each at its line, with the properties that
watch it or the reason that none does.

## 2. The modules

| Module | Models |
|---|---|
| `QmiPromise` | what the request layer promises its callers (abstract) |
| `QmiServices` | request layer, control service, device; implements `QmiPromise` |
| `MCQmiServices` | instances of it for TLC |
| `QmiServices_proofs` | theorems about it |
| `QmiClosing_proofs` | theorems about closing the device and giving client ids back |
| `QmiTids_proofs` | the theorem about transaction ids that come round |
| `QmiPromise_proofs` | the theorem that the layer keeps its promise |
| `ModemLife` | the life of a modem as its users see it over ubus (abstract) |
| `FsmEngine` | dispatching, masks, changes of state; the requests outstanding |
| `SimFsm` | the SIM machine, the card |
| `Wwan` | setting up the kernel's network interface |
| `ModemFsm` | the MODEM machine, its timer, the radio, the network |
| `Modem` | composes these, with the user, closing and freeing; the properties; implements `ModemLife` |
| `MCModem` | instances of it for TLC |
| `Modem_proofs` | theorems about it |
| `UqmiDev` | runs of the command line tool on one modem: requests, client ids, timer, signals |
| `MCUqmiDev` | instances of it for TLC |
| `UqmiDev_proofs` | theorems about its types, its requests and their answers |
| `UqmiCids_proofs` | theorems about the client ids it takes and gives back |
| `UqmiHandlers` | what a command handler is: conversions of arguments, kinds of result |
| `UqmiWds`, `UqmiDms`, `UqmiNas`, `UqmiWms`, `UqmiWdaUim` | the handlers of `commands-*.c` |
| `Sms` | the text of a short message: packing, headers, unpacking |
| `UqmiCommands` | a command line: its two passes over the handlers, what is sent and shown |
| `MCUqmiCommands` | the command lines TLC tries |
| `UqmiCommands_proofs` | theorems about what a line sends and what its requests carry |

The request layer and the machines are separate models on purpose.  `Modem`
takes from `QmiServices` what is proved there, that a request is answered at
most once and by its own callback, and keeps of the layer below only which
requests are outstanding and which services exist.  `QmiServices` keeps of the
machines only that they may send any call at any moment.  `QmiPromise` states
what passes between them: a call waits, is sent once, and is answered by the
answer the modem gave to it or dropped with its service.  `ModemLife` states what
passes between the machines and the users of ubus.

The command line tool is split the same way.  `UqmiDev` keeps of a command that
it is for a service, and how it ends; `UqmiCommands` keeps of the layer below
that a request is answered or fails.

### QmiServices

*State.* `state`, `client`, `tid`, `reqs` are the fields of `struct
qmi_service`; `phase`, `reqTid` those of `struct qmi_request` (`new` before it
is sent, `queued` on a list but not transmitted, `pending`, `complete`,
`freed` with its service without an answer).  `dev`, `open`, `shutdown`,
`freed` are the device's.  `up`, `down`, `held` are external: the messages in
flight and the client ids the modem considers in use.  `lapped` and `answer`
are history.

*Actions.* One per uloop callback with everything it calls: `SendCall`
(`uqmi_service_send_msg`, from any handler), `SendVersion`; `ReceiveCall`,
`ReceiveVersion`, `ReceiveAlloc`, `ReceiveRelease`, `DiscardMessage`
(`qmi_notify_read` on one message, by the kind of its request);
`DeviceClose` (`qmi_device_close` with a timeout), `ShutdownFires`
(`qmi_device_close_cb`), `ConnectionDies` (`qmi_notify_state`, `modem_error_cb`
and `qmi_device_close` without one).  `Modem` is the other end: it allocates,
releases, answers, refuses or ignores.

*Choices.* A callback that sends a further request is two actions, a
`ReceiveCall` and a `SendCall`, since any call may be sent at any time anyhow.
The list that `uqmi_service_send_request` walks is changed by nobody meanwhile;
the order in which it transmits is `WalkOrders`.  An answer with an error status
reads as one without a TLV, as the generated parsers do not look at the status
(`gen-code.pl:195-250`), and the all-zero result names service 0, CTL: `NoInfo`.
After the modem is freed the model stops.

*Refinement.* `KeepsPromise` maps phases to the abstract stages of a call
(queued is waiting, pending is sent, complete is answered, freed is dropped) and
the messages in flight to the calls they carry.  An allocation and the
transmission it sets off, a walk over the list, the releases and the closing are
each one abstract step or none.

### FsmEngine, SimFsm, Wwan, ModemFsm, Modem

*State.* `at` is the state of both machines; `timer` and `T` the timer of MODEM
and its number (that of SIM does nothing: `sim_fsm_timer_cb` is empty).  `todo`
is the stack of events being dispatched: a callback dispatches one event after
another, and a handler may dispatch another before it returns; the model
handles one event per step, and nothing but handlers runs until the stack is
empty (`Idle`).  `asked` are the requests outstanding, for each service the
oldest first, `services` what the version answer created.  `config`, `sim`, `error` are fields of `struct modem`;
`link` is the kernel interface, `agreed` whether the modem has agreed to raw IP
since it was last written; `card`, `radio`, `coverage` are external.

*Actions.* One per request callback (named as in the code), one or two per state
handler together with the `onenter` of the state it changes to (named
`modem_st_...` and `sim_st_...`), `Drop` for events the masks refuse, four for
`modem_fsm_timer_cb`, and `Configure`, `RemoveModem`, `ServiceFreed`, `Freed`.
The masks `modem_in_events`, `modem_out_states`, `sim_in_events`,
`sim_out_states` are copied state by state from the tables at the end of the two
files.  A refused change of state leaves the machine where it is and skips the
new state's `onenter`, exactly as `state_chg` does, and several states of the SIM
machine depend on that.

*Choices.* A request to a service that does not exist is a null dereference in
`uqmi_service_send_msg`; the model sets `crashed` and stops.  The steps of
`modem_st_configure_kernel_onenter` are functions in `Wwan` from an interface to
the interfaces and results there can be: all done, or stopped at some step, with
what the steps before did, and nothing sent.  A file of sysfs is written through
a buffer, and `write_char_to_file` does not look at what closing it returns: a
value the kernel refuses counts as written (`wwan.c:157-174`).  That is an outcome
of `write_raw_ip` and `write_pass_through` too (the fault `refused`): done, with
the setting as it was.  The field `refused` of the interface is a history of it, so
that a property can tell a setting the kernel refused from one the daemon forgot.
One card in one slot with one PIN; which of PIN1 and UPIN it
is makes no difference to the control.  States nothing enters (SIM's
WAIT_UIM_PRESENT and DESTROY) are left out.  What requests carry is left out.

*Refinement.* `Life!Spec` is `ModemLife` with a part of its life for each state of
MODEM (`LifeOf`): IDLE to GET_MODEL are starting, POWEROFF is off, WAIT_UIM
waiting for the SIM, CONFIGURE_MODEM and CONFIGURE_KERNEL prepared, POWERON to
START_IFACE connecting, then live; FAILED is broken, DESTROY closing, and a freed
modem is gone. The call a user made is the event on top of `todo`, until it is
heeded or refused by the masks (`CallOf`); a modem carries raw IP when it has
agreed and the interface is set up for it.  A callback, most handlers and all
timers but one are no step that a user sees.  What `ModemLife` adds to the
invariants is about steps: a modem that is off connects because it was told to, or
was configured before and no connection failed since it was added; a configure
call made while it is off is never lost, and any other changes nothing but the
configuration; a SIM that is ready stays so; the interface is not touched from
POWERON on.

### UqmiDev

*State.* `inv` is the command line of the run; `pc` says whether `main` is on its
way to the next request, in the loop that waits for one, or off; `pass` and `at`
which command it is at.  `req` is the request being waited for (there is never
more than one), `timer` whether the timer of `--timeout` is armed.
`service_connected`, `service_keep_cid`, `service_release_cid`, `client_id`,
`tid` and `ctl_tid` are the fields of `struct qmi_dev`.  `up`, `down`, `held`,
`dead` are the modem's, and survive the run; `runs` and `faults` count what
`MaxRuns` and `MaxFaults` bound.  The rest is history: `sent`, `before`, `taken`,
`abandoned`; and of this run `stale` (CTL had something of an earlier run to answer
when it began), `lost` (the requests to CTL it gave up), `refused` (the services
whose release was refused) and `forgot` (the modem forgot its client ids).

*Actions.* `Start` parses a command line and opens the device; `RunCommand`
takes the next command of the pass, allocating a client id first where one is
wanted, until it must wait; `ReceiveAnswer`, `DiscardAnswer`, `ReceiveSync`,
`TimerFires`, `Signal` happen in the nested loop; `EndPass`, `ReleaseNext` and
`Exit` are the rest of `main`.  The modem answers, refuses, reboots (with a SYNC
indication) or dies.

*Choices.* A signal outside the loop has no effect, since `uloop_run` clears the
flag it sets.  Answers to a request given up by an earlier run stay in flight and
may be read by a later one, or be dropped with the closed device.

### UqmiHandlers and the command modules, Sms, UqmiCommands

A handler is two functions.  `prepare` takes the argument and the static
structures to a result (done, refused, or a request and the fields it carries)
and the structures after; `cb` takes the TLVs of an answer to the fields printed,
each with the TLV it was read from.  An argument is a word, a number or a text,
each from a small set with the values the handler tells apart.  Variables the C
code reads uninitialised are a choice (`zero`).

`UqmiCommands` runs a line through both passes: options first, whatever their
place, then commands, with the system selection appended once when an option asks
for it.  A request is answered with some of the TLVs its answer may carry, or
fails and ends the line.  Always-present TLVs are not left out of an answer: the
modem is assumed to keep to its interface there (`Always`).

`Sms` has the coding of short messages as functions on septets and octets: seven
bits packed in eight, the escapes, the user data header and the septets it
displaces.  `ReadsTheTextSent` compares what is shown with what was written.

Operators named `Wrong...` are no part of the specifications: each is a mistake
one could make in that spot, and each property is known to notice one.

## 3. The runs

| Run | Specification | Shows |
|---|---|---|
| `services_safety` | `Spec`, two services, three calls, two client ids, lossy modem | lists, client ids, answers and closing are right in every interleaving; the inductive invariant holds; the layer implements `QmiPromise` |
| `services_wrap` | `FairSpec`, counters of 3 (CTL) and 2, four calls, lossy modem | a transaction id is shared only after the counter came round; lists stay exact even then; a device that starts to close is closed and freed |
| `services_live` | `ServedSpec`, modem that answers | a call is answered unless the device closes |
| `modem_safety` | `Spec`, every fault, any order of answers, seven cards, three configurations, a radio that is on, with and without UIM, an interface left configured by another program | the seven invariants of the machines (below) and `NeverBlocksCard`; the machines implement `ModemLife` |
| `modem_live` | `FairSpec`, each service in order, no faults, open card, low power | `ReachesLive`, `SearchesWithRadioOn` |
| `uqmi_runs` | `FairSpec`, two runs, modem that refuses, reboots and dies | client ids, answers, the end of a run |
| `uqmi_commands` | `Spec`, every option and command in pairs, longer lines of those that share a structure, any answer to those that look at two TLVs at a time, messages of up to 17 characters | what is sent, what is shown |
| `services_forgotten` | `Spec` | violation, see below |
| `modem_radio`, `modem_chv`, `modem_card`, `modem_refused` | `Spec`, few faults, answers in order | violations, see below |

Deadlock is not checked (`CHECK_DEADLOCK FALSE`) in any run: the daemon rests
when nothing is asked, and the models stop when the modem is freed or the daemon
has crashed, or the runs of the tool are over.  That it rests only where it should is what `NoneStranded`,
`NoMissedSimReady`, `SearchIsPolled` and the liveness properties say.

### What the properties say

Request layer: `ListsAreExact`, `NoneStranded`, `AnswersReachTheirRequest`,
`ReadyServiceOwnsItsCid`, `ReleasedServiceHoldsNoCid`,
`StoppingDeviceWillClose`, `TidsSharedOnlyAfterWrap`, the action property
`RequestsMoveForward`, the refinement `KeepsPromise`, and `CallsAreAnswered`,
`ClosingEnds` for liveness.

Machines:

- `NoMissedSimReady`: MODEM never rests in WAIT_UIM with the SIM in READY.  The
  SIM says so once, in whichever state MODEM then is; only the look at the SIM
  in `modem_st_wait_uim_onenter` saves the other orders.
- `TriesOnlyWithSpareTries`, `NeverBlocksCard`: although the slot status makes
  the card status be asked for twice, and the second answer may come after a
  wrong PIN, no card loses its last try (while the application read is the one
  used: see `modem_card`).
- `CarriesOnlyRawIp`: an old `RX_SUCCEED` does not pass for the answer to the
  data format, nor does a kernel interface that was set up halfway, and whatever
  settings it had before, each that raw IP needs was set before it is used.  That
  the kernel took them is not claimed: a setting it refused is excepted (`SetTo`),
  since the daemon does not notice.  `UsesOnlyRawIp` claims it without the
  exception, and is violated in `modem_refused`.
- `ConnectsOnlyWithSim`: a modem is prepared, connecting or connected only if it
  was configured and its SIM is ready.  MODEM looks at SIM in WAIT_UIM only; later
  states rest on SIM never leaving READY, and on `REQ_SIM_READY` being handled while
  it is true.
- `LivesAsPromised`: the refinement above, with an interface that was *set up* for
  raw IP in the same sense.  `WrongGoesOn` is the mistake of going on
  from POWEROFF after a failed connection, which no invariant would notice.
- `SearchIsPolled`: every way through NETSEARCH keeps its timer running.
- `CrashesOnlyForWantOfService`: the only null dereference is for one of DMS,
  WDS, WDA, NAS the modem did not offer.  (The code says so itself, `FIXME:
  create a list of required services and validate them`, `modem_fsm.c:153`.)
- `ModemTypeOK` contains the one relation that matters of the types: a timer
  number is never seen in a state that does not use it.
- `SearchesWithRadioOn` is claimed for a modem that starts in low power, as long as
  no connection has failed.  Otherwise an answer about the operating mode asked for in
  POWEROFF can be taken for one asked for in POWERON: see `modem_radio`.  A modem
  without its radio never registers, so `ReachesLive` would fail with it.
- `ReachesLive`: configured, answered, with a usable card, the modem gets to LIVE
  (or FAILED when it was too slow to synchronise, or is removed).

Command line tool:

- `AnswersReachTheirRequest` (of `UqmiDev`): only an answer to a request that an
  *earlier run* gave up can be taken for another's, as every run counts its
  transaction ids from 1; it may, and then a run is told a wrong client id.
- `RunLeavesNoTrace`: a run releases each client id it was not asked to keep, and
  takes none away it was not asked to release, however it ends: done, failed, stopped
  by its timer or a signal, the modem rebooted, also in the middle of its closing.
  `WrongCompleteBadly`, a run that leaves at once when something failed, violates it.
  Three things are left out, and are what the tool cannot do: a service whose
  *allocation* or *release* was itself given up (the modem may have served it, and the
  tool does not learn), one whose release was *refused*, and a run that begins while
  CTL has something of an earlier run to answer, which it may take for its own.
- `SendsUnderItsOwnCid`: a command goes out under an id the modem gave and still holds,
  or the user named, also in runs that give up requests; unless the modem forgot its
  ids in this run, or the run began as just said.
- `StopsWhenItGivesUp`: after a timeout, a signal or a SYNC indication nothing is
  sent but releases.
- `RunsEnd`: with a modem that answers, or reboots and says so.
  `TimeoutStopsCommands`: with a timer and any modem the commands end.  The run
  may still not: the timer fires once, and a release that a dead modem does not
  answer is waited for without end.
- `SendsWhatTheLineSays`, `CarriesTheOptionsGiven`, `SelectsTheNetworkGiven`,
  `CommandsDoNotInterfere`: one request per command in the order of the line, with
  the options of the whole line and nothing else; the exceptions (`Unsent`,
  `Default`) are in the module.  `CarriesTheOptionsGiven` covers each option the help
  lists for a command (`HelpOptions`), the storage of messages among them, and the
  sender, target and flash of `--send-message`, which meet in one field, the raw
  message.  Its exception is `Gives`: `--storage sim` sets nothing, so it does not
  undo a `--storage me` before it, as the help has it.
- `ShowsTheAnswerOnce`: no field is printed from a TLV the answer lacks, nor twice
  into one table.  The exception is `--get-signal-info` when several radios report
  their signal: each is printed by an `if` of its own into the same table, so a field
  appears once for each such radio.  LTE and 5G together have a table each, and there
  the property has no exception.
- `ReadsTheTextSent`: with the exceptions of the last septet it states.

### Bounds

- Services, calls, client ids: two services suffice for one to be ready while
  another waits; two calls on one service for one to be queued behind the other;
  two client ids for a stale one.  Each call is sent once: calls are independent
  of one another, so a repeated call is a further call.  `services_wrap` has three
  calls on one service and four requests on CTL.
- `TidMax` stands for 255 and 65535.  Eight is never reached (`services_safety`),
  so `lapped` stays false there and the properties under it are not vacuous;
  2 and 3 are passed in `services_wrap`.
- `MaxAsked` bounds the requests outstanding when a timer repeats one or the user
  configures.  Without it a modem that never answers is polled for ever, each time
  with a further request; with two outstanding, each kind of answer can already
  arrive late, in another state, or twice.  No other action is bounded.
- `InOrder = FALSE` lets any outstanding request be answered next.  The order in
  which `asked` lists them then matters to nothing, and the `VIEW` of
  `modem_safety`, `AnyOrder`, has instead of the lists how many of each request are
  on them.  Under `TRUE` each service answers its oldest request first, and the
  services are independent.
- Interface: `Fresh` and `Used` differ in every setting; `modem_safety` has the
  harder one.
- Configurations: a PIN, a PUK, or both.  One without either is left out of
  `modem_safety`, as every test of `config.pin` and `config.puk` fails in one of the
  three.  Radio: on at first in `modem_safety`, where switching it off and on, and
  failing to, gives the rest; off at first in `modem_live`.
- Runs of the tool: two (`MaxRuns`), so that one can meet what the other left, and
  two faults (`MaxFaults`: a signal, a refusal, a reboot, the modem's death), so
  that one can fall into the handling of another.  Two services, two client ids,
  counters of 256 and 65536 ids as in the code, which no run of these lines gets
  round (`ShortLines`, see section 4).  Three lines, of two to four commands:
  two requests on one service, with a timer; a client id asked for, one service kept
  and one released, up to a command that is refused; a request, then SYNC, then
  `--set-client-id` with an id that fits and one that is cut, and a release.
  Between them each way to claim or give up a client id occurs.
- Command lines: every pair of items, each option and command with an argument it
  takes and one it refuses; and, of the items that share a structure, every line of
  three (profiles, links, messages) or four (PINs, networks, the storage of messages,
  and the options of `--send-message`: commands that read three options, or options
  given twice before two commands).
- Answers: for most commands each optional TLV alone, all and none, since the
  callbacks look at them one by one; for those that look at two at a time, all
  subsets of these; for `--get-signal-info` every subset of all its TLVs
  (`SignalAnswers`).
- Texts: of 0, 1, 6 to 9 and 15 to 17 characters, on both sides of each place where
  septets and octets meet; messages delivered without a header, with one of six
  octets, and with one of seven, which ends at a septet, and one with characters
  of the extension table.
- Cards: open, empty, locked with one and two tries, blocked with one and two PUK
  tries, dead.  The code compares tries, a byte in the answer, with 2 only.

### Fairness

- Handlers: weak.  They are the rest of a callback that has begun.
- Timers and answers (`SF`): uloop serves expired timers and readable descriptors
  on every turn.  Between two turns the action is disabled whenever an event is
  being handled, so weak fairness would say nothing; strong fairness says that what
  is due again and again is served.
- The modem answers what it is asked, the user configures the modem at some point
  and a network comes into reach (`CoverageComes`): assumptions about the outside,
  made only for `ReachesLive` and `CallsAreAnswered`.  `ClosingEnds` assumes
  nothing about the modem.
- The command line tool: weak, for the process, for messages that have arrived, for
  a timer that is due, and for a modem that has not died.

### Disagreements found

Each is a run that must be violated, with the line it contradicts:

1. `services_forgotten`: if the connection dies while the device is stopping, the
   modem is freed with its timer armed and its descriptor open (`ddev.c:217`).
2. `modem_radio`: configured while it is being switched off, the modem is taken
   for switched on and searched for a network without its radio, for ever
   (`modem_fsm.c:427`, `690`).
3. `modem_chv`: CHV_PIN accepts no event and may not change to the failed states,
   so a SIM that asks for its PIN never leaves it (`sim_fsm.c:640`).
4. `modem_card`: the usable application is found at index `j` and read at index
   `i`, the card's (`sim_fsm.c:206`); the last try may be used.
5. `modem_refused`: a value of `raw_ip` or `pass_through` that the kernel refuses
   counts as written, as the result of `fclose` is not looked at (`wwan.c:172`), and
   the modem is used over an interface that is not set to raw IP.

Met while modelling and not turned into runs.  In the daemon: a second request on
a service that waits for its client id is sent at once, with the first, under
client id -1, as a FIXME says (`services.c:98`); the immediate shutdown scheduled
while the last service is closed is overwritten by the full timeout
(`ddev.c:236`); after a failed call the timer number is set but no timer started,
and START_IFACE rests if the call took longer to fail than the timer to run out
(`modem_fsm.c:887`); `wds_get_profile_list_cb` keeps the last 3GPP profile where
its comment says the first (`modem_fsm.c:505`); a client id allocated for a
service that is closed meanwhile is never released (`services.c:239`); GET_INFO
may not change to FAILED, so a dead card leaves the SIM machine in GET_INFO
(`sim_fsm.c:344`); the second search for the network interface uses a name that
was never read (`wwan.c:120`); an error answer leaves the ubus caller of `opmode`
without a reply (`modem.c:230`).  In the tool: the timer fires once, so a release
may be waited for without end (`uqmi.c:111`); a packet that is not QMI ends the
reading of those behind it (`dev.c:190`); an unknown link mode is read from an
uninitialised variable (`commands-wda.c:89`); a client id given to
`--set-client-id` is cut to eight bits when it is used, and one of 2^31 or more
becomes a negative number, for which a client id is allocated instead (the model has
ids below that); `--set-autoconnect` is accepted and its request built, but never sent
(`commands-wds.c:423`), though the help lists it (`commands-wds.h:65`), and the same
is true of `--set-data-format`, of which no text says what it should do; `--storage
sim` sets nothing (`commands-wms.c:49`), so after `--storage me` the messages are
still those of the modem's own storage, where the help names both
(`commands-wms.h:35`); `--get-signal-info` prints a field twice
into one table when several radios report; `--set-lte-attach-pdn` is refused whatever
its argument.

## 4. The proofs

### The request layer

Proved, for every finite set of services and calls, any client ids and counter
widths, lossy or not:

| Theorem of `QmiServices_proofs` | Says |
|---|---|
| `TypeCorrect` | `Spec => []TypeOK` |
| `InductiveInvariant` | `Spec => []Inductive` |
| `ListsCorrect` | `Spec => []ListsAreExact` |
| `NothingStranded` | `Spec => []NoneStranded` |
| `AnswersCorrect` | `Spec => []AnswersReachTheirRequest` |
| `CidsCorrect` | `Spec => []ReadyServiceOwnsItsCid` |
| `MovesForward` | `Spec => RequestsMoveForward` |
| **of `QmiClosing_proofs`** | |
| `StoppingClosesCorrect` | `Spec => []StoppingDeviceWillClose` |
| `ReleasedHoldNone` | `Spec => []ReleasedServiceHoldsNoCid` |
| **of `QmiTids_proofs`** | |
| `SharedOnlyAfterWrap` | `Spec => []TidsSharedOnlyAfterWrap` |
| **of `QmiPromise_proofs`** | |
| `PromiseKept` | `Spec /\ []~lapped => KeepsPromise` |

These are all the safety and action properties the passing runs check of
`QmiServices`, and its refinement.

*Assumptions.* Those of `QmiServices`: finite sets of services and calls, `NoCid`
is no client id, counters of at least 1.  TLC evaluates them in every run.
`PromiseKept` has one more, `[]~lapped`: that no counter comes round to an
unanswered request.  It is needed, as after that an answer may complete another
request than the one it was given to; `services_wrap` shows it happen, and
`services_safety`, whose counters are too wide for it, checks `KeepsPromise` as it
stands.

*Argument.* None of the properties is inductive alone.  That a list is exact after
an answer needs that the answer's request is pending; that it is pending needs
that messages in flight match the transaction ids of the list (`MessagesMatch`),
which holds only until two unanswered requests share one: hence the history
variable `lapped`, and hence `ListsAreExact`, which holds even then, is proved
from the lists alone.  That a ready service owns its client id needs that what an
answer says about an id is what the modem did (`AnswersAreTrue`).  Which requests
can exist at all depends on the stage of the device's life (`LifeStages`): no
release before the device stops, no service before the version answer.
`Inductive` is the conjunction, checked by TLC in `services_safety` first.  The
proof that a step preserves it has one lemma per action; the lemmas in front of
them say what removing, prepending and batching do to a list that lists a set
exactly, and that a batch of transmissions keeps transaction ids apart or sets
`lapped`.

*Closing.* `StoppingDeviceWillClose` is inductive relative to `Inductive`.  Only
`DeviceClose` issues releases (`ReleasesKept` for the other steps), for services
that are ready and so not gone; only the answer to a release frees a single
service, and then looks itself whether CTL alone is left; the rest frees nothing
and leaves the timer, or closes the device.

*Releases.* That a service whose release was answered holds no client id in the
modem is a statement about the modem's books, which no variable of the daemon
mirrors.  `HeldMatches` follows one id along its way: the modem holds for a service
at most the id in the allocation's answer, then at most the one the ready service
works under, then at most the one its release carries, and none once the release is
answered well; each service has one allocation and one release.  It is inductive
with `Inductive` while `~lapped`; after a wrap an answer to another request may be
taken for the release's.

*Transaction ids.* Two invariants count the requests transmitted.  `TidsGiven`: a
request has its id exactly from its transmission on.  `Numbered`: until a service
has transmitted more requests than it has ids, its counter is their number and
their ids are distinct and at most that.  So a collision needs more requests than
ids.  Every step is shown to be `Silent` (it transmits nothing) or `Sending` (a set
of requests of one service, ranked in the order of the walk), so that each
invariant has two cases instead of one per action.

*Refinement.* `InitPromise` maps the initial state and `PromiseStep` every step to an
abstract step or a stutter: issuing and transmitting to `Issue` and `Send`, what the
modem does with a call to `Reply`, the callback to `Answer`, the version answer to
`List`, freeing services to `Close`.  CTL's allocations and releases move no call;
an allocation's answer maps to the `Send` it sets off, a release's to `Close`.  That
an arriving answer completes its own call follows from `MessagesMatch`, and is the
reason for `[]~lapped`.

### The machines

Proved in `Modem_proofs`, for every set of cards with any number of applications,
every set of configurations, faults and interfaces, whatever services the modem
offers, in whatever order it answers, and however many requests are outstanding:

| Theorem | Says |
|---|---|
| `ModemTypeCorrect` | `Spec => []ModemTypeOK` |
| `SimReadyCorrect` | `Spec => []NoMissedSimReady` |
| `SearchCorrect` | `Spec => []SearchIsPolled` |
| `RawIpCorrect` | `Spec => []CarriesOnlyRawIp` |
| `CrashCorrect` | `Spec => []CrashesOnlyForWantOfService` |
| `TriesCorrect` | `FirstIsUsed /\ Spec => []TriesOnlyWithSpareTries` |
| `BlocksCorrect` | `FirstIsUsed /\ Spec => NeverBlocksCard` |
| `RadioCorrect` | `Spec => [](error \/ SearchesWithRadioOn)`, if `StartsOff` |
| `SimNeededCorrect` | `Spec => []ConnectsOnlyWithSim` |
| `LifeKept` | `Spec => LivesAsPromised` |

These are all the safety and action properties the passing runs check of `Modem`,
and its refinement.

*Assumptions.* Those of the modules, named where the constants are declared and
evaluated by TLC.  The two theorems about tries have one more, `FirstIsUsed`: on every card
with a usable application the first one is usable.  The daemon reads the tries of
application 1 of a card whichever it uses (disagreement 4), and `modem_card`
shows a card without it lose its last try; the cards of `modem_safety` satisfy it.
`StartsOff` of `RadioCorrect`: the modem starts with its radio off, and when asked for its
operating mode says one, or fails (the daemon takes an answer without a mode for
online).  `error` is set when a connection has failed for good; then MODEM is in
POWEROFF with the radio on, as in `modem_radio`, which has no such start.

*Argument.* The inductive invariant `IInv` has seven parts, four of which say which
values there can be (`EngineOK`, `WorldOK`, `CardOK`, and `Timing`, to which belongs
that a timer number never outlives its state and that NETSEARCH has its timer).
The other three relate what no handler sees together:

- `Telling`: MODEM in WAIT_UIM and SIM in READY only while the event that says so
  is the next to be handled.  Between the two machines' steps the property is false,
  which is why it is stated at rest and why this is stronger.
- `Agreeing`: from POWERON on the modem has agreed and the interface is up and set
  up for raw IP, but for a setting whose write the kernel refused unnoticed.  POWERON is entered on `RX_SUCCEED` in CONFIGURE_KERNEL, from whomever it
  comes; so the invariant follows the one request for the data format from the step
  that sends it, with the interface set up, through the list of WDA, the callback and
  the event to the handler, and says that nothing changes the interface meanwhile.
- `Serving`: a service with a request outstanding, or an answer in hand, exists.
  With it the only null dereferences are at the first request to a service.

`modem_safety` was run with the seven as invariants before they were proved.

The proof does not go handler by handler for each part.  One lemma per callback, one
per state handler, says what it does in a few words (`Reports`: takes its
request off the list and posts at most one event, of these; `Steps`: one of the moves
the tables allow, the timer set accordingly, at most these requests sent), and
`CallbackKeeps`, `ModemKeeps`, `SimKeeps`, `TimerKeeps`, `OutsideKeeps` conclude from
those words alone that `IInv` is kept.  Below them are lemmas on `change` and the
masks, on lists of requests from which one is taken or to which one is appended, and
on the interface after each step of `Wwan`.

For the tries, `Trying` is inductive with `IInv`.  `pinTried` is set when a PIN is sent
and never cleared, so a PIN is sent once (`Once`), and until then nothing the daemon
does lowers the tries: what was read of them is still what the card has.  A second
card status after a wrong PIN sets off no further try, since `pinTried` is not reset with
the tries read.  The same holds of the PUK.  That a request
outstanding is there once at most could not be said of a set of requests, which is one
reason why `asked` has lists.
For the radio, `Radioing` says that nothing switches it off, that it is switched on
from POWERON on only, and that no event says it is on before it is, although
the answers in POWEROFF and POWERON are the same and may be late.

For the life of the modem, `Calling` says that a call is dispatched while nothing else
is, and to MODEM; that `REQ_SIM_READY` is on the stack only while SIM is READY; and that
MODEM is in no part of its life without the configuration and the SIM that part needs.
It is inductive with `IInv`, and was run as an invariant of `modem_safety` before it was
proved.  The step relation is then taken apart along the same words as `IInv`: of a
callback `Reports` says that it posts no call and, except for the answer to the data
format, leaves `agreed` alone, so it maps to `Carry` or a stutter (`CallbackLives`); of
a handler of MODEM `Steps` says which states it passes (`Walks`), and a walk is one step
of the life or stays in one part of it (`ModemLives`); a handler of SIM is `Unlock` or
unseen (`SimLives`); of the rest the failure to synchronise, the user's calls and the
freeing are seen (`TimerLives`, `OutsideLives`).  A handler may walk through several
states, as POWEROFF to WAIT_UIM to CONFIGURE_MODEM when the SIM is ready; that is why
`Connect` has two ends. No assumption is needed beyond those of the modules.

The applications of a card are searched for the first that is usable; that there is
one comes from the order of the naturals being well-founded (`WFMin`).

### The command line tool

Proved for every set of services and command lines of any length, any client ids and
number of runs, a modem that may refuse, forget, be silent or die at any moment:

| Theorem of `UqmiDev_proofs` | Says |
|---|---|
| `TypeCorrect` | `Spec => []TypeOK` |
| `GivingUpCorrect` | `Spec => []StopsWhenItGivesUp` |
| `AnswersCorrect` | `Spec => []AnswersReachTheirRequest`, if `ShortLines` |
| **of `UqmiCids_proofs`** | |
| `NoTraceCorrect` | `Spec => []RunLeavesNoTrace` |
| `OwnCidCorrect` | `Spec => []SendsUnderItsOwnCid` |

*Assumption.* `ShortLines`: twice the items of a line and twice the services are
fewer than the ids of either counter, 256 and 65536 in the code.  It bounds what a run
can send; a longer line would come round to an id, and the tool checks for no
collision.  The lines of `uqmi_runs` satisfy it.

*Argument.* `StopsWhenItGivesUp` is about requests given up; that the one being
waited for is not yet among them needs that requests are numbered in the order they
are sent (`Ids`), and that once one was given up only the closing pass is left, which
sends releases (`GaveUp`, `Closing`).  `AnswersReachTheirRequest` needs a count of
what was sent: `FewSent` bounds it by the commands handled, the services connected
and the pass reached, so that no counter has come round (`CountersLast`), and
`Counted` says that within a run each id given out is below the counter.  So an
answer that matches was sent by this run, or by an earlier one.

For client ids the argument is one about `held`, which belongs to the modem.  Whatever
was given up before, what CTL has in flight in a run that did not begin `stale` is the
request waited for or one of those `lost` (`Known`); and once one of these is lost the
run is closing, and done with the service whose release it was (`LosingEnds`).  So an
answer that completes an allocation or a release is its own.  Each client id held that
was not before the run is in the tool's hands (`InHand`: connected, in the allocation's
answer, or in the release waited for), or left at the exit as asked, or of a service not
accounted for (`NothingLeft`); what was held before is held still and in no hands that
could release it (`NothingTaken`); what the tool has connected with, the modem holds
(`OwnCids`).  `Options` and `Purposes` say what the two passes may still ask to keep or
to release.  The step that gives up a request is where the proof has to be careful: a
command given up leaves every service accounted for, and closing goes on to release
them; only a lost allocation or release costs its service.  `lost` and `refused` must be
history: what is left at the end of the run is explained only if they are remembered.

Proved for lines of any options and commands with any arguments, of any length:

| Theorem of `UqmiCommands_proofs` | Says |
|---|---|
| `CommandsTypeCorrect` | `Spec => []CommandsTypeOK` |
| `SendsCorrect` | `Spec => []SendsWhatTheLineSays` |
| `CarriesCorrect` | `Spec => []CarriesTheOptionsGiven`, if `AsTheHelpAsks` |
| `SelectsCorrect` | `Spec => []SelectsTheNetworkGiven`, if `AsTheHelpAsks` |
| `IndependenceCorrect` | `Spec => []CommandsDoNotInterfere` |

*Assumptions.* `FamiliesAssumption`: a line is made of the program's own options and
commands, without the internal one that `use_sel_req` appends, which has no option to
type it.  `AsTheHelpAsks`: arguments the program does not check itself are what the help
asks for.  `--mcc foo` is refused by the program, but `--ep-iface foo` is read as a
number all the same, and a `--profile` above 255 loses its upper bits: what was meant
by such an argument nobody can say.  The lines of `uqmi_commands` satisfy both, and
TLC evaluates both.  Only the theorems that say so need `AsTheHelpAsks`.

*Argument.* It has two halves.  The first is about the handlers, one lemma per service
(`WdsGood` to `UimGood`), each option and command by itself: `Owner` says which option
each field of the static structures belongs to, and `Good` that a handler is done,
refuses or sends its own request, appends the selection only if it is one of those that
select, and leaves the structures as `After` says: its own fields hold what was meant,
everybody else's hold what they held.  `PrepareCarries` says that a request takes
each of the fields the help lists for it from the structure, `PreparesText` that a text
is built of the sender, target and flash there.  These are statements about single
calls; nothing in them depends on the line.

The second half is an invariant of the run (`CommandsInv`).  `Given(c)` is the items of
one kind already over with in either pass, of those that set something (`Gives`, which
leaves out `--storage sim`).  `StaticInv` says that each field holds what
the last item of `Given` for its owner said, or what it held at first; a mode of
selection is there once `--set-plmn` was run, which is in the second pass, when all the
options are over with, so the numbers it chose by stay.  `SentInv` has one request for
each item handled so far, in order; `SelectInv` ties the selection at the end of the
line to the items handled that select; `LineInv` says it is the last.  A request is
sent in the second pass, when `Given` of an option is all there is of it on the line,
and a line grows by a selection only, which is no option: so what a request was sent
with is what the whole line says, then and later (`HoldsTheLast`, and from it
`RequestCarries`, `TextCarries` and `RequestSelects`).  That there is a last item of a kind
at all would take induction over the line; the invariant carries it along (`LastInv`).

For `IndependenceCorrect` the handlers are compared with themselves.  Two states of the
structures are `Alike` if they differ in fields of `Scratch` only, those that a command
writes before it reads them: the data handle of `wds_stop_network`, the slot of a PIN,
the index of a message.  A command makes the same request of structures that are alike,
and leaves alike structures (`PrepareMatches`, one lemma per service).  The invariant
(`FillInv`) then is that in the first pass the structures are what the options so far
fill, and in the second `Alike` to `Filled`, what all of them fill.  `Filled` is a
recursive function over the line.  That there is such a function, and that a line grown
by the selection fills no more, is induction over a length.  The library's induction
theorems cannot be used here, but their ground can: the order of the naturals is
well-founded, so a set of naturals has a smallest member (`Smallest`), and the shortest
line for which the claim failed would be one item longer than one for which it holds
(`FillingExists`, `FillingGrows`).

### Model-checked only

- Liveness (`CallsAreAnswered`, `ClosingEnds`, `ReachesLive`, `RunsEnd`,
  `TimeoutStopsCommands`) is out of the prover's reach.
- `ShowsTheAnswerOnce`: names of fields are put together from strings, which the
  provers do not look into.
- `ReadsTheTextSent`: what the packing of a text of any length in `Sms` computes takes
  induction over its length and arithmetic with powers of two and remainders, which
  the provers do not do.

## 5. Not modelled, and the plan

Not modelled:

- the netifd handler and hotplug, shell scripts that poll the daemon;
- the framing of messages (QMUX and MBIM), the walk over TLVs and packet tracing:
  the models begin with a parsed answer;
- the message code generator, but for what its parsers make of an answer without a
  TLV, and the JSON library;
- the layout of what the command line tool prints, and its enumerations' names;
- indications in the daemon: nothing registers one yet (`services.c:249-308`);
- several modems at once: they share nothing but the list they are on;
- the ubus calls that only report.

In order:

1. **Done.** Request layer, checked and proved; both state machines, checked.
2. **Done.** `QmiPromise`, and `QmiServices` shown to implement it, checked and
   proved; the remaining theorems about the request layer.
3. **Done.** `Wwan`; `UqmiDev`; the command handlers, `Sms` and `UqmiCommands`.
4. **Done.** `ModemLife`, the life of a modem as `uqmid.proto.sh` sees it over ubus,
   and `Modem` shown to implement it, checked and proved.
5. Pure parts: the walk over TLVs (`qmi-message.c`), the decoding of IMSI
   (`sim.c`); checked against reference definitions.
6. **Done.** Theorems of `UqmiDev`: all the safety properties of `uqmi_runs`.
7. **Done.** Theorems of `Modem`: all the safety properties of `modem_safety` and
   `modem_live`, for every set of faults, services, cards and configurations.
8. **Done.** Theorems of `UqmiCommands`: the safety properties that do not depend on
   data of any length.
