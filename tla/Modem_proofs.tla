----------------------------- MODULE Modem_proofs -----------------------------
(***************************************************************************)
(* Theorems about a modem of uqmid: its two machines, the requests they     *)
(* have outstanding, the card and the kernel's network interface, for any   *)
(* cards, configurations, services offered and faults.                      *)
(***************************************************************************)
EXTENDS Modem, TLAPS, WellFoundedInduction, SequenceTheorems

(***************************************************************************)
(* The kernel's network interface.                                          *)
(***************************************************************************)

Modes == [raw_ip : BOOLEAN, pass_through : BOOLEAN]
RawIpOnly(net) == net.up /\ SetTo(net, RawIp) /\ net.mtu = 1500
SameSettings(net, old) ==
    /\ net.raw_ip = old.raw_ip /\ net.pass_through = old.pass_through
    /\ net.refused = old.refused

(* What each step leaves when it succeeds.                                  *)
LEMMA UpDown ==
  ASSUME NEW net \in Interface, NEW b \in BOOLEAN, NEW o \in wwan_ifupdown(net, b)
  PROVE  /\ o.net \in Interface
         /\ o.ok => /\ o.net.up = b
                    /\ SameSettings(o.net, net)
                    /\ o.net.mtu = net.mtu
<1>1. o = Done([net EXCEPT !.up = b]) \/ o = Failed(net)
  BY DEF wwan_ifupdown
<1>2. CASE o = Done([net EXCEPT !.up = b])
  <2>1. o.net = [net EXCEPT !.up = b] BY <1>2 DEF Done
  <2> QED BY <1>2, <2>1 DEF Interface, SameSettings, Done
<1>3. CASE o = Failed(net)
  <2>1. o.net = net /\ ~o.ok BY <1>3 DEF Failed
  <2> QED BY <2>1
<1> QED BY <1>1, <1>2, <1>3

LEMMA Sized ==
  ASSUME NEW net \in Interface, NEW o \in wwan_set_mtu(net, DefaultMtu)
  PROVE  /\ o.net \in Interface
         /\ o.ok => /\ o.net.up = net.up
                    /\ SameSettings(o.net, net)
                    /\ o.net.mtu = DefaultMtu
<1>1. o = Done([net EXCEPT !.mtu = DefaultMtu]) \/ o = Failed(net)
  BY DEF wwan_set_mtu
<1>2. CASE o = Done([net EXCEPT !.mtu = DefaultMtu])
  <2>1. o.net = [net EXCEPT !.mtu = DefaultMtu] BY <1>2 DEF Done
  <2> QED BY <1>2, <2>1 DEF Interface, DefaultMtu, SameSettings, Done
<1>3. CASE o = Failed(net)
  <2>1. o.net = net /\ ~o.ok BY <1>3 DEF Failed
  <2> QED BY <2>1
<1> QED BY <1>1, <1>2, <1>3

(* Each file is written, refused or as it should be.                        *)
LEMMA RawIpWritten ==
  ASSUME NEW net \in Interface, NEW v \in BOOLEAN, NEW o \in write_raw_ip(net, v)
  PROVE  /\ o.net \in Interface
         /\ o.ok => /\ o.net.up = net.up /\ o.net.mtu = net.mtu
                    /\ o.net.raw_ip = v \/ "raw_ip" \in o.net.refused
<1> DEFINE written == [net EXCEPT !.raw_ip = v, !.refused = @ \ {"raw_ip"}]
           refused == [net EXCEPT !.refused = @ \cup {"raw_ip"}]
           same    == [net EXCEPT !.refused = @ \ {"raw_ip"}]
<1>1. written \in Interface /\ written.up = net.up /\ written.mtu = net.mtu /\ written.raw_ip = v
  BY DEF Interface
<1>2. /\ refused \in Interface /\ refused.up = net.up /\ refused.mtu = net.mtu
      /\ "raw_ip" \in refused.refused
  BY DEF Interface
<1>3. same \in Interface /\ same.up = net.up /\ same.mtu = net.mtu /\ same.raw_ip = net.raw_ip
  BY DEF Interface
<1> HIDE DEF written, refused, same
<1>4. \/ net.raw_ip = v /\ o = Done(same)
      \/ o = Done(written) \/ o = Done(refused) \/ o = Failed(net)
  BY DEF write_raw_ip, written, refused, same
<1> QED BY <1>1, <1>2, <1>3, <1>4 DEF Done, Failed

LEMMA PassThroughWritten ==
  ASSUME NEW net \in Interface, NEW v \in BOOLEAN, NEW o \in write_pass_through(net, v)
  PROVE  /\ o.net \in Interface
         /\ o.ok => /\ o.net.up = net.up /\ o.net.mtu = net.mtu
                    /\ o.net.pass_through = v \/ "pass_through" \in o.net.refused
                    /\ o.net.raw_ip = net.raw_ip
                    /\ "raw_ip" \in net.refused => "raw_ip" \in o.net.refused
<1> DEFINE written == [net EXCEPT !.pass_through = v, !.refused = @ \ {"pass_through"}]
           refused == [net EXCEPT !.refused = @ \cup {"pass_through"}]
           same    == [net EXCEPT !.refused = @ \ {"pass_through"}]
           Kept(n) == /\ n \in Interface /\ n.up = net.up /\ n.mtu = net.mtu
                      /\ n.raw_ip = net.raw_ip
                      /\ "raw_ip" \in net.refused => "raw_ip" \in n.refused
<1>1. Kept(written) /\ written.pass_through = v
  BY DEF Interface
<1>2. Kept(refused) /\ "pass_through" \in refused.refused
  BY DEF Interface
<1>3. Kept(same) /\ same.pass_through = net.pass_through
  BY DEF Interface
<1> HIDE DEF written, refused, same
<1>4. \/ net.pass_through = v /\ o = Done(same)
      \/ o = Done(written) \/ o = Done(refused) \/ o = Failed(net)
  BY DEF write_pass_through, written, refused, same
<1> QED BY <1>1, <1>2, <1>3, <1>4 DEF Done, Failed

LEMMA Configured ==
  ASSUME NEW net \in Interface, NEW c \in Modes, NEW o \in wwan_set_configuration(net, c)
  PROVE  /\ o.net \in Interface
         /\ o.ok => o.net.up = net.up /\ o.net.mtu = net.mtu /\ SetTo(o.net, c)
<1> DEFINE half == write_raw_ip(net, c.raw_ip)
<1>1. c.raw_ip \in BOOLEAN /\ c.pass_through \in BOOLEAN
  BY DEF Modes
<1>2. \A q \in half : /\ q.net \in Interface
                      /\ q.ok => /\ q.net.up = net.up /\ q.net.mtu = net.mtu
                                 /\ q.net.raw_ip = c.raw_ip \/ "raw_ip" \in q.net.refused
  BY <1>1, RawIpWritten
<1>3. \/ o = Failed(net)
      \/ o \in half /\ ~o.ok
      \/ \E q \in half : q.ok /\ o \in write_pass_through(q.net, c.pass_through)
  <2> HIDE DEF half
  <2>1. o \in {Failed(net)} \cup Then(half, LAMBDA n : write_pass_through(n, c.pass_through))
    BY DEF wwan_set_configuration, half
  <2> QED BY <2>1 DEF Then
<1> HIDE DEF half
<1>4. CASE o = Failed(net)
  BY <1>4 DEF Failed
<1>5. CASE o \in half /\ ~o.ok
  BY <1>5, <1>2
<1>6. ASSUME NEW q \in half, q.ok, o \in write_pass_through(q.net, c.pass_through)
      PROVE  /\ o.net \in Interface
             /\ o.ok => o.net.up = net.up /\ o.net.mtu = net.mtu /\ SetTo(o.net, c)
  <2>1. q.net \in Interface
    BY <1>2
  <2>2. /\ o.net \in Interface
        /\ o.ok => /\ o.net.up = q.net.up /\ o.net.mtu = q.net.mtu
                   /\ o.net.pass_through = c.pass_through \/ "pass_through" \in o.net.refused
                   /\ o.net.raw_ip = q.net.raw_ip
                   /\ "raw_ip" \in q.net.refused => "raw_ip" \in o.net.refused
    BY <1>1, <1>6, <2>1, PassThroughWritten
  <2> QED BY <1>2, <1>6, <2>2 DEF SetTo
<1> QED BY <1>3, <1>4, <1>5, <1>6

(* When every step succeeds, the interface carries raw IP and nothing else. *)
LEMMA SetUp ==
  ASSUME NEW net \in Interface, NEW o \in configure_kernel(net)
  PROVE  /\ o.net \in Interface
         /\ o.ok => RawIpOnly(o.net)
<1> DEFINE refreshed == wwan_refresh_device(net)
           down      == Then(refreshed, LAMBDA n : wwan_ifupdown(n, FALSE))
           ethernet  == Then(down, LAMBDA n : wwan_set_configuration(n, Ethernet))
           sized     == Then(ethernet, LAMBDA n : wwan_set_mtu(n, DefaultMtu))
           raw       == Then(sized, LAMBDA n : wwan_set_configuration(n, RawIp))
<1>0. Ethernet \in Modes /\ RawIp \in Modes
  BY DEF Ethernet, RawIp, Modes
<1>1. \A p \in refreshed : p.net \in Interface
  BY DEF wwan_refresh_device, Done, Failed
<1>2. \A p \in down : p.net \in Interface
  <2> SUFFICES ASSUME NEW p \in down PROVE p.net \in Interface OBVIOUS
  <2> HIDE DEF refreshed
  <2>1. p \in refreshed \/ \E q \in refreshed : p \in wwan_ifupdown(q.net, FALSE)
    BY DEF Then
  <2>2. FALSE \in BOOLEAN OBVIOUS
  <2>3. ASSUME NEW q \in refreshed, p \in wwan_ifupdown(q.net, FALSE) PROVE p.net \in Interface
    BY <2>3, <1>1, <2>2, UpDown, Zenon
  <2> QED BY <2>1, <2>3, <1>1, Zenon
<1>3. \A p \in ethernet : p.net \in Interface
  <2> SUFFICES ASSUME NEW p \in ethernet PROVE p.net \in Interface OBVIOUS
  <2> HIDE DEF down
  <2>1. p \in down \/ \E q \in down : p \in wwan_set_configuration(q.net, Ethernet)
    BY DEF Then
  <2> QED BY <2>1, <1>2, <1>0, Configured, Zenon
<1>4. \A p \in sized : p.net \in Interface /\ (p.ok => p.net.mtu = 1500)
  <2> SUFFICES ASSUME NEW p \in sized PROVE p.net \in Interface /\ (p.ok => p.net.mtu = 1500) OBVIOUS
  <2> HIDE DEF ethernet
  <2>1. (p \in ethernet /\ ~p.ok) \/ \E q \in ethernet : p \in wwan_set_mtu(q.net, DefaultMtu)
    BY DEF Then
  <2> QED BY <2>1, <1>3, Sized DEF DefaultMtu
<1>5. \A p \in raw : p.net \in Interface /\ (p.ok => p.net.mtu = 1500 /\ SetTo(p.net, RawIp))
  <2> SUFFICES ASSUME NEW p \in raw PROVE p.net \in Interface /\ (p.ok => p.net.mtu = 1500 /\ SetTo(p.net, RawIp)) OBVIOUS
  <2> HIDE DEF sized
  <2>1. (p \in sized /\ ~p.ok) \/ \E q \in sized : q.ok /\ p \in wwan_set_configuration(q.net, RawIp)
    BY DEF Then
  <2>2. ASSUME NEW q \in sized, q.ok, p \in wwan_set_configuration(q.net, RawIp)
        PROVE p.net \in Interface /\ (p.ok => p.net.mtu = 1500 /\ SetTo(p.net, RawIp))
    BY <2>2, <1>4, <1>0, Configured
  <2> QED BY <2>1, <1>4, <2>2
<1> DEFINE all == Then(raw, LAMBDA n : wwan_ifupdown(n, TRUE))
<1>6. (o \in raw /\ ~o.ok) \/ \E q \in raw : q.ok /\ o \in wwan_ifupdown(q.net, TRUE)
  <2>1. o \in all
    BY DEF configure_kernel
  <2> HIDE DEF raw
  <2> QED BY <2>1 DEF Then
<1> HIDE DEF raw
<1>7. \/ o.net \in Interface /\ ~o.ok
      \/ \E q \in raw : /\ q.ok
                        /\ o.net \in Interface
                        /\ o.ok => /\ o.net.up = TRUE
                                   /\ SameSettings(o.net, q.net)
                                   /\ o.net.mtu = q.net.mtu
  <2>1. TRUE \in BOOLEAN OBVIOUS
  <2>2. ASSUME NEW q \in raw, o \in wwan_ifupdown(q.net, TRUE)
        PROVE  /\ o.net \in Interface
               /\ o.ok => /\ o.net.up = TRUE
                          /\ SameSettings(o.net, q.net)
                          /\ o.net.mtu = q.net.mtu
    <3>1. q.net \in Interface BY <1>5
    <3> QED BY <2>2, <3>1, <2>1, UpDown, Zenon
  <2>3. CASE o \in raw /\ ~o.ok
    <3>1. o.net \in Interface BY <2>3, <1>5
    <3> QED BY <2>3, <3>1
  <2>4. CASE \E q \in raw : q.ok /\ o \in wwan_ifupdown(q.net, TRUE)
    BY <2>4, <2>2, Zenon
  <2> QED BY <1>6, <2>3, <2>4
<1>8. \A n, m : SameSettings(n, m) /\ SetTo(m, RawIp) => SetTo(n, RawIp)
  BY DEF SameSettings, SetTo
<1>9. /\ o.net \in Interface
      /\ o.ok => o.net.up = TRUE /\ SetTo(o.net, RawIp) /\ o.net.mtu = 1500
  BY <1>7, <1>5, <1>8
<1> QED BY <1>9 DEF RawIpOnly
(***************************************************************************)
(* Requests.                                                                *)
(***************************************************************************)

LEMMA ServicesAre == Services = {"CTL", "DMS", "WDS", "WDA", "NAS", "UIM"}
BY DEF Services, Kinds, ServiceOf

LEMMA ServiceKnown == \A r \in Kinds : ServiceOf[r] \in Services
BY DEF Services

LEMMA RemoveAtType ==
  ASSUME NEW R, NEW q \in Seq(R), NEW i \in DOMAIN q
  PROVE  /\ RemoveAt(q, i) \in Seq(R)
         /\ Len(RemoveAt(q, i)) = Len(q) - 1
         /\ \A j \in DOMAIN RemoveAt(q, i) : RemoveAt(q, i)[j] = q[IF j < i THEN j ELSE j + 1]
<1> DEFINE A == SubSeq(q, 1, i - 1)
           B == SubSeq(q, i + 1, Len(q))
<1>1. i \in 1 .. Len(q)
  OBVIOUS
<1>2. /\ A \in Seq(R) /\ Len(A) = i - 1
      /\ \A j \in 1 .. i - 1 : A[j] = q[j]
  BY <1>1
<1>3. /\ B \in Seq(R) /\ Len(B) = Len(q) - i
      /\ \A j \in 1 .. Len(q) - i : B[j] = q[i + j]
  BY <1>1
<1> HIDE DEF A, B
<1>4. RemoveAt(q, i) = A \o B
  BY DEF RemoveAt, A, B
<1>5. RemoveAt(q, i) \in Seq(R) /\ Len(RemoveAt(q, i)) = Len(q) - 1
  BY <1>1, <1>2, <1>3, <1>4
<1>6. ASSUME NEW j \in DOMAIN RemoveAt(q, i)
      PROVE  RemoveAt(q, i)[j] = q[IF j < i THEN j ELSE j + 1]
  <2>1. j \in 1 .. Len(q) - 1 /\ j \in Nat
    BY <1>5
  <2>2. CASE j < i
    <3>1. RemoveAt(q, i)[j] = A[j]
      BY <1>1, <1>2, <1>3, <1>4, <2>1, <2>2
    <3> QED
      BY <1>1, <1>2, <2>1, <2>2, <3>1
  <2>3. CASE j >= i
    <3>1. (A \o B)[j] = B[j - Len(A)]
      <4>1. A \in Seq(R) /\ B \in Seq(R) /\ j \in Len(A) + 1 .. Len(A) + Len(B)
        BY <1>1, <1>2, <1>3, <2>1, <2>3
      <4> QED
        BY <4>1
    <3>2. B[j - (i - 1)] = q[j + 1]
      BY <1>1, <1>3, <2>1, <2>3
    <3> QED
      BY <1>1, <1>2, <1>4, <2>1, <2>3, <3>1, <3>2
  <2> QED
    BY <1>1, <2>1, <2>2, <2>3
<1> QED
  BY <1>5, <1>6

LEMMA HeldOnce ==
  ASSUME NEW R, NEW q \in Seq(R), NEW i \in DOMAIN q, NEW j \in DOMAIN RemoveAt(q, i)
  PROVE  \E k \in DOMAIN q : k # i /\ RemoveAt(q, i)[j] = q[k]
<1>1. j \in 1 .. Len(q) - 1 /\ RemoveAt(q, i)[j] = q[IF j < i THEN j ELSE j + 1]
  BY RemoveAtType
<1> DEFINE k == IF j < i THEN j ELSE j + 1
<1>2. k \in DOMAIN q /\ k # i
  BY <1>1
<1> QED
  BY <1>1, <1>2

AskedOK == asked \in [Services -> Seq(Kinds)]

(* What is sent is appended to the list of its service; when a service is   *)
(* missing nothing is sent and the daemon crashes.                          *)
LEMMA Sends ==
  ASSUME AskedOK, NEW requests \in SUBSET Kinds, Send(requests)
  PROVE  /\ AskedOK'
         /\ \A s \in Services :
               \/ asked'[s] = asked[s]
               \/ \E r \in requests : /\ ServiceOf[r] = s /\ s \in services
                                      /\ asked'[s] = Append(asked[s], r)
         /\ \/ crashed' = crashed
            \/ crashed' = TRUE /\ \E r \in requests : ServiceOf[r] \notin services
<1>1. CASE \A r \in requests : ServiceOf[r] \in services
  <2>1. asked' = Queued(requests) /\ crashed' = crashed
    BY <1>1 DEF Send
  <2>2. ASSUME NEW s \in Services, \E r \in requests : ServiceOf[r] = s
        PROVE  \E r \in requests : /\ ServiceOf[r] = s /\ s \in services
                                   /\ asked'[s] = Append(asked[s], r)
    <3> DEFINE r == CHOOSE r \in requests : ServiceOf[r] = s
    <3>1. r \in requests /\ ServiceOf[r] = s
      BY <2>2
    <3>2. asked'[s] = Append(asked[s], r)
      BY <2>1, <2>2 DEF Queued
    <3> HIDE DEF r
    <3> QED
      BY <3>1, <3>2, <1>1
  <2>3. ASSUME NEW s \in Services, ~\E r \in requests : ServiceOf[r] = s
        PROVE  asked'[s] = asked[s]
    BY <2>1, <2>3 DEF Queued
  <2>4. \A s \in Services : asked'[s] \in Seq(Kinds)
    <3> TAKE s \in Services
    <3>1. asked[s] \in Seq(Kinds)
      BY DEF AskedOK
    <3>2. CASE \E r \in requests : ServiceOf[r] = s
      <4>1. PICK r \in requests : asked'[s] = Append(asked[s], r)
        BY <2>2, <3>2
      <4>2. r \in Kinds
        OBVIOUS
      <4> QED
        BY <3>1, <4>1, <4>2
    <3>3. CASE ~\E r \in requests : ServiceOf[r] = s
      BY <2>3, <3>1, <3>3
    <3> QED
      BY <3>2, <3>3
  <2>5. asked' \in [Services -> Seq(Kinds)]
    <3>1. asked' = [s \in Services |-> asked'[s]]
      BY <2>1 DEF Queued
    <3> QED
      BY <3>1, <2>4
  <2> QED
    BY <2>1, <2>2, <2>3, <2>5 DEF AskedOK
<1>2. CASE ~\A r \in requests : ServiceOf[r] \in services
  BY <1>2 DEF Send, AskedOK
<1> QED
  BY <1>1, <1>2

LEMMA Appends ==
  ASSUME AskedOK, NEW requests \in SUBSET Kinds, Send(requests), NEW s \in Services
  PROVE  \/ asked'[s] = asked[s]
         \/ \E r \in requests : /\ ServiceOf[r] = s /\ s \in services
                                /\ asked'[s] = Append(asked[s], r)
BY Sends

LEMMA AskedSince ==
  ASSUME AskedOK, NEW requests \in SUBSET Kinds, Send(requests), NEW q \in Kinds, IsAsked(q)'
  PROVE  IsAsked(q) \/ q \in requests
<1> DEFINE s == ServiceOf[q]
<1>1. s \in Services
  BY ServiceKnown
<1>2. asked[s] \in Seq(Kinds)
  BY <1>1 DEF AskedOK
<1>3. PICK i \in DOMAIN asked'[s] : asked'[s][i] = q
  BY DEF IsAsked
<1> HIDE DEF s
<1>4. CASE asked'[s] = asked[s]
  BY <1>3, <1>4 DEF IsAsked, s
<1>5. CASE \E r \in requests : asked'[s] = Append(asked[s], r)
  <2>1. PICK r \in requests : asked'[s] = Append(asked[s], r)
    BY <1>5
  <2>2. (i \in DOMAIN asked[s] /\ asked[s][i] = q) \/ q = r
    BY <2>1, <1>2, <1>3
  <2> QED
    BY <2>2 DEF IsAsked, s
<1>6. asked'[s] = asked[s] \/ \E r \in requests : asked'[s] = Append(asked[s], r)
  BY <1>1, Appends
<1> QED
  BY <1>4, <1>5, <1>6

(* An answer takes its request from the list of its service.                *)
LEMMA Answers ==
  ASSUME AskedOK, NEW r \in Kinds, NEW posted, Answered(r, posted)
  PROVE  /\ AskedOK' /\ IsAsked(r)
         /\ \A s \in Services \ {ServiceOf[r]} : asked'[s] = asked[s]
         /\ Len(asked'[ServiceOf[r]]) = Len(asked[ServiceOf[r]]) - 1
         /\ \E i \in DOMAIN asked[ServiceOf[r]] :
               /\ asked[ServiceOf[r]][i] = r
               /\ asked'[ServiceOf[r]] = RemoveAt(asked[ServiceOf[r]], i)
<1> DEFINE t == ServiceOf[r]
<1>1. t \in Services
  BY ServiceKnown
<1>2. asked[t] \in Seq(Kinds)
  BY <1>1 DEF AskedOK
<1>3. PICK i \in DOMAIN asked[t] :
         asked[t][i] = r /\ asked' = [asked EXCEPT ![t] = RemoveAt(@, i)]
  BY DEF Answered
<1> HIDE DEF t
<1>4. RemoveAt(asked[t], i) \in Seq(Kinds) /\ Len(RemoveAt(asked[t], i)) = Len(asked[t]) - 1
  BY <1>2, <1>3, RemoveAtType
<1>5. AskedOK' /\ asked'[t] = RemoveAt(asked[t], i) /\ \A s \in Services \ {t} : asked'[s] = asked[s]
  BY <1>1, <1>3, <1>4 DEF AskedOK
<1>6. IsAsked(r)
  BY <1>3 DEF IsAsked, t
<1> QED
  BY <1>3, <1>4, <1>5, <1>6 DEF t

LEMMA AskedBefore ==
  ASSUME AskedOK, NEW r \in Kinds, NEW posted, Answered(r, posted), NEW q \in Kinds, IsAsked(q)'
  PROVE  IsAsked(q)
<1> DEFINE t == ServiceOf[r]
           s == ServiceOf[q]
<1>1. t \in Services /\ s \in Services
  BY ServiceKnown
<1>2. asked[t] \in Seq(Kinds)
  BY <1>1 DEF AskedOK
<1>3. PICK j \in DOMAIN asked'[s] : asked'[s][j] = q
  BY DEF IsAsked
<1> HIDE DEF t, s
<1>4. CASE s # t
  <2>1. asked'[s] = asked[s]
    BY <1>1, <1>4, Answers DEF t
  <2> QED
    BY <2>1, <1>3 DEF IsAsked, s
<1>5. CASE s = t
  <2>1. PICK i \in DOMAIN asked[t] : asked'[t] = RemoveAt(asked[t], i)
    BY Answers DEF t
  <2>2. \E k \in DOMAIN asked[t] : asked[t][k] = asked'[t][j]
    BY <1>2, <1>3, <1>5, <2>1, HeldOnce
  <2> QED
    BY <2>2, <1>3, <1>5 DEF IsAsked, s
<1> QED
  BY <1>4, <1>5


(***************************************************************************)
(* The states, and the changes the masks permit.                            *)
(***************************************************************************)

LEMMA ModemStatesAre ==
  ModemStates = {"IDLE", "RESYNC", "GET_VERSION", "GET_MODEL", "POWEROFF", "WAIT_UIM",
                 "CONFIGURE_MODEM", "CONFIGURE_KERNEL", "POWERON", "NETSEARCH",
                 "REGISTERED", "START_IFACE", "LIVE", "FAILED", "DESTROY"}
BY DEF ModemStates, modem_in_events

SimStateNames == DOMAIN sim_in_events

LEMMA SimStatesAre ==
  SimStateNames = {"IDLE", "GET_INFO", "READY", "CHV_PIN", "CHV_PUK", "FAIL_PIN_REQUIRED",
                   "FAIL_PUK_REQUIRED", "FAIL_NO_SIM_PRESENT", "FAILED"}
BY DEF SimStateNames, sim_in_events

LEMMA ModemMayChange ==
  /\ \A s \in ModemStates \ {"DESTROY"} : "DESTROY" \in modem_out_states[s]
  /\ modem_out_states["DESTROY"] = {}
  /\ "RESYNC" \in modem_out_states["IDLE"]
  /\ "GET_VERSION" \in modem_out_states["RESYNC"] /\ "FAILED" \in modem_out_states["RESYNC"]
  /\ "GET_MODEL" \in modem_out_states["GET_VERSION"]
  /\ "POWEROFF" \in modem_out_states["GET_MODEL"]
  /\ "WAIT_UIM" \in modem_out_states["POWEROFF"]
  /\ "CONFIGURE_MODEM" \in modem_out_states["WAIT_UIM"]
  /\ "CONFIGURE_KERNEL" \in modem_out_states["CONFIGURE_MODEM"]
  /\ "POWERON" \in modem_out_states["CONFIGURE_KERNEL"]
  /\ "NETSEARCH" \in modem_out_states["POWERON"]
  /\ "REGISTERED" \in modem_out_states["NETSEARCH"]
  /\ "START_IFACE" \in modem_out_states["REGISTERED"]
  /\ "LIVE" \in modem_out_states["START_IFACE"] /\ "POWEROFF" \in modem_out_states["START_IFACE"]
BY ModemStatesAre DEF modem_out_states

LEMMA PermittedOne ==
  ASSUME NEW out, NEW a
  PROVE  Permitted(out, <<a>>) <=> a \in out[at["MODEM"]]
BY DEF Permitted

LEMMA PermittedTwo ==
  ASSUME NEW out, NEW a, NEW b, a \in out[at["MODEM"]], b \in out[a]
  PROVE  Permitted(out, <<a, b>>)
<1> DEFINE p == <<a, b>>
<1>1. DOMAIN p = {1, 2}
  OBVIOUS
<1>2. p[1] = a /\ p[2] = b
  OBVIOUS
<1> HIDE DEF p
<1>3. Permitted(out, p)
  BY <1>1, <1>2 DEF Permitted
<1> QED
  BY <1>3 DEF p

(***************************************************************************)
(* The invariants.  Those of the events dispatched speak of events as the   *)
(* callbacks and handlers post them.                                        *)
(***************************************************************************)

EventNames ==
    {"RX_SYNC", "RX_FAILED", "RX_VERSION", "RX_MODEL", "RX_MANUFACTURER", "RX_REVISION",
     "RX_IMEI", "RX_POWEROFF", "RX_POWERON", "RX_POWERSET", "RX_GET_PROFILE_LIST",
     "RX_MODIFIED_PROFILE", "RX_SUCCEED", "RX_SUBSCRIBED", "RX_SUBSCRIBE_FAILED",
     "RX_REGISTERED", "RX_UNREGISTERED", "RX_SEARCHING", "RX_DISABLE_AUTOCONNECT_SUCCESS",
     "REQ_START", "REQ_CONFIGURED", "REQ_DESTROY", "REQ_SIM_READY",
     "GET_SLOT_FAILED", "NO_UIM_FOUND", "VALID_ICCID", "CARD_STATUS_VALID", "UIM_FAILED",
     "GET_IMSI_SUCCESS", "GET_IMSI_FAILED", "PIN_INVALID", "PIN_VERIFIED", "REFRESH",
     "PUK_INVALID", "PUK_VERIFIED"}
Arguments == {"none", "error", "data_format", "call_failed", "no_effect", "card_status"}
Posted == [to : {"MODEM", "SIM"}, ev : EventNames, arg : Arguments]

(* What MODEM does with its timer: the number of the timer belongs to the   *)
(* state that started it, and NETSEARCH has it running.                     *)
Timing ==
    /\ timer \in BOOLEAN
    /\ T \in {N_NONE, N_RESEND, N_FAILURE}
    /\ T = N_FAILURE => at["MODEM"] = "RESYNC"
    /\ T = N_RESEND => at["MODEM"] = "START_IFACE"
    /\ at["MODEM"] = "NETSEARCH" => timer

EngineOK ==
    /\ at \in [{"MODEM", "SIM"} -> ModemStates \cup SimStateNames]
    /\ at["MODEM"] \in ModemStates
    /\ at["SIM"] \in SimStateNames
    /\ todo \in Seq(Posted)
    /\ AskedOK
    /\ services \subseteq Services
    /\ crashed \in BOOLEAN
    /\ gone \in BOOLEAN

WorldOK ==
    /\ error \in BOOLEAN
    /\ link \in Interface
    /\ agreed \in BOOLEAN
    /\ radio \in {"online", "low", "other"}
    /\ coverage \in BOOLEAN

(* A PIN or PUK is asked for only by a card that has an application.        *)
CardOK ==
    /\ config \in Configurations
    /\ sim \in SimRecord
    /\ card \in Seq(Application)
    /\ sim.state \in {"PIN_REQUIRED", "PUK_REQUIRED"} => Usable
    /\ IsAsked("verify_pin") \/ IsAsked("unblock_pin") => Usable

(* When the SIM is ready while MODEM waits for it, MODEM is just being told. *)
Telling ==
    at["MODEM"] = "WAIT_UIM" /\ at["SIM"] = "READY" =>
        todo # <<>> /\ Head(todo) = ToModem("REQ_SIM_READY")

(* The data format is asked for once, with the interface set up; its answer *)
(* finds MODEM where it was asked.                                          *)
Agreeing ==
    /\ at["MODEM"] \in {"POWERON", "NETSEARCH", "REGISTERED", "START_IFACE", "LIVE"} =>
          agreed /\ RawIpOnly(link)
    /\ asked["WDA"] # <<>> =>
          /\ Len(asked["WDA"]) = 1
          /\ at["MODEM"] \in {"CONFIGURE_KERNEL", "DESTROY"}
          /\ RawIpOnly(link)
    /\ \A i \in DOMAIN todo : todo[i].arg = "data_format" =>
          /\ Len(todo) = 1 /\ todo[i].to = "MODEM"
          /\ asked["WDA"] = <<>>
          /\ at["MODEM"] \in {"CONFIGURE_KERNEL", "DESTROY"}
          /\ agreed /\ RawIpOnly(link)

(* Whoever has a request outstanding, or its answer in hand, is there.      *)
ImsiEvents == {"GET_IMSI_FAILED", "GET_IMSI_SUCCESS"}
Requests == {"REQ_START", "REQ_CONFIGURED", "REQ_DESTROY", "REQ_SIM_READY"}
Reported == EventNames \ (ImsiEvents \cup Requests)
Serving ==
    /\ "CTL" \in services
    /\ \A s \in Services : asked[s] # <<>> => s \in services
    /\ \A i \in DOMAIN todo : todo[i].ev \in ImsiEvents => "UIM" \in services
    /\ CrashesOnlyForWantOfService


(***************************************************************************)
(* What a callback does: it takes its request, and tells what it learned.   *)
(***************************************************************************)

LEMMA KindsAre ==
  Kinds = {"sync", "version", "model", "manuf", "revision", "ids", "get_opmode",
           "set_low_power", "set_online", "profile_list", "modify_profile",
           "start_network", "stop_network", "current_settings", "data_format",
           "subscribe", "serving_system", "network_search", "slot_status",
           "card_status", "read_imsi", "verify_pin", "unblock_pin"}
BY DEF Kinds, ServiceOf

(* Events that say nothing about the IMSI or the data format, and that only *)
(* a modem posts.                                                           *)
Harmless(posted) ==
    /\ posted \in Seq(Posted)
    /\ \A i \in DOMAIN posted :
          posted[i].ev \notin ImsiEvents \cup Requests /\ posted[i].arg # "data_format"

LEMMA HarmlessOne ==
  ASSUME NEW m \in {"MODEM", "SIM"}, NEW e \in Reported,
         NEW a \in Arguments \ {"data_format"}
  PROVE  Harmless(<<Event(m, e, a)>>)
BY DEF Harmless, Reported, Event, Posted

LEMMA HarmlessTwo ==
  ASSUME NEW m \in {"MODEM", "SIM"}, NEW e \in Reported,
         NEW f \in Reported
  PROVE  Harmless(<<Event(m, e, "none"), Event(m, f, "none")>>)
<1> DEFINE x == Event(m, e, "none")
           y == Event(m, f, "none")
<1>1. /\ x \in Posted /\ x.ev \notin ImsiEvents \cup Requests /\ x.arg # "data_format"
      /\ y \in Posted /\ y.ev \notin ImsiEvents \cup Requests /\ y.arg # "data_format"
  BY DEF Reported, Event, Posted, Arguments
<1> HIDE DEF x, y
<1>2. Harmless(<<x, y>>)
  BY <1>1 DEF Harmless
<1> QED
  BY <1>2 DEF x, y

LEMMA HarmlessNone == Harmless(<<>>)
BY DEF Harmless

Reports(r, posted) ==
    /\ Answered(r, posted)
    /\ posted \in Seq(Posted)
    /\ \A i \in DOMAIN posted :
          /\ posted[i].ev \in ImsiEvents => r = "read_imsi"
          /\ posted[i].ev \notin Requests
          /\ posted[i].arg = "data_format" =>
                Len(posted) = 1 /\ posted[i].to = "MODEM" /\ r = "data_format" /\ agreed'
    /\ services \subseteq services' /\ services' \subseteq Services
    /\ UNCHANGED <<config, link, error, coverage>>
    /\ agreed' \in BOOLEAN /\ (agreed => agreed')
    /\ r # "data_format" => UNCHANGED agreed
    /\ radio' \in {"online", "low", "other"}

LEMMA Plainly ==
  ASSUME EngineOK, WorldOK, NEW r, NEW posted, Answered(r, posted), Harmless(posted),
         UNCHANGED <<services, config, modemVars>>
  PROVE  Reports(r, posted)
BY DEF EngineOK, WorldOK, modemVars, Harmless, Reports

LEMMA OutcomeReports ==
  ASSUME EngineOK, WorldOK, NEW r, NEW good \in Reported,
         NEW bad \in Reported, Outcome(r, good, bad)
  PROVE  \E posted : Reports(r, posted) /\ UNCHANGED simVars
<1>1. UNCHANGED <<services, config, modemVars>> /\ UNCHANGED simVars
  BY DEF Outcome, simVars
<1>2. PICK e \in {good, bad} : Answered(r, <<ToModem(e)>>)
  BY DEF Outcome
<1>3. "none" \in Arguments \ {"data_format"} /\ "MODEM" \in {"MODEM", "SIM"}
  BY DEF Arguments
<1>4. Harmless(<<ToModem(e)>>)
  BY <1>3, HarmlessOne DEF ToModem
<1> QED
  BY <1>1, <1>2, <1>4, Plainly


LEMMA Joined ==
  ASSUME NEW x, NEW y
  PROVE  <<x>> \o <<>> = <<x>> /\ <<x>> \o <<y>> = <<x, y>>
<1> DEFINE p == <<x>> \o <<>>
           q == <<x>> \o <<y>>
<1>1. p \in Seq({x}) /\ Len(p) = 1 /\ p[1] = x
  OBVIOUS
<1>2. q \in Seq({x, y}) /\ Len(q) = 2 /\ q[1] = x /\ q[2] = y
  OBVIOUS
<1> HIDE DEF p, q
<1>3. p = <<x>>
  BY <1>1
<1>4. q = <<x, y>>
  BY <1>2
<1> QED
  BY <1>3, <1>4 DEF p, q

LEMMA ModemCallbackReports ==
  ASSUME EngineOK, WorldOK, ModemCallback
  PROVE  \E r \in Kinds : \E posted : Reports(r, posted) /\ UNCHANGED simVars
<1> DEFINE Names == Reported
           Args == Arguments \ {"data_format"}
<1>1. /\ \A e \in Names : Harmless(<<ToModem(e)>>)
      /\ \A e, f \in Names : Harmless(<<ToModem(e), ToModem(f)>>)
      /\ \A e \in Names, a \in Args : Harmless(<<Event("MODEM", e, a)>>)
  <2>1. "MODEM" \in {"MODEM", "SIM"} /\ "none" \in Args
    BY DEF Arguments
  <2> QED
    BY <2>1, HarmlessOne, HarmlessTwo DEF ToModem
<1>2. \A e \in {"RX_SYNC", "RX_FAILED", "RX_VERSION", "RX_MODEL", "RX_MANUFACTURER", "RX_REVISION",
               "RX_IMEI", "RX_POWEROFF", "RX_POWERON", "RX_POWERSET", "RX_GET_PROFILE_LIST",
               "RX_MODIFIED_PROFILE", "RX_SUCCEED", "RX_SUBSCRIBED", "RX_SUBSCRIBE_FAILED",
               "RX_REGISTERED", "RX_UNREGISTERED", "RX_SEARCHING",
               "RX_DISABLE_AUTOCONNECT_SUCCESS"} : e \in Names
  BY DEF Reported, EventNames, ImsiEvents, Requests
<1>3. \A a \in {"error", "call_failed", "no_effect"} : a \in Args
  BY DEF Arguments
<1> HIDE DEF Names, Args
<1>4. CASE ctl_sync_request_cb
  <2>1. "RX_SYNC" \in Reported /\ "RX_FAILED" \in Reported
    BY DEF Reported, EventNames, ImsiEvents, Requests
  <2>2. "sync" \in Kinds
    BY KindsAre
  <2> QED
    BY <1>4, <2>1, <2>2, OutcomeReports DEF ctl_sync_request_cb
<1>5. CASE uqmid_modem_version_cb
  <2>1. Answered("version", <<ToModem("RX_VERSION")>>) /\ Harmless(<<ToModem("RX_VERSION")>>)
    BY <1>5, <1>1, <1>2 DEF uqmid_modem_version_cb
  <2>2. services \subseteq services' /\ services' \subseteq Services
    BY <1>5, OfferedAssumption DEF uqmid_modem_version_cb, EngineOK
  <2>3. UNCHANGED modemVars /\ UNCHANGED simVars
    BY <1>5 DEF uqmid_modem_version_cb
  <2>4. "version" \in Kinds
    BY KindsAre
  <2>5. Reports("version", <<ToModem("RX_VERSION")>>)
    BY <2>1, <2>2, <2>3 DEF Reports, Harmless, WorldOK, modemVars, simVars
  <2> QED
    BY <2>3, <2>4, <2>5
<1>6. CASE get_model_cb
  <2>1. "RX_MODEL" \in Reported /\ "RX_MODEL" \in Reported
    BY DEF Reported, EventNames, ImsiEvents, Requests
  <2>2. "model" \in Kinds
    BY KindsAre
  <2> QED
    BY <1>6, <2>1, <2>2, OutcomeReports DEF get_model_cb
<1>7. CASE get_manuf_cb
  <2>1. "RX_MANUFACTURER" \in Reported /\ "RX_MANUFACTURER" \in Reported
    BY DEF Reported, EventNames, ImsiEvents, Requests
  <2>2. "manuf" \in Kinds
    BY KindsAre
  <2> QED
    BY <1>7, <2>1, <2>2, OutcomeReports DEF get_manuf_cb
<1>8. CASE get_revision_cb
  <2>1. "RX_REVISION" \in Reported /\ "RX_REVISION" \in Reported
    BY DEF Reported, EventNames, ImsiEvents, Requests
  <2>2. "revision" \in Kinds
    BY KindsAre
  <2> QED
    BY <1>8, <2>1, <2>2, OutcomeReports DEF get_revision_cb
<1>9. CASE get_ids_cb
  <2>1. "RX_IMEI" \in Reported /\ "RX_IMEI" \in Reported
    BY DEF Reported, EventNames, ImsiEvents, Requests
  <2>2. "ids" \in Kinds
    BY KindsAre
  <2> QED
    BY <1>9, <2>1, <2>2, OutcomeReports DEF get_ids_cb
<1>10. CASE dms_get_operating_mode_cb
  <2>1. UNCHANGED <<services, config, modemVars>> /\ UNCHANGED simVars
    BY <1>10 DEF dms_get_operating_mode_cb, simVars
  <2>2. \E posted : Answered("get_opmode", posted) /\ Harmless(posted)
    BY <1>10, <1>1, <1>2 DEF dms_get_operating_mode_cb
  <2>3. "get_opmode" \in Kinds
    BY KindsAre
  <2> QED
    BY <2>1, <2>2, <2>3, Plainly
<1>11. CASE dms_set_operating_mode_cb
  <2>1. PICK mode \in {"low", "online"} :
           /\ \/ Answered(SetRequest[mode], <<ToModem("RX_POWERSET")>>) /\ radio' = mode
              \/ Answered(SetRequest[mode], <<ToModem("RX_FAILED")>>) /\ UNCHANGED radio
           /\ UNCHANGED <<services, simVars, error, link, agreed, coverage>>
    BY <1>11 DEF dms_set_operating_mode_cb, SetRequest
  <2>2. SetRequest[mode] \in Kinds
    BY KindsAre DEF SetRequest
  <2>3. PICK posted : Answered(SetRequest[mode], posted) /\ Harmless(posted)
    BY <2>1, <1>1, <1>2
  <2>4. radio' \in {"online", "low", "other"}
    BY <2>1 DEF WorldOK
  <2>5. Reports(SetRequest[mode], posted)
    BY <2>1, <2>3, <2>4 DEF Reports, Harmless, WorldOK, EngineOK, simVars
  <2> QED
    BY <2>1, <2>2, <2>5
<1>12. CASE wds_get_profile_list_cb
  <2>1. UNCHANGED <<services, config, modemVars>> /\ UNCHANGED simVars
    BY <1>12 DEF wds_get_profile_list_cb, simVars
  <2>2. \E posted : Answered("profile_list", posted) /\ Harmless(posted)
    BY <1>12, <1>1, <1>2, <1>3 DEF wds_get_profile_list_cb
  <2>3. "profile_list" \in Kinds
    BY KindsAre
  <2> QED
    BY <2>1, <2>2, <2>3, Plainly
<1>13. CASE wds_modify_profile_cb
  <2>1. "RX_MODIFIED_PROFILE" \in Reported /\ "RX_MODIFIED_PROFILE" \in Reported
    BY DEF Reported, EventNames, ImsiEvents, Requests
  <2>2. "modify_profile" \in Kinds
    BY KindsAre
  <2> QED
    BY <1>13, <2>1, <2>2, OutcomeReports DEF wds_modify_profile_cb
<1>14. CASE wda_set_data_format_cb
  <2> DEFINE e == Event("MODEM", "RX_SUCCEED", "data_format")
  <2>1. UNCHANGED <<services, simVars, error, link, radio, coverage>>
    BY <1>14 DEF wda_set_data_format_cb
  <2>2. "data_format" \in Kinds
    BY KindsAre
  <2>3. CASE Answered("data_format", <<e>>) /\ agreed' = TRUE
    <3>1. e \in Posted /\ e.ev \notin ImsiEvents \cup Requests /\ e.to = "MODEM"
      BY DEF Event, Posted, EventNames, Arguments, ImsiEvents, Requests
    <3> HIDE DEF e
    <3>2. Reports("data_format", <<e>>)
      BY <2>1, <2>3, <3>1 DEF Reports, WorldOK, EngineOK, simVars
    <3> QED
      BY <2>1, <2>2, <3>2
  <2>4. CASE Answered("data_format", <<ToModem("RX_FAILED")>>) /\ UNCHANGED agreed
    <3>1. Harmless(<<ToModem("RX_FAILED")>>)
      BY <1>1, <1>2
    <3>2. Reports("data_format", <<ToModem("RX_FAILED")>>)
      BY <2>1, <2>4, <3>1, Plainly DEF simVars, modemVars
    <3> QED
      BY <2>1, <2>2, <3>2
  <2> QED
    BY <1>14, <2>3, <2>4 DEF wda_set_data_format_cb
<1>15. CASE subscribe_result_cb
  <2>1. "RX_SUBSCRIBED" \in Reported /\ "RX_SUBSCRIBE_FAILED" \in Reported
    BY DEF Reported, EventNames, ImsiEvents, Requests
  <2>2. "subscribe" \in Kinds
    BY KindsAre
  <2> QED
    BY <1>15, <2>1, <2>2, OutcomeReports DEF subscribe_result_cb
<1>16. CASE get_serving_system_cb
  <2>1. UNCHANGED <<services, config, modemVars>> /\ UNCHANGED simVars
    BY <1>16 DEF get_serving_system_cb, simVars
  <2>2. \E posted : Answered("serving_system", posted) /\ Harmless(posted)
    BY <1>16, <1>1, <1>2, HarmlessNone DEF get_serving_system_cb
  <2>3. "serving_system" \in Kinds
    BY KindsAre
  <2> QED
    BY <2>1, <2>2, <2>3, Plainly
<1>17. CASE nas_force_search_cb
  <2>1. UNCHANGED <<services, config, modemVars>> /\ UNCHANGED simVars
    BY <1>17 DEF nas_force_search_cb, simVars
  <2>2. \E posted : Answered("network_search", posted) /\ Harmless(posted)
    BY <1>17, <1>1, <1>2, HarmlessNone DEF nas_force_search_cb
  <2>3. "network_search" \in Kinds
    BY KindsAre
  <2> QED
    BY <2>1, <2>2, <2>3, Plainly
<1>18. CASE wds_start_network_cb
  <2>1. UNCHANGED <<services, config, modemVars>> /\ UNCHANGED simVars
    BY <1>18 DEF wds_start_network_cb, simVars
  <2>2. \E posted : Answered("start_network", posted) /\ Harmless(posted)
    BY <1>18, <1>1, <1>2, <1>3 DEF wds_start_network_cb
  <2>3. "start_network" \in Kinds
    BY KindsAre
  <2> QED
    BY <2>1, <2>2, <2>3, Plainly
<1>19. CASE wds_stop_network_cb
  <2>1. "RX_DISABLE_AUTOCONNECT_SUCCESS" \in Reported /\ "RX_FAILED" \in Reported
    BY DEF Reported, EventNames, ImsiEvents, Requests
  <2>2. "stop_network" \in Kinds
    BY KindsAre
  <2> QED
    BY <1>19, <2>1, <2>2, OutcomeReports DEF wds_stop_network_cb
<1>20. CASE wds_get_current_settings_cb
  <2>1. UNCHANGED <<services, config, modemVars>> /\ UNCHANGED simVars
    BY <1>20 DEF wds_get_current_settings_cb, simVars
  <2>2. /\ <<ToModem("RX_FAILED")>> \o <<>> = <<ToModem("RX_FAILED")>>
        /\ <<ToModem("RX_FAILED")>> \o <<ToModem("RX_SUCCEED")>> = <<ToModem("RX_FAILED"), ToModem("RX_SUCCEED")>>
    BY Joined
  <2>3. \E posted : Answered("current_settings", posted) /\ Harmless(posted)
    BY <1>20, <1>1, <1>2, <2>2 DEF wds_get_current_settings_cb
  <2>4. "current_settings" \in Kinds
    BY KindsAre
  <2> QED
    BY <2>1, <2>3, <2>4, Plainly
<1> QED
  BY <1>4, <1>5, <1>6, <1>7, <1>8, <1>9, <1>10, <1>11, <1>12,
     <1>13, <1>14, <1>15, <1>16, <1>17, <1>18, <1>19, <1>20
  DEF ModemCallback


(* What the callbacks of SIM do to the card, and to what is known of it.    *)
StatusRead ==
    /\ Usable
    /\ sim' = [sim EXCEPT !.state = uim_pin_to_uqmi_state[card[Read].pinState],
                          !.pinRetries = card[Read].pin,
                          !.pukRetries = card[Read].puk]
    /\ UNCHANGED card

PinTried ==
    /\ \/ /\ card[Active].pinState = "NOT_VERIFIED"
          /\ card' = [card EXCEPT ![Active] = WrongPin(@)]
       \/ card' = [card EXCEPT ![Active] = Unlocked(@)]
    /\ RetriesReported(card'[Active])

PukTried ==
    /\ \/ /\ card[Active].pinState = "BLOCKED"
          /\ card' = [card EXCEPT ![Active] = WrongPuk(@)]
       \/ card' = [card EXCEPT ![Active] = Unlocked(@)]
    /\ RetriesReported(card'[Active])

CardStep(r) ==
    \/ UNCHANGED <<sim, card>>
    \/ StatusRead
    \/ r = "verify_pin" /\ PinTried
    \/ r = "unblock_pin" /\ PukTried

LEMMA SimCallbackReports ==
  ASSUME EngineOK, WorldOK, SimCallback, UNCHANGED modemVars
  PROVE  \E r \in Kinds : \E posted : Reports(r, posted) /\ CardStep(r)
<1> DEFINE Names == Reported
<1>1. /\ \A e \in Names : Harmless(<<ToSim(e)>>)
      /\ \A e, f \in Names : Harmless(<<ToSim(e), ToSim(f)>>)
      /\ Harmless(<<Event("SIM", "NO_UIM_FOUND", "card_status")>>)
  <2>1. /\ "SIM" \in {"MODEM", "SIM"}
        /\ "none" \in Arguments \ {"data_format"} /\ "card_status" \in Arguments \ {"data_format"}
        /\ "NO_UIM_FOUND" \in Names
    BY DEF Arguments, Reported, EventNames, ImsiEvents, Requests
  <2> QED
    BY <2>1, HarmlessOne, HarmlessTwo DEF ToSim
<1>2. \A e \in {"GET_SLOT_FAILED", "NO_UIM_FOUND", "VALID_ICCID", "CARD_STATUS_VALID",
                "UIM_FAILED", "RX_FAILED", "PIN_INVALID", "PIN_VERIFIED", "REFRESH",
                "PUK_INVALID", "PUK_VERIFIED"} : e \in Names
  BY DEF Reported, EventNames, ImsiEvents, Requests
<1> HIDE DEF Names
<1>3. CASE uim_get_slot_status_cb
  <2>1. UNCHANGED <<services, config, sim, card>>
    BY <1>3 DEF uim_get_slot_status_cb, simVars
  <2>2. \E posted : Answered("slot_status", posted) /\ Harmless(posted)
    BY <1>3, <1>1, <1>2 DEF uim_get_slot_status_cb
  <2>3. "slot_status" \in Kinds
    BY KindsAre
  <2> QED
    BY <2>1, <2>2, <2>3, Plainly DEF CardStep
<1>4. CASE uim_get_card_status_cb
  <2>1. UNCHANGED <<services, config>> /\ CardStep("card_status")
    BY <1>4 DEF uim_get_card_status_cb, CardStep, StatusRead
  <2>2. \E posted : Answered("card_status", posted) /\ Harmless(posted)
    BY <1>4, <1>1, <1>2 DEF uim_get_card_status_cb
  <2>3. "card_status" \in Kinds
    BY KindsAre
  <2> QED
    BY <2>1, <2>2, <2>3, Plainly
<1>5. CASE uim_read_imsi_cb
  <2> DEFINE good == ToSim("GET_IMSI_SUCCESS")
             bad == ToSim("GET_IMSI_FAILED")
             other == ToSim("RX_FAILED")
  <2>1. UNCHANGED <<services, config, sim, card>>
    BY <1>5 DEF uim_read_imsi_cb, simVars
  <2>2. /\ good \in Posted /\ good.arg = "none" /\ good.ev \notin Requests
        /\ bad \in Posted /\ bad.arg = "none" /\ bad.ev \notin Requests
        /\ other \in Posted /\ other.arg = "none" /\ other.ev \notin Requests
    BY DEF ToSim, Event, Posted, EventNames, Arguments, Requests
  <2>3. PICK posted \in {<<good>>, <<bad>>, <<other>>, <<bad, good>>} : Answered("read_imsi", posted)
    BY <1>5 DEF uim_read_imsi_cb
  <2> HIDE DEF good, bad, other
  <2>4. /\ posted \in Seq(Posted)
        /\ \A i \in DOMAIN posted : posted[i].arg = "none" /\ posted[i].ev \notin Requests
    <3>1. CASE posted = <<good>>
      BY <2>2, <3>1
    <3>2. CASE posted = <<bad>>
      BY <2>2, <3>2
    <3>3. CASE posted = <<other>>
      BY <2>2, <3>3
    <3>4. CASE posted = <<bad, good>>
      BY <2>2, <3>4
    <3> QED
      BY <2>3, <3>1, <3>2, <3>3, <3>4
  <2>5. Reports("read_imsi", posted)
    BY <2>1, <2>3, <2>4 DEF Reports, EngineOK, WorldOK, modemVars
  <2>6. "read_imsi" \in Kinds
    BY KindsAre
  <2> QED
    BY <2>1, <2>5, <2>6 DEF CardStep
<1>6. CASE uim_verify_pin_cb
  <2>1. UNCHANGED <<services, config>> /\ CardStep("verify_pin")
    BY <1>6 DEF uim_verify_pin_cb, CardStep, PinTried
  <2>2. \E posted : Answered("verify_pin", posted) /\ Harmless(posted)
    BY <1>6, <1>1, <1>2 DEF uim_verify_pin_cb
  <2>3. "verify_pin" \in Kinds
    BY KindsAre
  <2> QED
    BY <2>1, <2>2, <2>3, Plainly
<1>7. CASE uim_unblock_pin_cb
  <2>1. UNCHANGED <<services, config>> /\ CardStep("unblock_pin")
    BY <1>7 DEF uim_unblock_pin_cb, CardStep, PukTried
  <2>2. \E posted : Answered("unblock_pin", posted) /\ Harmless(posted)
    BY <1>7, <1>1, <1>2 DEF uim_unblock_pin_cb
  <2>3. "unblock_pin" \in Kinds
    BY KindsAre
  <2> QED
    BY <2>1, <2>2, <2>3, Plainly
<1> QED
  BY <1>3, <1>4, <1>5, <1>6, <1>7 DEF SimCallback

(* A callback dispatches nothing but its events and leaves the machines     *)
(* where they are.                                                          *)
LEMMA CallbackReports ==
  ASSUME EngineOK, WorldOK, Callback
  PROVE  \E r \in Kinds : \E posted : Reports(r, posted) /\ CardStep(r)
<1>1. CASE SimCallback /\ UNCHANGED modemVars
  BY <1>1, SimCallbackReports
<1>2. CASE ModemCallback
  BY <1>2, ModemCallbackReports DEF CardStep, simVars
<1> QED
  BY <1>1, <1>2 DEF Callback


(***************************************************************************)
(* What a handler of MODEM does: it takes the event, goes to a state or     *)
(* stays, and sends what that state asks.                                   *)
(***************************************************************************)

LEMMA SendNothing ==
  ASSUME AskedOK, UNCHANGED <<asked, crashed>>
  PROVE  Send({})
BY DEF AskedOK, Send, Queued

LEMMA Handled ==
  ASSUME EngineOK, NEW state, NEW events, OnIn(state, events)
  PROVE  /\ at["MODEM"] = state
         /\ Arriving("MODEM") /\ Head(todo).ev \in events
         /\ todo' = Tail(todo)
<1>1. PICK ev \in events : On(ev)
  BY DEF OnIn
<1>2. todo # <<>> /\ todo \in Seq(Posted) /\ todo' = <<>> \o Tail(todo)
  BY <1>1 DEF On, Handle, Arriving, EngineOK
<1>3. <<>> \o Tail(todo) = Tail(todo)
  BY <1>2
<1> QED
  BY <1>1, <1>2, <1>3 DEF On, OnIn, Handle

LEMMA Entered ==
  ASSUME EngineOK, NEW path, NEW timed, NEW number, NEW requests,
         Permitted(modem_out_states, path), Enter(path, timed, number, requests),
         NEW new \in ModemStates, Last(path) = new
  PROVE  /\ at' \in [{"MODEM", "SIM"} -> ModemStates \cup SimStateNames]
         /\ at'["MODEM"] = new /\ at'["SIM"] = at["SIM"]
         /\ timer' = timed /\ T' = number /\ Send(requests)
BY DEF Enter, ChangeModem, EngineOK

LEMMA EnteredOne ==
  ASSUME EngineOK, NEW new \in ModemStates, new \in modem_out_states[at["MODEM"]],
         NEW timed, NEW number, NEW requests, Enter(<<new>>, timed, number, requests)
  PROVE  /\ at' \in [{"MODEM", "SIM"} -> ModemStates \cup SimStateNames]
         /\ at'["MODEM"] = new /\ at'["SIM"] = at["SIM"]
         /\ timer' = timed /\ T' = number /\ Send(requests)
<1>1. Last(<<new>>) = new
  BY DEF Last
<1> QED
  BY <1>1, PermittedOne, Entered, Zenon

LEMMA EnteredTwo ==
  ASSUME EngineOK, NEW mid, NEW new \in ModemStates,
         mid \in modem_out_states[at["MODEM"]], new \in modem_out_states[mid],
         NEW timed, NEW number, NEW requests, Enter(<<mid, new>>, timed, number, requests)
  PROVE  /\ at' \in [{"MODEM", "SIM"} -> ModemStates \cup SimStateNames]
         /\ at'["MODEM"] = new /\ at'["SIM"] = at["SIM"]
         /\ timer' = timed /\ T' = number /\ Send(requests)
<1>1. Last(<<mid, new>>) = new
  BY DEF Last
<1> QED
  BY <1>1, PermittedTwo, Entered, Zenon

Carried == {"POWERON", "NETSEARCH", "REGISTERED", "START_IFACE", "LIVE"}

Moves(new, requests) ==
    /\ Arriving("MODEM")
    /\ todo' = Tail(todo)
    /\ at' \in [{"MODEM", "SIM"} -> ModemStates \cup SimStateNames]
    /\ at'["MODEM"] = new
    /\ at'["SIM"] \in {at["SIM"], "GET_INFO"} /\ (at'["SIM"] = "READY" <=> at["SIM"] = "READY")
    /\ Send(requests)
    /\ {"read_imsi", "verify_pin", "unblock_pin"} \cap requests = {}
    /\ UNCHANGED <<services, gone, config, sim, card, radio, coverage>>
    /\ error' \in BOOLEAN

(* ... with the interface: it is set up on the way to CONFIGURE_KERNEL, and *)
(* what the later states need is there when they are entered.               *)
Carries(new, requests) ==
    /\ link' \in Interface /\ agreed' \in BOOLEAN
    /\ "data_format" \in requests =>
          at["MODEM"] = "CONFIGURE_MODEM" /\ new = "CONFIGURE_KERNEL" /\ RawIpOnly(link')
    /\ at["MODEM"] # "CONFIGURE_MODEM" => UNCHANGED <<link, agreed>>
    /\ new \in Carried =>
          \/ at["MODEM"] \in Carried
          \/ at["MODEM"] = "CONFIGURE_KERNEL" /\ ForDataFormat
    /\ at["MODEM"] \in {"CONFIGURE_KERNEL", "DESTROY"} =>
          ForDataFormat \/ new \in {"CONFIGURE_KERNEL", "DESTROY"}

(* ... with the services it asks.                                           *)
Asks(new, requests) ==
    \A r \in requests : \/ ServiceOf[r] \in services
                        \/ new # "DESTROY" /\ ServiceOf[r] \in {"DMS", "WDS", "WDA", "NAS"}

(* ... with the radio: it is searched with only after the modem has said    *)
(* that it is on, and it is switched on in POWERON and off in POWEROFF.     *)
Online == {"NETSEARCH", "REGISTERED", "START_IFACE", "LIVE"}
RadioUsed == {"POWERON", "DESTROY"} \cup Online
Switches(new, requests) ==
    /\ new \in Online =>
          \/ at["MODEM"] \in Online
          \/ at["MODEM"] = "POWERON" /\ Head(todo).ev \in RadioIsOn
    /\ at["MODEM"] \in RadioUsed => new \in RadioUsed \/ error'
    /\ "set_low_power" \in requests =>
          at["MODEM"] = "POWEROFF" /\ Head(todo).ev = "RX_POWERON"
    /\ "set_online" \in requests => new = "POWERON"
    /\ error => error'

(* ... with the life of the modem: it stays in the part of its life that it *)
(* is in, or goes on to the next as the event permits.                      *)
LEMMA LifeIs ==
  /\ LifeOf("IDLE") = "starting" /\ LifeOf("RESYNC") = "starting"
  /\ LifeOf("GET_VERSION") = "starting" /\ LifeOf("GET_MODEL") = "starting"
  /\ LifeOf("POWEROFF") = "off" /\ LifeOf("WAIT_UIM") = "waiting"
  /\ LifeOf("CONFIGURE_MODEM") = "prepared" /\ LifeOf("CONFIGURE_KERNEL") = "prepared"
  /\ LifeOf("POWERON") = "connecting" /\ LifeOf("NETSEARCH") = "connecting"
  /\ LifeOf("REGISTERED") = "connecting" /\ LifeOf("START_IFACE") = "connecting"
  /\ LifeOf("LIVE") = "live" /\ LifeOf("FAILED") = "broken" /\ LifeOf("DESTROY") = "closing"
BY DEF LifeOf

Calls == {"REQ_CONFIGURED", "REQ_DESTROY"}
NoCall == Head(todo).ev \notin Calls

Stays(new) ==
    /\ LifeOf(new) = LifeOf(at["MODEM"])
    /\ Head(todo).ev # "REQ_DESTROY"
    /\ Head(todo).ev = "REQ_CONFIGURED" => LifeOf(new) # "off"
    /\ (LifeOf(new) = "prepared" /\ NoCall) \/ UNCHANGED <<link, agreed>>
    /\ UNCHANGED error
Passes(new, from, to) ==
    /\ LifeOf(at["MODEM"]) = from /\ LifeOf(new) = to
    /\ UNCHANGED <<link, agreed>>
Walks(new) ==
    \/ Stays(new)
    \/ Passes(new, "starting", "off") /\ NoCall /\ UNCHANGED error
    \/ /\ Passes(new, "off", IF at["SIM"] = "READY" THEN "prepared" ELSE "waiting")
       /\ Head(todo).ev = "REQ_CONFIGURED" \/ (NoCall /\ GoesOn)
       /\ UNCHANGED error
    \/ Passes(new, "waiting", "prepared") /\ Head(todo).ev = "REQ_SIM_READY" /\ UNCHANGED error
    \/ Passes(new, "prepared", "connecting") /\ ForDataFormat /\ NoCall /\ UNCHANGED error
    \/ Passes(new, "connecting", "live") /\ NoCall /\ UNCHANGED error
    \/ Passes(new, "connecting", "off") /\ NoCall /\ error' = TRUE
    \/ /\ LifeOf(new) = "closing" /\ Head(todo).ev = "REQ_DESTROY"
       /\ UNCHANGED <<error, link, agreed>>

Steps(new, requests) ==
    /\ Moves(new, requests)
    /\ Timing'
    /\ ~(at'["MODEM"] = "WAIT_UIM" /\ at'["SIM"] = "READY")
    /\ Carries(new, requests)
    /\ Asks(new, requests)
    /\ Switches(new, requests)
    /\ Walks(new)


LEMMA TimerOver ==
  ASSUME timer' = FALSE, T' = N_NONE, at'["MODEM"] # "NETSEARCH"
  PROVE  Timing'
<1>1. timer' \in BOOLEAN
  BY Zenon
<1>2. N_NONE # N_RESEND /\ N_NONE # N_FAILURE
  BY DEF N_NONE, N_RESEND, N_FAILURE
<1> QED
  BY <1>1, <1>2, Zenon DEF Timing

LEMMA TimerStarted ==
  ASSUME timer' = TRUE, T' = N_NONE
  PROVE  Timing'
<1>1. timer' \in BOOLEAN /\ timer'
  BY Zenon
<1>2. N_NONE # N_RESEND /\ N_NONE # N_FAILURE
  BY DEF N_NONE, N_RESEND, N_FAILURE
<1> QED
  BY <1>1, <1>2, Zenon DEF Timing

LEMMA ModemSteps ==
  ASSUME EngineOK, Timing, WorldOK, Telling, "CTL" \in services, ModemHandler
  PROVE  \E new \in ModemStates : \E requests \in SUBSET Kinds : Steps(new, requests)
<1> USE ModemStatesAre, ModemMayChange
<1>1. EngineOK /\ Timing /\ WorldOK /\ "CTL" \in services /\ AskedOK
  BY DEF EngineOK
<1>2. CASE modem_st_unconfigured
  <2>1. /\ at["MODEM"] = "IDLE" /\ Arriving("MODEM") /\ Head(todo).ev \in {"REQ_START"}
        /\ todo' = Tail(todo)
    BY <1>2, Handled DEF modem_st_unconfigured
  <2>2. /\ at' \in [{"MODEM", "SIM"} -> ModemStates \cup SimStateNames]
        /\ at'["MODEM"] = "RESYNC" /\ at'["SIM"] = at["SIM"]
        /\ timer' = TRUE /\ T' = N_FAILURE /\ Send({"sync"})
    BY <1>2, <2>1, EnteredOne DEF modem_st_unconfigured
  <2>3. {"sync"} \in SUBSET Kinds
    BY KindsAre
  <2>4. UNCHANGED <<services, gone, simVars, modemVars>>
    BY <1>2 DEF modem_st_unconfigured, others
  <2>5. Moves("RESYNC", {"sync"})
    BY <1>1, <2>1, <2>2, <2>4 DEF Moves, EngineOK, WorldOK, simVars, modemVars
  <2>6. Timing'
    BY <2>2 DEF Timing, N_NONE, N_RESEND, N_FAILURE
  <2>7. Carries("RESYNC", {"sync"})
    BY <1>1, <2>1, <2>2, <2>4 DEF Carries, Carried, WorldOK, modemVars
  <2>8. Asks("RESYNC", {"sync"})
    BY <1>1 DEF Asks, ServiceOf
  <2>9. Switches("RESYNC", {"sync"})
    BY <1>1, <2>1, <2>2, <2>3, <2>4 DEF Switches, Online, RadioUsed, RadioIsOn, modemVars
  <2>10. Walks("RESYNC")
    BY <1>1, <2>1, <2>4, LifeIs DEF Walks, Stays, Passes, NoCall, Calls, modemVars
  <2> QED
    BY <2>10, <2>1, <2>2, <2>3, <2>5, <2>6, <2>7, <2>8, <2>9 DEF Steps
<1>3. CASE modem_st_resync
  <2>1. /\ at["MODEM"] = "RESYNC" /\ Arriving("MODEM") /\ Head(todo).ev \in {"RX_SYNC"}
        /\ todo' = Tail(todo)
    BY <1>3, Handled DEF modem_st_resync
  <2>2. /\ at' \in [{"MODEM", "SIM"} -> ModemStates \cup SimStateNames]
        /\ at'["MODEM"] = "GET_VERSION" /\ at'["SIM"] = at["SIM"]
        /\ timer' = TRUE /\ T' = N_NONE /\ Send({"version"})
    BY <1>3, <2>1, EnteredOne DEF modem_st_resync
  <2>3. {"version"} \in SUBSET Kinds
    BY KindsAre
  <2>4. UNCHANGED <<services, gone, simVars, modemVars>>
    BY <1>3 DEF modem_st_resync, others
  <2>5. Moves("GET_VERSION", {"version"})
    BY <1>1, <2>1, <2>2, <2>4 DEF Moves, EngineOK, WorldOK, simVars, modemVars
  <2>6. Timing'
    BY <2>2, TimerStarted
  <2>7. Carries("GET_VERSION", {"version"})
    BY <1>1, <2>1, <2>2, <2>4 DEF Carries, Carried, WorldOK, modemVars
  <2>8. Asks("GET_VERSION", {"version"})
    BY <1>1 DEF Asks, ServiceOf
  <2>9. Switches("GET_VERSION", {"version"})
    BY <1>1, <2>1, <2>2, <2>3, <2>4 DEF Switches, Online, RadioUsed, RadioIsOn, modemVars
  <2>10. Walks("GET_VERSION")
    BY <1>1, <2>1, <2>4, LifeIs DEF Walks, Stays, Passes, NoCall, Calls, modemVars
  <2> QED
    BY <2>10, <2>1, <2>2, <2>3, <2>5, <2>6, <2>7, <2>8, <2>9 DEF Steps
<1>4. CASE modem_st_get_version
  <2>1. /\ at["MODEM"] = "GET_VERSION" /\ Arriving("MODEM") /\ Head(todo).ev \in {"RX_VERSION"}
        /\ todo' = Tail(todo)
    BY <1>4, Handled DEF modem_st_get_version
  <2>2. /\ at' \in [{"MODEM", "SIM"} -> ModemStates \cup SimStateNames]
        /\ at'["MODEM"] = "GET_MODEL" /\ at'["SIM"] \in {at["SIM"], "GET_INFO"}
        /\ at'["SIM"] = "READY" <=> at["SIM"] = "READY"
        /\ timer' = FALSE /\ T' = N_NONE /\ Send(StartRequest \cup {"model"})
    BY <1>4, <1>1, SimStatesAre DEF modem_st_get_version, EngineOK, StartedSim
  <2>3. /\ StartRequest \cup {"model"} \in SUBSET {"slot_status", "model"}
        /\ StartRequest \cup {"model"} \in SUBSET Kinds
        /\ "slot_status" \in StartRequest \cup {"model"} => "UIM" \in services
    BY KindsAre DEF StartRequest, IfPresent
  <2>4. UNCHANGED <<services, gone, simVars, modemVars>>
    BY <1>4 DEF modem_st_get_version, others
  <2> DEFINE R == StartRequest \cup {"model"}
  <2> HIDE DEF R
  <2>5. Moves("GET_MODEL", R)
    BY <1>1, <2>1, <2>2, <2>3, <2>4 DEF Moves, EngineOK, WorldOK, simVars, modemVars, R
  <2>6. Timing'
    BY <1>1, <2>1, <2>2 DEF Timing, N_NONE, N_RESEND, N_FAILURE
  <2>7. Carries("GET_MODEL", R)
    BY <1>1, <2>1, <2>2, <2>3, <2>4 DEF Carries, Carried, WorldOK, modemVars, R
  <2>8. Asks("GET_MODEL", R)
    BY <1>1, <2>3 DEF Asks, ServiceOf, R
  <2>9. Switches("GET_MODEL", R)
    BY <1>1, <2>1, <2>2, <2>3, <2>4 DEF Switches, Online, RadioUsed, RadioIsOn, modemVars, R
  <2>10. Walks("GET_MODEL")
    BY <1>1, <2>1, <2>4, LifeIs DEF Walks, Stays, Passes, NoCall, Calls, modemVars
  <2> QED
    BY <2>10, <2>2, <2>3, <2>5, <2>6, <2>7, <2>8, <2>9 DEF Steps, R
<1>5. CASE modem_st_get_model_asks
  <2>1. /\ at["MODEM"] = "GET_MODEL" /\ Arriving("MODEM") /\ Head(todo).ev \in {"RX_MODEL", "RX_MANUFACTURER", "RX_REVISION"}
        /\ todo' = Tail(todo)
    BY <1>5, Handled DEF modem_st_get_model_asks, NextQuestion
  <2> DEFINE q == NextQuestion[Head(todo).ev]
  <2>2. UNCHANGED <<at, timer, T>> /\ Send({q})
    BY <1>5 DEF modem_st_get_model_asks, OnlySends
  <2>3. q \in {"manuf", "revision", "ids"} /\ {q} \in SUBSET Kinds
    BY <2>1, KindsAre DEF NextQuestion
  <2>4. UNCHANGED <<services, gone, simVars, modemVars>>
    BY <1>5 DEF modem_st_get_model_asks, others
  <2> HIDE DEF q
  <2>5. Moves("GET_MODEL", {q})
    BY <1>1, <2>1, <2>2, <2>3, <2>4 DEF Moves, EngineOK, WorldOK, simVars, modemVars
  <2>6. Timing'
    BY <1>1, <2>1, <2>2 DEF Timing, N_NONE, N_RESEND, N_FAILURE
  <2>7. Carries("GET_MODEL", {q})
    BY <1>1, <2>1, <2>2, <2>3, <2>4 DEF Carries, Carried, WorldOK, modemVars
  <2>8. Asks("GET_MODEL", {q})
    BY <1>1, <2>3 DEF Asks, ServiceOf
  <2>9. Switches("GET_MODEL", {q})
    BY <1>1, <2>1, <2>2, <2>3, <2>4 DEF Switches, Online, RadioUsed, RadioIsOn, modemVars
  <2>10. Walks("GET_MODEL")
    BY <1>1, <2>1, <2>4, LifeIs DEF Walks, Stays, Passes, NoCall, Calls, modemVars
  <2> QED
    BY <2>10, <2>1, <2>2, <2>3, <2>5, <2>6, <2>7, <2>8, <2>9 DEF Steps
<1>6. CASE modem_st_get_model_done
  <2>1. /\ at["MODEM"] = "GET_MODEL" /\ Arriving("MODEM") /\ Head(todo).ev \in {"RX_IMEI"}
        /\ todo' = Tail(todo)
    BY <1>6, Handled DEF modem_st_get_model_done
  <2>2. /\ at' \in [{"MODEM", "SIM"} -> ModemStates \cup SimStateNames]
        /\ at'["MODEM"] = "POWEROFF" /\ at'["SIM"] = at["SIM"]
        /\ timer' = TRUE /\ T' = N_NONE /\ Send(IfPresent("DMS", "get_opmode"))
    BY <1>6, <2>1, EnteredOne DEF modem_st_get_model_done
  <2>3. /\ IfPresent("DMS", "get_opmode") \in SUBSET {"get_opmode"}
        /\ IfPresent("DMS", "get_opmode") \in SUBSET Kinds
    BY KindsAre DEF IfPresent
  <2>4. UNCHANGED <<services, gone, simVars, modemVars>>
    BY <1>6 DEF modem_st_get_model_done, others
  <2>5. Moves("POWEROFF", IfPresent("DMS", "get_opmode"))
    BY <1>1, <2>1, <2>2, <2>3, <2>4 DEF Moves, EngineOK, WorldOK, simVars, modemVars
  <2>6. Timing'
    BY <2>2, TimerStarted
  <2>7. Carries("POWEROFF", IfPresent("DMS", "get_opmode"))
    BY <1>1, <2>1, <2>2, <2>3, <2>4 DEF Carries, Carried, WorldOK, modemVars
  <2>8. Asks("POWEROFF", IfPresent("DMS", "get_opmode"))
    BY <1>1, <2>3 DEF Asks, ServiceOf
  <2>9. Switches("POWEROFF", IfPresent("DMS", "get_opmode"))
    BY <1>1, <2>1, <2>2, <2>3, <2>4 DEF Switches, Online, RadioUsed, RadioIsOn, modemVars
  <2>10. Walks("POWEROFF")
    BY <1>1, <2>1, <2>4, LifeIs DEF Walks, Stays, Passes, NoCall, Calls, modemVars
  <2> QED
    BY <2>10, <2>1, <2>2, <2>3, <2>5, <2>6, <2>7, <2>8, <2>9 DEF Steps
<1>7. CASE modem_st_poweroff_asks /\ OnIn("POWEROFF", {"RX_POWERON"}) /\ OnlySends({"set_low_power"})
  <2>1. /\ at["MODEM"] = "POWEROFF" /\ Arriving("MODEM") /\ Head(todo).ev \in {"RX_POWERON"}
        /\ todo' = Tail(todo)
    BY <1>7, Handled DEF modem_st_poweroff_asks
  <2>2. UNCHANGED <<at, timer, T>> /\ Send({"set_low_power"})
    BY <1>7 DEF modem_st_poweroff_asks, OnlySends
  <2>3. {"set_low_power"} \in SUBSET Kinds
    BY KindsAre
  <2>4. UNCHANGED <<services, gone, simVars, modemVars>>
    BY <1>7 DEF modem_st_poweroff_asks, others
  <2>5. Moves("POWEROFF", {"set_low_power"})
    BY <1>1, <2>1, <2>2, <2>4 DEF Moves, EngineOK, WorldOK, simVars, modemVars
  <2>6. Timing'
    BY <1>1, <2>1, <2>2 DEF Timing, N_NONE, N_RESEND, N_FAILURE
  <2>7. Carries("POWEROFF", {"set_low_power"})
    BY <1>1, <2>1, <2>2, <2>4 DEF Carries, Carried, WorldOK, modemVars
  <2>8. Asks("POWEROFF", {"set_low_power"})
    BY <1>1 DEF Asks, ServiceOf
  <2>9. Switches("POWEROFF", {"set_low_power"})
    BY <1>1, <2>1, <2>2, <2>3, <2>4 DEF Switches, Online, RadioUsed, RadioIsOn, modemVars
  <2>10. Walks("POWEROFF")
    BY <1>1, <2>1, <2>4, LifeIs DEF Walks, Stays, Passes, NoCall, Calls, modemVars
  <2> QED
    BY <2>10, <2>1, <2>2, <2>3, <2>5, <2>6, <2>7, <2>8, <2>9 DEF Steps
<1>8. CASE modem_st_poweroff_asks /\ OnIn("POWEROFF", {"RX_POWERSET"}) /\ OnlySends({"get_opmode"})
  <2>1. /\ at["MODEM"] = "POWEROFF" /\ Arriving("MODEM") /\ Head(todo).ev \in {"RX_POWERSET"}
        /\ todo' = Tail(todo)
    BY <1>8, Handled DEF modem_st_poweroff_asks
  <2>2. UNCHANGED <<at, timer, T>> /\ Send({"get_opmode"})
    BY <1>8 DEF modem_st_poweroff_asks, OnlySends
  <2>3. {"get_opmode"} \in SUBSET Kinds
    BY KindsAre
  <2>4. UNCHANGED <<services, gone, simVars, modemVars>>
    BY <1>8 DEF modem_st_poweroff_asks, others
  <2>5. Moves("POWEROFF", {"get_opmode"})
    BY <1>1, <2>1, <2>2, <2>4 DEF Moves, EngineOK, WorldOK, simVars, modemVars
  <2>6. Timing'
    BY <1>1, <2>1, <2>2 DEF Timing, N_NONE, N_RESEND, N_FAILURE
  <2>7. Carries("POWEROFF", {"get_opmode"})
    BY <1>1, <2>1, <2>2, <2>4 DEF Carries, Carried, WorldOK, modemVars
  <2>8. Asks("POWEROFF", {"get_opmode"})
    BY <1>1 DEF Asks, ServiceOf
  <2>9. Switches("POWEROFF", {"get_opmode"})
    BY <1>1, <2>1, <2>2, <2>3, <2>4 DEF Switches, Online, RadioUsed, RadioIsOn, modemVars
  <2>10. Walks("POWEROFF")
    BY <1>1, <2>1, <2>4, LifeIs DEF Walks, Stays, Passes, NoCall, Calls, modemVars
  <2> QED
    BY <2>10, <2>1, <2>2, <2>3, <2>5, <2>6, <2>7, <2>8, <2>9 DEF Steps
<1>9. CASE modem_st_poweroff_off /\ GoesOn /\ EnterWaitUim /\ at["SIM"] = "READY"
  <2>1. /\ at["MODEM"] = "POWEROFF" /\ Arriving("MODEM") /\ Head(todo).ev \in {"RX_POWEROFF"}
        /\ todo' = Tail(todo)
    BY <1>9, Handled DEF modem_st_poweroff_off, EnterWaitUim
  <2>2. /\ at' \in [{"MODEM", "SIM"} -> ModemStates \cup SimStateNames]
        /\ at'["MODEM"] = "CONFIGURE_MODEM" /\ at'["SIM"] = at["SIM"]
        /\ timer' = FALSE /\ T' = N_NONE /\ Send({"profile_list"})
    BY <1>9, <2>1, EnteredTwo DEF modem_st_poweroff_off, EnterWaitUim
  <2>3. {"profile_list"} \in SUBSET Kinds
    BY KindsAre
  <2>4. UNCHANGED <<services, gone, simVars, modemVars>>
    BY <1>9 DEF modem_st_poweroff_off, EnterWaitUim, others
  <2>5. Moves("CONFIGURE_MODEM", {"profile_list"})
    BY <1>1, <2>1, <2>2, <2>4 DEF Moves, EngineOK, WorldOK, simVars, modemVars
  <2>6. Timing'
    BY <2>2, TimerOver
  <2>7. Carries("CONFIGURE_MODEM", {"profile_list"})
    BY <1>1, <2>1, <2>2, <2>4 DEF Carries, Carried, WorldOK, modemVars
  <2>8. Asks("CONFIGURE_MODEM", {"profile_list"})
    BY <1>1 DEF Asks, ServiceOf
  <2>9. Switches("CONFIGURE_MODEM", {"profile_list"})
    BY <1>1, <2>1, <2>2, <2>3, <2>4 DEF Switches, Online, RadioUsed, RadioIsOn, modemVars
  <2>10. Walks("CONFIGURE_MODEM")
    BY <1>1, <2>1, <2>4, <1>9, LifeIs DEF Walks, Stays, Passes, NoCall, Calls, modemVars
  <2> QED
    BY <2>10, <2>1, <2>2, <2>3, <2>5, <2>6, <2>7, <2>8, <2>9 DEF Steps
<1>10. CASE modem_st_poweroff_off /\ GoesOn /\ EnterWaitUim /\ at["SIM"] # "READY"
  <2>1. /\ at["MODEM"] = "POWEROFF" /\ Arriving("MODEM") /\ Head(todo).ev \in {"RX_POWEROFF"}
        /\ todo' = Tail(todo)
    BY <1>10, Handled DEF modem_st_poweroff_off, EnterWaitUim
  <2>2. /\ at' \in [{"MODEM", "SIM"} -> ModemStates \cup SimStateNames]
        /\ at'["MODEM"] = "WAIT_UIM" /\ at'["SIM"] = at["SIM"]
        /\ timer' = FALSE /\ T' = N_NONE /\ Send({})
    BY <1>10, <2>1, EnteredOne DEF modem_st_poweroff_off, EnterWaitUim
  <2>3. {} \in SUBSET Kinds
    BY KindsAre
  <2>4. UNCHANGED <<services, gone, simVars, modemVars>>
    BY <1>10 DEF modem_st_poweroff_off, EnterWaitUim, others
  <2>5. Moves("WAIT_UIM", {})
    BY <1>1, <2>1, <2>2, <2>4 DEF Moves, EngineOK, WorldOK, simVars, modemVars
  <2>6. Timing'
    BY <2>2, TimerOver
  <2>7. Carries("WAIT_UIM", {})
    BY <1>1, <2>1, <2>2, <2>4 DEF Carries, Carried, WorldOK, modemVars
  <2>8. Asks("WAIT_UIM", {})
    BY <1>1 DEF Asks, ServiceOf
  <2>9. Switches("WAIT_UIM", {})
    BY <1>1, <2>1, <2>2, <2>3, <2>4 DEF Switches, Online, RadioUsed, RadioIsOn, modemVars
  <2>10. Walks("WAIT_UIM")
    BY <1>1, <2>1, <2>4, <1>10, LifeIs DEF Walks, Stays, Passes, NoCall, Calls, modemVars
  <2> QED
    BY <2>10, <2>1, <2>2, <2>3, <2>5, <2>6, <2>7, <2>8, <1>10, <2>9 DEF Steps
<1>11. CASE modem_st_poweroff_configured /\ EnterWaitUim /\ at["SIM"] = "READY"
  <2>1. /\ at["MODEM"] = "POWEROFF" /\ Arriving("MODEM") /\ Head(todo).ev \in {"REQ_CONFIGURED"}
        /\ todo' = Tail(todo)
    BY <1>11, Handled DEF modem_st_poweroff_configured, EnterWaitUim
  <2>2. /\ at' \in [{"MODEM", "SIM"} -> ModemStates \cup SimStateNames]
        /\ at'["MODEM"] = "CONFIGURE_MODEM" /\ at'["SIM"] = at["SIM"]
        /\ timer' = FALSE /\ T' = N_NONE /\ Send({"profile_list"})
    BY <1>11, <2>1, EnteredTwo DEF modem_st_poweroff_configured, EnterWaitUim
  <2>3. {"profile_list"} \in SUBSET Kinds
    BY KindsAre
  <2>4. UNCHANGED <<services, gone, simVars, modemVars>>
    BY <1>11 DEF modem_st_poweroff_configured, EnterWaitUim, others
  <2>5. Moves("CONFIGURE_MODEM", {"profile_list"})
    BY <1>1, <2>1, <2>2, <2>4 DEF Moves, EngineOK, WorldOK, simVars, modemVars
  <2>6. Timing'
    BY <2>2, TimerOver
  <2>7. Carries("CONFIGURE_MODEM", {"profile_list"})
    BY <1>1, <2>1, <2>2, <2>4 DEF Carries, Carried, WorldOK, modemVars
  <2>8. Asks("CONFIGURE_MODEM", {"profile_list"})
    BY <1>1 DEF Asks, ServiceOf
  <2>9. Switches("CONFIGURE_MODEM", {"profile_list"})
    BY <1>1, <2>1, <2>2, <2>3, <2>4 DEF Switches, Online, RadioUsed, RadioIsOn, modemVars
  <2>10. Walks("CONFIGURE_MODEM")
    BY <1>1, <2>1, <2>4, <1>11, LifeIs DEF Walks, Stays, Passes, NoCall, Calls, modemVars
  <2> QED
    BY <2>10, <2>1, <2>2, <2>3, <2>5, <2>6, <2>7, <2>8, <2>9 DEF Steps
<1>12. CASE modem_st_poweroff_configured /\ EnterWaitUim /\ at["SIM"] # "READY"
  <2>1. /\ at["MODEM"] = "POWEROFF" /\ Arriving("MODEM") /\ Head(todo).ev \in {"REQ_CONFIGURED"}
        /\ todo' = Tail(todo)
    BY <1>12, Handled DEF modem_st_poweroff_configured, EnterWaitUim
  <2>2. /\ at' \in [{"MODEM", "SIM"} -> ModemStates \cup SimStateNames]
        /\ at'["MODEM"] = "WAIT_UIM" /\ at'["SIM"] = at["SIM"]
        /\ timer' = FALSE /\ T' = N_NONE /\ Send({})
    BY <1>12, <2>1, EnteredOne DEF modem_st_poweroff_configured, EnterWaitUim
  <2>3. {} \in SUBSET Kinds
    BY KindsAre
  <2>4. UNCHANGED <<services, gone, simVars, modemVars>>
    BY <1>12 DEF modem_st_poweroff_configured, EnterWaitUim, others
  <2>5. Moves("WAIT_UIM", {})
    BY <1>1, <2>1, <2>2, <2>4 DEF Moves, EngineOK, WorldOK, simVars, modemVars
  <2>6. Timing'
    BY <2>2, TimerOver
  <2>7. Carries("WAIT_UIM", {})
    BY <1>1, <2>1, <2>2, <2>4 DEF Carries, Carried, WorldOK, modemVars
  <2>8. Asks("WAIT_UIM", {})
    BY <1>1 DEF Asks, ServiceOf
  <2>9. Switches("WAIT_UIM", {})
    BY <1>1, <2>1, <2>2, <2>3, <2>4 DEF Switches, Online, RadioUsed, RadioIsOn, modemVars
  <2>10. Walks("WAIT_UIM")
    BY <1>1, <2>1, <2>4, <1>12, LifeIs DEF Walks, Stays, Passes, NoCall, Calls, modemVars
  <2> QED
    BY <2>10, <2>1, <2>2, <2>3, <2>5, <2>6, <2>7, <2>8, <1>12, <2>9 DEF Steps
<1>13. CASE modem_st_poweroff_off /\ timer' = FALSE /\ UNCHANGED <<at, T, asked, crashed>>
  <2>1. /\ at["MODEM"] = "POWEROFF" /\ Arriving("MODEM") /\ Head(todo).ev \in {"RX_POWEROFF"}
        /\ todo' = Tail(todo)
    BY <1>13, Handled DEF modem_st_poweroff_off
  <2>2. timer' = FALSE /\ UNCHANGED <<at, T>> /\ Send({})
    BY <1>13, <1>1, SendNothing DEF modem_st_poweroff_off
  <2>3. {} \in SUBSET Kinds
    BY KindsAre
  <2>4. UNCHANGED <<services, gone, simVars, modemVars>>
    BY <1>13 DEF modem_st_poweroff_off, others
  <2>5. Moves("POWEROFF", {})
    BY <1>1, <2>1, <2>2, <2>4 DEF Moves, EngineOK, WorldOK, simVars, modemVars
  <2>6. Timing'
    BY <1>1, <2>1, <2>2 DEF Timing, N_NONE, N_RESEND, N_FAILURE
  <2>7. Carries("POWEROFF", {})
    BY <1>1, <2>1, <2>2, <2>4 DEF Carries, Carried, WorldOK, modemVars
  <2>8. Asks("POWEROFF", {})
    BY <1>1 DEF Asks, ServiceOf
  <2>9. Switches("POWEROFF", {})
    BY <1>1, <2>1, <2>2, <2>3, <2>4 DEF Switches, Online, RadioUsed, RadioIsOn, modemVars
  <2>10. Walks("POWEROFF")
    BY <1>1, <2>1, <2>4, LifeIs DEF Walks, Stays, Passes, NoCall, Calls, modemVars
  <2> QED
    BY <2>10, <2>1, <2>2, <2>3, <2>5, <2>6, <2>7, <2>8, <2>9 DEF Steps
<1>14. CASE modem_st_wait_uim
  <2>1. /\ at["MODEM"] = "WAIT_UIM" /\ Arriving("MODEM") /\ Head(todo).ev \in {"REQ_SIM_READY"}
        /\ todo' = Tail(todo)
    BY <1>14, Handled DEF modem_st_wait_uim
  <2>2. /\ at' \in [{"MODEM", "SIM"} -> ModemStates \cup SimStateNames]
        /\ at'["MODEM"] = "CONFIGURE_MODEM" /\ at'["SIM"] = at["SIM"]
        /\ timer' = FALSE /\ T' = N_NONE /\ Send({"profile_list"})
    BY <1>14, <2>1, EnteredOne DEF modem_st_wait_uim
  <2>3. {"profile_list"} \in SUBSET Kinds
    BY KindsAre
  <2>4. UNCHANGED <<services, gone, simVars, modemVars>>
    BY <1>14 DEF modem_st_wait_uim, others
  <2>5. Moves("CONFIGURE_MODEM", {"profile_list"})
    BY <1>1, <2>1, <2>2, <2>4 DEF Moves, EngineOK, WorldOK, simVars, modemVars
  <2>6. Timing'
    BY <2>2, TimerOver
  <2>7. Carries("CONFIGURE_MODEM", {"profile_list"})
    BY <1>1, <2>1, <2>2, <2>4 DEF Carries, Carried, WorldOK, modemVars
  <2>8. Asks("CONFIGURE_MODEM", {"profile_list"})
    BY <1>1 DEF Asks, ServiceOf
  <2>9. Switches("CONFIGURE_MODEM", {"profile_list"})
    BY <1>1, <2>1, <2>2, <2>3, <2>4 DEF Switches, Online, RadioUsed, RadioIsOn, modemVars
  <2>10. Walks("CONFIGURE_MODEM")
    BY <1>1, <2>1, <2>4, LifeIs DEF Walks, Stays, Passes, NoCall, Calls, modemVars
  <2> QED
    BY <2>10, <2>1, <2>2, <2>3, <2>5, <2>6, <2>7, <2>8, <2>9 DEF Steps
<1>15. CASE modem_st_configure_modem_profile
  <2>1. /\ at["MODEM"] = "CONFIGURE_MODEM" /\ Arriving("MODEM") /\ Head(todo).ev \in {"RX_GET_PROFILE_LIST"}
        /\ todo' = Tail(todo)
    BY <1>15, Handled DEF modem_st_configure_modem_profile
  <2>2. UNCHANGED <<at, timer, T>> /\ Send((IF Head(todo).arg = "error" THEN {} ELSE {"modify_profile"}))
    BY <1>15 DEF modem_st_configure_modem_profile, OnlySends
  <2>3. /\ (IF Head(todo).arg = "error" THEN {} ELSE {"modify_profile"}) \in SUBSET {"modify_profile"}
        /\ (IF Head(todo).arg = "error" THEN {} ELSE {"modify_profile"}) \in SUBSET Kinds
    BY KindsAre
  <2>4. UNCHANGED <<services, gone, simVars, modemVars>>
    BY <1>15 DEF modem_st_configure_modem_profile, others
  <2>5. Moves("CONFIGURE_MODEM", (IF Head(todo).arg = "error" THEN {} ELSE {"modify_profile"}))
    BY <1>1, <2>1, <2>2, <2>3, <2>4 DEF Moves, EngineOK, WorldOK, simVars, modemVars
  <2>6. Timing'
    BY <1>1, <2>1, <2>2 DEF Timing, N_NONE, N_RESEND, N_FAILURE
  <2>7. Carries("CONFIGURE_MODEM", (IF Head(todo).arg = "error" THEN {} ELSE {"modify_profile"}))
    BY <1>1, <2>1, <2>2, <2>3, <2>4 DEF Carries, Carried, WorldOK, modemVars
  <2>8. Asks("CONFIGURE_MODEM", (IF Head(todo).arg = "error" THEN {} ELSE {"modify_profile"}))
    BY <1>1, <2>3 DEF Asks, ServiceOf
  <2>9. Switches("CONFIGURE_MODEM", (IF Head(todo).arg = "error" THEN {} ELSE {"modify_profile"}))
    BY <1>1, <2>1, <2>2, <2>3, <2>4 DEF Switches, Online, RadioUsed, RadioIsOn, modemVars
  <2>10. Walks("CONFIGURE_MODEM")
    BY <1>1, <2>1, <2>4, LifeIs DEF Walks, Stays, Passes, NoCall, Calls, modemVars
  <2> QED
    BY <2>10, <2>1, <2>2, <2>3, <2>5, <2>6, <2>7, <2>8, <2>9 DEF Steps
<1>16. CASE modem_st_configure_modem_done
  <2>1. /\ at["MODEM"] = "CONFIGURE_MODEM" /\ Arriving("MODEM") /\ Head(todo).ev \in {"RX_MODIFIED_PROFILE"}
        /\ todo' = Tail(todo)
    BY <1>16, Handled DEF modem_st_configure_modem_done
  <2> DEFINE R(outcome) == IF outcome.ok THEN {"data_format"} ELSE {}
  <2>2. PICK outcome \in configure_kernel(link) :
           /\ link' = outcome.net
           /\ Enter(<<"CONFIGURE_KERNEL">>, TRUE, N_NONE, R(outcome))
    BY <1>16 DEF modem_st_configure_modem_done
  <2> DEFINE S == R(outcome)
  <2>3. /\ S \in SUBSET {"data_format"} /\ ("data_format" \in S => outcome.ok)
        /\ S \in SUBSET Kinds
    BY KindsAre
  <2>4. /\ UNCHANGED <<services, gone, simVars, error, radio, coverage>>
        /\ agreed' = FALSE
    BY <1>16 DEF modem_st_configure_modem_done, others
  <2>5. link' \in Interface /\ (outcome.ok => RawIpOnly(link'))
    BY <1>1, <2>2, SetUp DEF WorldOK
  <2> HIDE DEF S
  <2>6. /\ at' \in [{"MODEM", "SIM"} -> ModemStates \cup SimStateNames]
        /\ at'["MODEM"] = "CONFIGURE_KERNEL" /\ at'["SIM"] = at["SIM"]
        /\ timer' = TRUE /\ T' = N_NONE /\ Send(S)
    BY <2>1, <2>2, EnteredOne DEF S
  <2>7. Moves("CONFIGURE_KERNEL", S)
    BY <1>1, <2>1, <2>3, <2>4, <2>6 DEF Moves, EngineOK, WorldOK, simVars
  <2>8. Timing'
    BY <1>1, <2>6 DEF Timing, N_NONE, N_RESEND, N_FAILURE
  <2>9. Carries("CONFIGURE_KERNEL", S)
    BY <1>1, <2>1, <2>3, <2>4, <2>5 DEF Carries, Carried
  <2>10. Asks("CONFIGURE_KERNEL", S)
    BY <2>3 DEF Asks, ServiceOf
  <2>11. Switches("CONFIGURE_KERNEL", S)
    BY <1>1, <2>1, <2>3, <2>4, <2>5 DEF Switches, Online, RadioUsed, RadioIsOn
  <2>12. Walks("CONFIGURE_KERNEL")
    BY <1>1, <2>1, <2>4, LifeIs DEF Walks, Stays, Passes, NoCall, Calls
  <2> QED
    BY <2>12, <2>3, <2>6, <2>7, <2>8, <2>9, <2>10, <2>11 DEF Steps
<1>17. CASE modem_st_configure_kernel /\ ForDataFormat
  <2>1. /\ at["MODEM"] = "CONFIGURE_KERNEL" /\ Arriving("MODEM") /\ Head(todo).ev \in {"RX_SUCCEED"}
        /\ todo' = Tail(todo)
    BY <1>17, Handled DEF modem_st_configure_kernel
  <2>2. /\ at' \in [{"MODEM", "SIM"} -> ModemStates \cup SimStateNames]
        /\ at'["MODEM"] = "POWERON" /\ at'["SIM"] = at["SIM"]
        /\ timer' = FALSE /\ T' = N_NONE /\ Send(IfPresent("DMS", "get_opmode"))
    BY <1>17, <2>1, EnteredOne DEF modem_st_configure_kernel
  <2>3. /\ IfPresent("DMS", "get_opmode") \in SUBSET {"get_opmode"}
        /\ IfPresent("DMS", "get_opmode") \in SUBSET Kinds
    BY KindsAre DEF IfPresent
  <2>4. UNCHANGED <<services, gone, simVars, modemVars>>
    BY <1>17 DEF modem_st_configure_kernel, others
  <2>5. Moves("POWERON", IfPresent("DMS", "get_opmode"))
    BY <1>1, <2>1, <2>2, <2>3, <2>4 DEF Moves, EngineOK, WorldOK, simVars, modemVars
  <2>6. Timing'
    BY <2>2, TimerOver
  <2>7. Carries("POWERON", IfPresent("DMS", "get_opmode"))
    BY <1>1, <2>1, <2>2, <2>3, <2>4, <1>17 DEF Carries, Carried, WorldOK, modemVars
  <2>8. Asks("POWERON", IfPresent("DMS", "get_opmode"))
    BY <1>1, <2>3 DEF Asks, ServiceOf
  <2>9. Switches("POWERON", IfPresent("DMS", "get_opmode"))
    BY <1>1, <2>1, <2>2, <2>3, <2>4, <1>17 DEF Switches, Online, RadioUsed, RadioIsOn, modemVars
  <2>10. Walks("POWERON")
    BY <1>1, <2>1, <2>4, <1>17, LifeIs DEF Walks, Stays, Passes, NoCall, Calls, modemVars
  <2> QED
    BY <2>10, <2>1, <2>2, <2>3, <2>5, <2>6, <2>7, <2>8, <2>9 DEF Steps
<1>18. CASE modem_st_configure_kernel /\ ~ForDataFormat
  <2>1. /\ at["MODEM"] = "CONFIGURE_KERNEL" /\ Arriving("MODEM") /\ Head(todo).ev \in {"RX_SUCCEED"}
        /\ todo' = Tail(todo)
    BY <1>18, Handled DEF modem_st_configure_kernel
  <2>2. UNCHANGED <<at, timer, T>> /\ Send({})
    BY <1>18 DEF modem_st_configure_kernel, OnlySends
  <2>3. {} \in SUBSET Kinds
    BY KindsAre
  <2>4. UNCHANGED <<services, gone, simVars, modemVars>>
    BY <1>18 DEF modem_st_configure_kernel, others
  <2>5. Moves("CONFIGURE_KERNEL", {})
    BY <1>1, <2>1, <2>2, <2>4 DEF Moves, EngineOK, WorldOK, simVars, modemVars
  <2>6. Timing'
    BY <1>1, <2>1, <2>2 DEF Timing, N_NONE, N_RESEND, N_FAILURE
  <2>7. Carries("CONFIGURE_KERNEL", {})
    BY <1>1, <2>1, <2>2, <2>4, <1>18 DEF Carries, Carried, WorldOK, modemVars
  <2>8. Asks("CONFIGURE_KERNEL", {})
    BY <1>1 DEF Asks, ServiceOf
  <2>9. Switches("CONFIGURE_KERNEL", {})
    BY <1>1, <2>1, <2>2, <2>3, <2>4, <1>18 DEF Switches, Online, RadioUsed, RadioIsOn, modemVars
  <2>10. Walks("CONFIGURE_KERNEL")
    BY <1>1, <2>1, <2>4, LifeIs DEF Walks, Stays, Passes, NoCall, Calls, modemVars
  <2> QED
    BY <2>10, <2>1, <2>2, <2>3, <2>5, <2>6, <2>7, <2>8, <2>9 DEF Steps
<1>19. CASE modem_st_poweron_off
  <2>1. /\ at["MODEM"] = "POWERON" /\ Arriving("MODEM") /\ Head(todo).ev \in {"RX_POWEROFF"}
        /\ todo' = Tail(todo)
    BY <1>19, Handled DEF modem_st_poweron_off
  <2>2. UNCHANGED <<at, timer, T>> /\ Send({"set_online"})
    BY <1>19 DEF modem_st_poweron_off, OnlySends
  <2>3. {"set_online"} \in SUBSET Kinds
    BY KindsAre
  <2>4. UNCHANGED <<services, gone, simVars, modemVars>>
    BY <1>19 DEF modem_st_poweron_off, others
  <2>5. Moves("POWERON", {"set_online"})
    BY <1>1, <2>1, <2>2, <2>4 DEF Moves, EngineOK, WorldOK, simVars, modemVars
  <2>6. Timing'
    BY <1>1, <2>1, <2>2 DEF Timing, N_NONE, N_RESEND, N_FAILURE
  <2>7. Carries("POWERON", {"set_online"})
    BY <1>1, <2>1, <2>2, <2>4 DEF Carries, Carried, WorldOK, modemVars
  <2>8. Asks("POWERON", {"set_online"})
    BY <1>1 DEF Asks, ServiceOf
  <2>9. Switches("POWERON", {"set_online"})
    BY <1>1, <2>1, <2>2, <2>3, <2>4 DEF Switches, Online, RadioUsed, RadioIsOn, modemVars
  <2>10. Walks("POWERON")
    BY <1>1, <2>1, <2>4, LifeIs DEF Walks, Stays, Passes, NoCall, Calls, modemVars
  <2> QED
    BY <2>10, <2>1, <2>2, <2>3, <2>5, <2>6, <2>7, <2>8, <2>9 DEF Steps
<1>20. CASE modem_st_poweron_on
  <2>1. /\ at["MODEM"] = "POWERON" /\ Arriving("MODEM") /\ Head(todo).ev \in RadioIsOn
        /\ todo' = Tail(todo)
    BY <1>20, Handled DEF modem_st_poweron_on
  <2>2. /\ at' \in [{"MODEM", "SIM"} -> ModemStates \cup SimStateNames]
        /\ at'["MODEM"] = "NETSEARCH" /\ at'["SIM"] = at["SIM"]
        /\ timer' = TRUE /\ T' = N_NONE /\ Send({"subscribe"})
    BY <1>20, <2>1, EnteredOne DEF modem_st_poweron_on
  <2>3. {"subscribe"} \in SUBSET Kinds
    BY KindsAre
  <2>4. UNCHANGED <<services, gone, simVars, modemVars>>
    BY <1>20 DEF modem_st_poweron_on, others
  <2>5. Moves("NETSEARCH", {"subscribe"})
    BY <1>1, <2>1, <2>2, <2>4 DEF Moves, EngineOK, WorldOK, simVars, modemVars
  <2>6. Timing'
    BY <2>2, TimerStarted
  <2>7. Carries("NETSEARCH", {"subscribe"})
    BY <1>1, <2>1, <2>2, <2>4 DEF Carries, Carried, WorldOK, modemVars
  <2>8. Asks("NETSEARCH", {"subscribe"})
    BY <1>1 DEF Asks, ServiceOf
  <2>9. Switches("NETSEARCH", {"subscribe"})
    BY <1>1, <2>1, <2>2, <2>3, <2>4 DEF Switches, Online, RadioUsed, RadioIsOn, modemVars
  <2>10. Walks("NETSEARCH")
    BY <1>1, <2>1, <2>4, LifeIs DEF Walks, Stays, Passes, NoCall, Calls, modemVars, RadioIsOn
  <2> QED
    BY <2>10, <2>1, <2>2, <2>3, <2>5, <2>6, <2>7, <2>8, <2>9 DEF Steps
<1>21. CASE modem_st_netsearch_asks /\ OnIn("NETSEARCH", {"RX_SUBSCRIBED", "RX_SUBSCRIBE_FAILED"}) /\ OnlySends({"serving_system"})
  <2>1. /\ at["MODEM"] = "NETSEARCH" /\ Arriving("MODEM") /\ Head(todo).ev \in {"RX_SUBSCRIBED", "RX_SUBSCRIBE_FAILED"}
        /\ todo' = Tail(todo)
    BY <1>21, Handled DEF modem_st_netsearch_asks
  <2>2. UNCHANGED <<at, timer, T>> /\ Send({"serving_system"})
    BY <1>21 DEF modem_st_netsearch_asks, OnlySends
  <2>3. {"serving_system"} \in SUBSET Kinds
    BY KindsAre
  <2>4. UNCHANGED <<services, gone, simVars, modemVars>>
    BY <1>21 DEF modem_st_netsearch_asks, others
  <2>5. Moves("NETSEARCH", {"serving_system"})
    BY <1>1, <2>1, <2>2, <2>4 DEF Moves, EngineOK, WorldOK, simVars, modemVars
  <2>6. Timing'
    BY <1>1, <2>1, <2>2 DEF Timing, N_NONE, N_RESEND, N_FAILURE
  <2>7. Carries("NETSEARCH", {"serving_system"})
    BY <1>1, <2>1, <2>2, <2>4 DEF Carries, Carried, WorldOK, modemVars
  <2>8. Asks("NETSEARCH", {"serving_system"})
    BY <1>1 DEF Asks, ServiceOf
  <2>9. Switches("NETSEARCH", {"serving_system"})
    BY <1>1, <2>1, <2>2, <2>3, <2>4 DEF Switches, Online, RadioUsed, RadioIsOn, modemVars
  <2>10. Walks("NETSEARCH")
    BY <1>1, <2>1, <2>4, LifeIs DEF Walks, Stays, Passes, NoCall, Calls, modemVars
  <2> QED
    BY <2>10, <2>1, <2>2, <2>3, <2>5, <2>6, <2>7, <2>8, <2>9 DEF Steps
<1>22. CASE modem_st_netsearch_asks /\ OnIn("NETSEARCH", {"RX_UNREGISTERED"}) /\ OnlySends({"network_search"})
  <2>1. /\ at["MODEM"] = "NETSEARCH" /\ Arriving("MODEM") /\ Head(todo).ev \in {"RX_UNREGISTERED"}
        /\ todo' = Tail(todo)
    BY <1>22, Handled DEF modem_st_netsearch_asks
  <2>2. UNCHANGED <<at, timer, T>> /\ Send({"network_search"})
    BY <1>22 DEF modem_st_netsearch_asks, OnlySends
  <2>3. {"network_search"} \in SUBSET Kinds
    BY KindsAre
  <2>4. UNCHANGED <<services, gone, simVars, modemVars>>
    BY <1>22 DEF modem_st_netsearch_asks, others
  <2>5. Moves("NETSEARCH", {"network_search"})
    BY <1>1, <2>1, <2>2, <2>4 DEF Moves, EngineOK, WorldOK, simVars, modemVars
  <2>6. Timing'
    BY <1>1, <2>1, <2>2 DEF Timing, N_NONE, N_RESEND, N_FAILURE
  <2>7. Carries("NETSEARCH", {"network_search"})
    BY <1>1, <2>1, <2>2, <2>4 DEF Carries, Carried, WorldOK, modemVars
  <2>8. Asks("NETSEARCH", {"network_search"})
    BY <1>1 DEF Asks, ServiceOf
  <2>9. Switches("NETSEARCH", {"network_search"})
    BY <1>1, <2>1, <2>2, <2>3, <2>4 DEF Switches, Online, RadioUsed, RadioIsOn, modemVars
  <2>10. Walks("NETSEARCH")
    BY <1>1, <2>1, <2>4, LifeIs DEF Walks, Stays, Passes, NoCall, Calls, modemVars
  <2> QED
    BY <2>10, <2>1, <2>2, <2>3, <2>5, <2>6, <2>7, <2>8, <2>9 DEF Steps
<1>23. CASE modem_st_netsearch_asks /\ OnIn("NETSEARCH", {"RX_SEARCHING"}) /\ OnlySends({})
  <2>1. /\ at["MODEM"] = "NETSEARCH" /\ Arriving("MODEM") /\ Head(todo).ev \in {"RX_SEARCHING"}
        /\ todo' = Tail(todo)
    BY <1>23, Handled DEF modem_st_netsearch_asks
  <2>2. UNCHANGED <<at, timer, T>> /\ Send({})
    BY <1>23 DEF modem_st_netsearch_asks, OnlySends
  <2>3. {} \in SUBSET Kinds
    BY KindsAre
  <2>4. UNCHANGED <<services, gone, simVars, modemVars>>
    BY <1>23 DEF modem_st_netsearch_asks, others
  <2>5. Moves("NETSEARCH", {})
    BY <1>1, <2>1, <2>2, <2>4 DEF Moves, EngineOK, WorldOK, simVars, modemVars
  <2>6. Timing'
    BY <1>1, <2>1, <2>2 DEF Timing, N_NONE, N_RESEND, N_FAILURE
  <2>7. Carries("NETSEARCH", {})
    BY <1>1, <2>1, <2>2, <2>4 DEF Carries, Carried, WorldOK, modemVars
  <2>8. Asks("NETSEARCH", {})
    BY <1>1 DEF Asks, ServiceOf
  <2>9. Switches("NETSEARCH", {})
    BY <1>1, <2>1, <2>2, <2>3, <2>4 DEF Switches, Online, RadioUsed, RadioIsOn, modemVars
  <2>10. Walks("NETSEARCH")
    BY <1>1, <2>1, <2>4, LifeIs DEF Walks, Stays, Passes, NoCall, Calls, modemVars
  <2> QED
    BY <2>10, <2>1, <2>2, <2>3, <2>5, <2>6, <2>7, <2>8, <2>9 DEF Steps
<1>24. CASE modem_st_netsearch_failed
  <2>1. /\ at["MODEM"] = "NETSEARCH" /\ Arriving("MODEM") /\ Head(todo).ev \in {"RX_FAILED"}
        /\ todo' = Tail(todo)
    BY <1>24, Handled DEF modem_st_netsearch_failed
  <2>2. timer' = TRUE /\ UNCHANGED <<at, T>> /\ Send({})
    BY <1>24, <1>1, SendNothing DEF modem_st_netsearch_failed
  <2>3. {} \in SUBSET Kinds
    BY KindsAre
  <2>4. UNCHANGED <<services, gone, simVars, modemVars>>
    BY <1>24 DEF modem_st_netsearch_failed, others
  <2>5. Moves("NETSEARCH", {})
    BY <1>1, <2>1, <2>2, <2>4 DEF Moves, EngineOK, WorldOK, simVars, modemVars
  <2>6. Timing'
    BY <1>1, <2>1, <2>2 DEF Timing, N_NONE, N_RESEND, N_FAILURE
  <2>7. Carries("NETSEARCH", {})
    BY <1>1, <2>1, <2>2, <2>4 DEF Carries, Carried, WorldOK, modemVars
  <2>8. Asks("NETSEARCH", {})
    BY <1>1 DEF Asks, ServiceOf
  <2>9. Switches("NETSEARCH", {})
    BY <1>1, <2>1, <2>2, <2>3, <2>4 DEF Switches, Online, RadioUsed, RadioIsOn, modemVars
  <2>10. Walks("NETSEARCH")
    BY <1>1, <2>1, <2>4, LifeIs DEF Walks, Stays, Passes, NoCall, Calls, modemVars
  <2> QED
    BY <2>10, <2>1, <2>2, <2>3, <2>5, <2>6, <2>7, <2>8, <2>9 DEF Steps
<1>25. CASE modem_st_netsearch_registered
  <2>1. /\ at["MODEM"] = "NETSEARCH" /\ Arriving("MODEM") /\ Head(todo).ev \in {"RX_REGISTERED"}
        /\ todo' = Tail(todo)
    BY <1>25, Handled DEF modem_st_netsearch_registered
  <2>2. /\ at' \in [{"MODEM", "SIM"} -> ModemStates \cup SimStateNames]
        /\ at'["MODEM"] = "START_IFACE" /\ at'["SIM"] = at["SIM"]
        /\ timer' = TRUE /\ T' = N_NONE /\ Send({"start_network"})
    BY <1>25, <2>1, EnteredTwo DEF modem_st_netsearch_registered
  <2>3. {"start_network"} \in SUBSET Kinds
    BY KindsAre
  <2>4. UNCHANGED <<services, gone, simVars, modemVars>>
    BY <1>25 DEF modem_st_netsearch_registered, others
  <2>5. Moves("START_IFACE", {"start_network"})
    BY <1>1, <2>1, <2>2, <2>4 DEF Moves, EngineOK, WorldOK, simVars, modemVars
  <2>6. Timing'
    BY <2>2, TimerStarted
  <2>7. Carries("START_IFACE", {"start_network"})
    BY <1>1, <2>1, <2>2, <2>4 DEF Carries, Carried, WorldOK, modemVars
  <2>8. Asks("START_IFACE", {"start_network"})
    BY <1>1 DEF Asks, ServiceOf
  <2>9. Switches("START_IFACE", {"start_network"})
    BY <1>1, <2>1, <2>2, <2>3, <2>4 DEF Switches, Online, RadioUsed, RadioIsOn, modemVars
  <2>10. Walks("START_IFACE")
    BY <1>1, <2>1, <2>4, LifeIs DEF Walks, Stays, Passes, NoCall, Calls, modemVars
  <2> QED
    BY <2>10, <2>1, <2>2, <2>3, <2>5, <2>6, <2>7, <2>8, <2>9 DEF Steps
<1>26. CASE modem_st_start_iface_retries /\ OnIn("START_IFACE", {"RX_DISABLE_AUTOCONNECT_SUCCESS"}) /\ Send({"start_network"}) /\ UNCHANGED T
  <2>1. /\ at["MODEM"] = "START_IFACE" /\ Arriving("MODEM") /\ Head(todo).ev \in {"RX_DISABLE_AUTOCONNECT_SUCCESS"}
        /\ todo' = Tail(todo)
    BY <1>26, Handled DEF modem_st_start_iface_retries
  <2>2. UNCHANGED T /\ UNCHANGED <<at, timer>> /\ Send({"start_network"})
    BY <1>26 DEF modem_st_start_iface_retries
  <2>3. {"start_network"} \in SUBSET Kinds
    BY KindsAre
  <2>4. UNCHANGED <<services, gone, simVars, modemVars>>
    BY <1>26 DEF modem_st_start_iface_retries, others
  <2>5. Moves("START_IFACE", {"start_network"})
    BY <1>1, <2>1, <2>2, <2>4 DEF Moves, EngineOK, WorldOK, simVars, modemVars
  <2>6. Timing'
    BY <1>1, <2>1, <2>2 DEF Timing, N_NONE, N_RESEND, N_FAILURE
  <2>7. Carries("START_IFACE", {"start_network"})
    BY <1>1, <2>1, <2>2, <2>4 DEF Carries, Carried, WorldOK, modemVars
  <2>8. Asks("START_IFACE", {"start_network"})
    BY <1>1 DEF Asks, ServiceOf
  <2>9. Switches("START_IFACE", {"start_network"})
    BY <1>1, <2>1, <2>2, <2>3, <2>4 DEF Switches, Online, RadioUsed, RadioIsOn, modemVars
  <2>10. Walks("START_IFACE")
    BY <1>1, <2>1, <2>4, LifeIs DEF Walks, Stays, Passes, NoCall, Calls, modemVars
  <2> QED
    BY <2>10, <2>1, <2>2, <2>3, <2>5, <2>6, <2>7, <2>8, <2>9 DEF Steps
<1>27. CASE modem_st_start_iface_retries /\ OnIn("START_IFACE", {"RX_FAILED"}) /\ Send({}) /\ T' = N_RESEND
  <2>1. /\ at["MODEM"] = "START_IFACE" /\ Arriving("MODEM") /\ Head(todo).ev \in {"RX_FAILED"}
        /\ todo' = Tail(todo)
    BY <1>27, Handled DEF modem_st_start_iface_retries
  <2>2. T' = N_RESEND /\ UNCHANGED <<at, timer>> /\ Send({})
    BY <1>27 DEF modem_st_start_iface_retries
  <2>3. {} \in SUBSET Kinds
    BY KindsAre
  <2>4. UNCHANGED <<services, gone, simVars, modemVars>>
    BY <1>27 DEF modem_st_start_iface_retries, others
  <2>5. Moves("START_IFACE", {})
    BY <1>1, <2>1, <2>2, <2>4 DEF Moves, EngineOK, WorldOK, simVars, modemVars
  <2>6. Timing'
    BY <1>1, <2>1, <2>2 DEF Timing, N_NONE, N_RESEND, N_FAILURE
  <2>7. Carries("START_IFACE", {})
    BY <1>1, <2>1, <2>2, <2>4 DEF Carries, Carried, WorldOK, modemVars
  <2>8. Asks("START_IFACE", {})
    BY <1>1 DEF Asks, ServiceOf
  <2>9. Switches("START_IFACE", {})
    BY <1>1, <2>1, <2>2, <2>3, <2>4 DEF Switches, Online, RadioUsed, RadioIsOn, modemVars
  <2>10. Walks("START_IFACE")
    BY <1>1, <2>1, <2>4, LifeIs DEF Walks, Stays, Passes, NoCall, Calls, modemVars
  <2> QED
    BY <2>10, <2>1, <2>2, <2>3, <2>5, <2>6, <2>7, <2>8, <2>9 DEF Steps
<1>28. CASE modem_st_start_iface_retries /\ OnIn("START_IFACE", {"RX_FAILED"}) /\ Send({"stop_network"}) /\ UNCHANGED T
  <2>1. /\ at["MODEM"] = "START_IFACE" /\ Arriving("MODEM") /\ Head(todo).ev \in {"RX_FAILED"}
        /\ todo' = Tail(todo)
    BY <1>28, Handled DEF modem_st_start_iface_retries
  <2>2. UNCHANGED T /\ UNCHANGED <<at, timer>> /\ Send({"stop_network"})
    BY <1>28 DEF modem_st_start_iface_retries
  <2>3. {"stop_network"} \in SUBSET Kinds
    BY KindsAre
  <2>4. UNCHANGED <<services, gone, simVars, modemVars>>
    BY <1>28 DEF modem_st_start_iface_retries, others
  <2>5. Moves("START_IFACE", {"stop_network"})
    BY <1>1, <2>1, <2>2, <2>4 DEF Moves, EngineOK, WorldOK, simVars, modemVars
  <2>6. Timing'
    BY <1>1, <2>1, <2>2 DEF Timing, N_NONE, N_RESEND, N_FAILURE
  <2>7. Carries("START_IFACE", {"stop_network"})
    BY <1>1, <2>1, <2>2, <2>4 DEF Carries, Carried, WorldOK, modemVars
  <2>8. Asks("START_IFACE", {"stop_network"})
    BY <1>1 DEF Asks, ServiceOf
  <2>9. Switches("START_IFACE", {"stop_network"})
    BY <1>1, <2>1, <2>2, <2>3, <2>4 DEF Switches, Online, RadioUsed, RadioIsOn, modemVars
  <2>10. Walks("START_IFACE")
    BY <1>1, <2>1, <2>4, LifeIs DEF Walks, Stays, Passes, NoCall, Calls, modemVars
  <2> QED
    BY <2>10, <2>1, <2>2, <2>3, <2>5, <2>6, <2>7, <2>8, <2>9 DEF Steps
<1>29. CASE modem_st_start_iface_failed
  <2>1. /\ at["MODEM"] = "START_IFACE" /\ Arriving("MODEM") /\ Head(todo).ev \in {"RX_FAILED"}
        /\ todo' = Tail(todo)
    BY <1>29, Handled DEF modem_st_start_iface_failed
  <2>2. /\ at' \in [{"MODEM", "SIM"} -> ModemStates \cup SimStateNames]
        /\ at'["MODEM"] = "POWEROFF" /\ at'["SIM"] = at["SIM"]
        /\ timer' = FALSE /\ T' = N_NONE /\ Send(IfPresent("DMS", "get_opmode"))
    BY <1>29, <2>1, EnteredOne DEF modem_st_start_iface_failed
  <2>3. /\ IfPresent("DMS", "get_opmode") \in SUBSET {"get_opmode"} /\ IfPresent("DMS", "get_opmode") \in SUBSET Kinds
    BY KindsAre DEF IfPresent
  <2>4. UNCHANGED <<services, gone, simVars, link, agreed, radio, coverage>> /\ error' = TRUE
    BY <1>29 DEF modem_st_start_iface_failed, others
  <2>5. Moves("POWEROFF", IfPresent("DMS", "get_opmode"))
    BY <1>1, <2>1, <2>2, <2>3, <2>4 DEF Moves, EngineOK, WorldOK, simVars
  <2>6. Timing'
    BY <2>2, TimerOver
  <2>7. Carries("POWEROFF", IfPresent("DMS", "get_opmode"))
    BY <1>1, <2>1, <2>2, <2>3, <2>4 DEF Carries, Carried, WorldOK
  <2>8. Asks("POWEROFF", IfPresent("DMS", "get_opmode"))
    BY <1>1, <2>3 DEF Asks, ServiceOf
  <2>9. Switches("POWEROFF", IfPresent("DMS", "get_opmode"))
    BY <1>1, <2>1, <2>2, <2>3, <2>4 DEF Switches, Online, RadioUsed, RadioIsOn
  <2>10. Walks("POWEROFF")
    BY <1>1, <2>1, <2>4, LifeIs DEF Walks, Stays, Passes, NoCall, Calls
  <2> QED
    BY <2>10, <2>2, <2>3, <2>5, <2>6, <2>7, <2>8, <2>9 DEF Steps
<1>30. CASE modem_st_start_iface_done
  <2>1. /\ at["MODEM"] = "START_IFACE" /\ Arriving("MODEM") /\ Head(todo).ev \in {"RX_SUCCEED"}
        /\ todo' = Tail(todo)
    BY <1>30, Handled DEF modem_st_start_iface_done
  <2>2. /\ at' \in [{"MODEM", "SIM"} -> ModemStates \cup SimStateNames]
        /\ at'["MODEM"] = "LIVE" /\ at'["SIM"] = at["SIM"]
        /\ timer' = FALSE /\ T' = N_NONE /\ Send({"current_settings"})
    BY <1>30, <2>1, EnteredOne DEF modem_st_start_iface_done
  <2>3. {"current_settings"} \in SUBSET Kinds
    BY KindsAre
  <2>4. UNCHANGED <<services, gone, simVars, modemVars>>
    BY <1>30 DEF modem_st_start_iface_done, others
  <2>5. Moves("LIVE", {"current_settings"})
    BY <1>1, <2>1, <2>2, <2>4 DEF Moves, EngineOK, WorldOK, simVars, modemVars
  <2>6. Timing'
    BY <2>2, TimerOver
  <2>7. Carries("LIVE", {"current_settings"})
    BY <1>1, <2>1, <2>2, <2>4 DEF Carries, Carried, WorldOK, modemVars
  <2>8. Asks("LIVE", {"current_settings"})
    BY <1>1 DEF Asks, ServiceOf
  <2>9. Switches("LIVE", {"current_settings"})
    BY <1>1, <2>1, <2>2, <2>3, <2>4 DEF Switches, Online, RadioUsed, RadioIsOn, modemVars
  <2>10. Walks("LIVE")
    BY <1>1, <2>1, <2>4, LifeIs DEF Walks, Stays, Passes, NoCall, Calls, modemVars
  <2> QED
    BY <2>10, <2>1, <2>2, <2>3, <2>5, <2>6, <2>7, <2>8, <2>9 DEF Steps
<1>31. CASE modem_st_live
  <2>1. /\ at["MODEM"] = "LIVE" /\ Arriving("MODEM") /\ Head(todo).ev \in {"RX_SUCCEED", "RX_FAILED"}
        /\ todo' = Tail(todo)
    BY <1>31, Handled DEF modem_st_live
  <2>2. UNCHANGED <<at, timer, T>> /\ Send({})
    BY <1>31 DEF modem_st_live, OnlySends
  <2>3. {} \in SUBSET Kinds
    BY KindsAre
  <2>4. UNCHANGED <<services, gone, simVars, modemVars>>
    BY <1>31 DEF modem_st_live, others
  <2>5. Moves("LIVE", {})
    BY <1>1, <2>1, <2>2, <2>4 DEF Moves, EngineOK, WorldOK, simVars, modemVars
  <2>6. Timing'
    BY <1>1, <2>1, <2>2 DEF Timing, N_NONE, N_RESEND, N_FAILURE
  <2>7. Carries("LIVE", {})
    BY <1>1, <2>1, <2>2, <2>4 DEF Carries, Carried, WorldOK, modemVars
  <2>8. Asks("LIVE", {})
    BY <1>1 DEF Asks, ServiceOf
  <2>9. Switches("LIVE", {})
    BY <1>1, <2>1, <2>2, <2>3, <2>4 DEF Switches, Online, RadioUsed, RadioIsOn, modemVars
  <2>10. Walks("LIVE")
    BY <1>1, <2>1, <2>4, LifeIs DEF Walks, Stays, Passes, NoCall, Calls, modemVars
  <2> QED
    BY <2>10, <2>1, <2>2, <2>3, <2>5, <2>6, <2>7, <2>8, <2>9 DEF Steps
<1>32. CASE modem_fsm_allstate_action
  <2>1. Arriving("MODEM") /\ todo' = Tail(todo)
    BY <1>32 DEF modem_fsm_allstate_action
  <2>2. /\ at' \in [{"MODEM", "SIM"} -> ModemStates \cup SimStateNames]
        /\ at'["MODEM"] = "DESTROY" /\ at'["SIM"] = at["SIM"]
        /\ Timing' /\ Send({})
    <3>1. CASE at["MODEM"] = "DESTROY"
      <4>1. UNCHANGED <<at, timer, T, asked, crashed>>
        BY <1>32, <3>1, PermittedOne DEF modem_fsm_allstate_action, Enter, ChangeModem
      <4> QED
        BY <4>1, <3>1, <1>1, SendNothing DEF Timing, EngineOK
    <3>2. CASE at["MODEM"] # "DESTROY"
      <4>1. "DESTROY" \in modem_out_states[at["MODEM"]]
        BY <3>2, <1>1 DEF EngineOK
      <4>2. /\ at' \in [{"MODEM", "SIM"} -> ModemStates \cup SimStateNames]
            /\ at'["MODEM"] = "DESTROY" /\ at'["SIM"] = at["SIM"]
            /\ timer' = FALSE /\ T' = N_NONE /\ Send({})
        BY <1>32, <4>1, EnteredOne DEF modem_fsm_allstate_action
      <4> QED
        BY <4>2, TimerOver
    <3> QED
      BY <3>1, <3>2
  <2>3. UNCHANGED <<services, gone, simVars, modemVars>>
    BY <1>32 DEF modem_fsm_allstate_action, others
  <2>4. Moves("DESTROY", {})
    BY <1>1, <2>1, <2>2, <2>3 DEF Moves, WorldOK, simVars, modemVars
  <2>5. Carries("DESTROY", {}) /\ Asks("DESTROY", {}) /\ Switches("DESTROY", {})
    BY <1>1, <2>3 DEF Carries, Carried, Asks, Switches, Online, RadioUsed, WorldOK, modemVars
  <2>6. Walks("DESTROY")
    BY <2>3, <1>32, LifeIs DEF Walks, Stays, Passes, NoCall, Calls, modemVars, modem_fsm_allstate_action
  <2> QED
    BY <2>6, <2>2, <2>4, <2>5 DEF Steps
<1>33. CASE Drop("MODEM", modem_in_events, {"REQ_DESTROY"}) /\ UNCHANGED <<simVars, modemVars>>
  <2> DEFINE s == at["MODEM"]
  <2>1. /\ Arriving("MODEM") /\ todo' = Tail(todo)
        /\ Head(todo).ev \notin modem_in_events[s]
        /\ UNCHANGED <<at, timer, T, asked, services, crashed, gone>>
    BY <1>33 DEF Drop
  <2>2. UNCHANGED <<services, gone, simVars, modemVars>> /\ Send({}) /\ s \in ModemStates
    BY <1>33, <1>1, <2>1, SendNothing DEF EngineOK
  <2>3. Moves(s, {})
    BY <1>1, <2>1, <2>2 DEF Moves, EngineOK, WorldOK, simVars, modemVars
  <2>4. Timing'
    BY <1>1, <2>1 DEF Timing
  <2>5. ~(at["MODEM"] = "WAIT_UIM" /\ at["SIM"] = "READY")
    <3> SUFFICES ASSUME at["MODEM"] = "WAIT_UIM", at["SIM"] = "READY" PROVE FALSE
      OBVIOUS
    <3>1. Head(todo).ev = "REQ_SIM_READY"
      BY DEF Telling, ToModem, Event
    <3> QED
      BY <2>1, <3>1 DEF modem_in_events
  <2>6. Carries(s, {}) /\ Asks(s, {}) /\ Switches(s, {})
    BY <1>1, <2>2 DEF Carries, Carried, Asks, Switches, Online, RadioUsed, WorldOK, modemVars
  <2>7. Walks(s)
    BY <1>33, <2>1, <2>2, LifeIs DEF Walks, Stays, Passes, NoCall, Calls, modemVars, modem_in_events, Drop
  <2> QED
    BY <2>7, <2>1, <2>2, <2>3, <2>4, <2>5, <2>6 DEF Steps
<1>34. modem_st_poweroff_asks =>
         \E new \in ModemStates : \E requests \in SUBSET Kinds : Steps(new, requests)
  BY <1>7, <1>8, Zenon DEF modem_st_poweroff_asks
<1>35. modem_st_poweroff_off \/ modem_st_poweroff_configured =>
         \E new \in ModemStates : \E requests \in SUBSET Kinds : Steps(new, requests)
  BY <1>9, <1>10, <1>11, <1>12, <1>13, Zenon DEF modem_st_poweroff_off, modem_st_poweroff_configured
<1>36. modem_st_configure_kernel =>
         \E new \in ModemStates : \E requests \in SUBSET Kinds : Steps(new, requests)
  BY <1>17, <1>18, Zenon
<1>37. modem_st_netsearch_asks =>
         \E new \in ModemStates : \E requests \in SUBSET Kinds : Steps(new, requests)
  BY <1>21, <1>22, <1>23, Zenon DEF modem_st_netsearch_asks
<1>38. modem_st_start_iface_retries =>
         \E new \in ModemStates : \E requests \in SUBSET Kinds : Steps(new, requests)
  BY <1>26, <1>27, <1>28, Zenon DEF modem_st_start_iface_retries
<1> QED
  BY <1>2, <1>3, <1>4, <1>5, <1>6, <1>14, <1>15, <1>16, <1>19, <1>20, <1>24, <1>25, <1>29,
     <1>30, <1>31, <1>32, <1>33, <1>34, <1>35, <1>36, <1>37, <1>38, Zenon
  DEF ModemHandler


(***************************************************************************)
(* What a handler of SIM does: it takes the event, goes to a state or       *)
(* stays, sends what that state asks and remembers what it tried.           *)
(***************************************************************************)

Ready == ToModem("REQ_SIM_READY")

SimMoves(new, requests) ==
    /\ Arriving("SIM")
    /\ at' \in [{"MODEM", "SIM"} -> ModemStates \cup SimStateNames]
    /\ at'["MODEM"] = at["MODEM"]
    /\ at'["SIM"] = new /\ (at["SIM"] = "READY" => new = "READY")
    /\ Send(requests)
    /\ UNCHANGED <<timer, T, services, gone, config, card, modemVars>>

(* MODEM is told when SIM becomes ready.                                    *)
Tells(new) ==
    \/ todo' = Tail(todo) /\ (new = "READY" => at["SIM"] = "READY")
    \/ todo' = <<Ready>> \o Tail(todo) /\ new = "READY"

(* UIM is there, whether it was looked for or has just answered.            *)
SimAsks(requests) ==
    /\ requests \subseteq {"card_status", "read_imsi", "verify_pin", "unblock_pin"}
    /\ "UIM" \in services \/ requests = {} \/ Head(todo).ev \in ImsiEvents

Remembers(requests) ==
    /\ sim' \in SimRecord
    /\ sim'.state = sim.state
    /\ sim'.pinRetries = sim.pinRetries /\ sim'.pukRetries = sim.pukRetries
    /\ sim'.pinTried <=> sim.pinTried \/ "verify_pin" \in requests
    /\ sim'.pukTried <=> sim.pukTried \/ "unblock_pin" \in requests
    /\ "verify_pin" \in requests =>
          sim.pinRetries >= 2 /\ ~sim.pinTried /\ sim.state = "PIN_REQUIRED"
    /\ "unblock_pin" \in requests =>
          sim.pukRetries >= 2 /\ ~sim.pukTried /\ sim.state = "PUK_REQUIRED"

SimSteps(new, requests) ==
    /\ SimMoves(new, requests)
    /\ Tells(new)
    /\ SimAsks(requests)
    /\ Remembers(requests)

LEMMA HandledSim ==
  ASSUME EngineOK, NEW ev, NEW nested \in Seq(Posted), Handle("SIM", ev, sim_in_events, nested)
  PROVE  /\ Arriving("SIM") /\ Head(todo).ev = ev
         /\ at["SIM"] = "GET_INFO" \/ at["SIM"] = "IDLE"
         /\ todo' = nested \o Tail(todo)
         /\ nested = <<>> => todo' = Tail(todo)
<1>1. Arriving("SIM") /\ Head(todo).ev = ev /\ todo' = nested \o Tail(todo)
  BY DEF Handle
<1>2. todo # <<>> /\ todo \in Seq(Posted)
  BY <1>1 DEF Arriving, EngineOK
<1>3. at["SIM"] = "GET_INFO" \/ at["SIM"] = "IDLE"
  BY SimStatesAre DEF Handle, sim_in_events, EngineOK
<1>4. <<>> \o Tail(todo) = Tail(todo)
  BY <1>2
<1> QED
  BY <1>1, <1>3, <1>4

(* A change from GET_INFO, and the rest that comes of it.                   *)
LEMMA EnteredSim ==
  ASSUME EngineOK, NEW new \in {"READY", "CHV_PIN", "CHV_PUK", "FAIL_NO_SIM_PRESENT"},
         at["SIM"] = "GET_INFO", NEW requests, ChangeSim(sim_out_states, new, requests)
  PROVE  /\ at' \in [{"MODEM", "SIM"} -> ModemStates \cup SimStateNames]
         /\ at'["MODEM"] = at["MODEM"] /\ at'["SIM"] = new
         /\ new \in SimStateNames
         /\ Send(requests) /\ UNCHANGED <<timer, T>>
<1>1. new \in sim_out_states[at["SIM"]]
  BY DEF sim_out_states
<1>2. new \in SimStateNames
  BY SimStatesAre
<1> QED
  BY <1>1, <1>2 DEF ChangeSim, EngineOK

LEMMA SimHandlerSteps ==
  ASSUME EngineOK, CardOK, SimHandler, UNCHANGED modemVars
  PROVE  \E new \in SimStateNames : \E requests \in SUBSET Kinds : SimSteps(new, requests)
<1>1. EngineOK /\ CardOK /\ AskedOK /\ UNCHANGED modemVars /\ sim \in SimRecord
  BY DEF EngineOK, CardOK
<1>2. /\ \A requests \in SUBSET {"card_status", "read_imsi", "verify_pin", "unblock_pin"} :
            requests \in SUBSET Kinds
      /\ \A new \in {"READY", "CHV_PIN", "CHV_PUK", "FAIL_NO_SIM_PRESENT", "FAILED"} :
            new \in SimStateNames
  BY KindsAre, SimStatesAre
<1>3. <<>> \in Seq(Posted) /\ ReadyEvent = <<Ready>> /\ ReadyEvent \in Seq(Posted)
  <2>1. Ready \in Posted
    BY DEF Ready, ToModem, Event, Posted, EventNames, Arguments
  <2>2. ReadyEvent = <<Ready>>
    BY DEF Ready, ReadyEvent
  <2> HIDE DEF Ready
  <2> QED
    BY <2>1, <2>2
<1>4. UNCHANGED sim => Remembers({}) /\ Remembers({"card_status"}) /\ Remembers({"read_imsi"})
  BY <1>1 DEF Remembers
<1>5. CASE sim_st_get_info_slot
  <2> DEFINE R == IfPresent("UIM", "card_status")
  <2>1. Arriving("SIM") /\ todo' = Tail(todo)
    BY <1>3, <1>5, HandledSim DEF sim_st_get_info_slot
  <2>2. UNCHANGED <<at, timer, T, services, gone, simVars>> /\ Send(R)
    BY <1>5 DEF sim_st_get_info_slot, OnlySends
  <2>3. R = {} \/ (R = {"card_status"} /\ "UIM" \in services)
    BY DEF IfPresent
  <2> HIDE DEF R
  <2>4. SimMoves(at["SIM"], R) /\ Tells(at["SIM"]) /\ at["SIM"] \in SimStateNames
    BY <1>1, <2>1, <2>2 DEF SimMoves, Tells, EngineOK, simVars
  <2>5. SimAsks(R) /\ Remembers(R)
    BY <1>4, <2>2, <2>3 DEF SimAsks, simVars
  <2> QED
    BY <1>2, <2>3, <2>4, <2>5 DEF SimSteps
<1>6. CASE sim_st_get_info_no_card
  <2>1. Arriving("SIM") /\ todo' = Tail(todo) /\ at["SIM"] = "GET_INFO"
    <3>1. "NO_UIM_FOUND" \in sim_in_events[at["SIM"]]
      BY <1>6 DEF sim_st_get_info_no_card, Handle
    <3>2. at["SIM"] # "IDLE"
      BY <3>1 DEF sim_in_events
    <3> QED
      BY <1>3, <1>6, <3>2, HandledSim DEF sim_st_get_info_no_card
  <2>2. /\ at' \in [{"MODEM", "SIM"} -> ModemStates \cup SimStateNames]
        /\ at'["MODEM"] = at["MODEM"] /\ at'["SIM"] = "FAIL_NO_SIM_PRESENT"
        /\ Send({}) /\ UNCHANGED <<timer, T>>
    BY <1>6, <2>1, EnteredSim DEF sim_st_get_info_no_card
  <2>3. UNCHANGED <<services, gone, simVars>>
    BY <1>6 DEF sim_st_get_info_no_card
  <2>4. SimSteps("FAIL_NO_SIM_PRESENT", {})
    BY <1>1, <1>4, <2>1, <2>2, <2>3 DEF SimSteps, SimMoves, Tells, SimAsks, simVars
  <2> QED
    BY <1>2, <2>4
<1>7. CASE sim_st_get_info_card
  <2> DEFINE R == IfPresent("UIM", "read_imsi")
  <2>1. Arriving("SIM") /\ todo' = Tail(todo)
    BY <1>3, <1>7, HandledSim DEF sim_st_get_info_card
  <2>2. UNCHANGED <<at, timer, T, services, gone, simVars>> /\ Send(R)
    BY <1>7 DEF sim_st_get_info_card, OnlySends
  <2>3. R = {} \/ (R = {"read_imsi"} /\ "UIM" \in services)
    BY DEF IfPresent
  <2> HIDE DEF R
  <2>4. SimMoves(at["SIM"], R) /\ Tells(at["SIM"]) /\ at["SIM"] \in SimStateNames
    BY <1>1, <2>1, <2>2 DEF SimMoves, Tells, EngineOK, simVars
  <2>5. SimAsks(R) /\ Remembers(R)
    BY <1>4, <2>2, <2>3 DEF SimAsks, simVars
  <2> QED
    BY <1>2, <2>3, <2>4, <2>5 DEF SimSteps
<1>8. ASSUME NEW nested \in Seq(Posted), ImsiRead(nested)
      PROVE  /\ Arriving("SIM") /\ Head(todo).ev \in ImsiEvents /\ at["SIM"] = "GET_INFO"
             /\ todo' = nested \o Tail(todo) /\ (nested = <<>> => todo' = Tail(todo))
  <2>1. PICK ev \in ImsiEvents : Handle("SIM", ev, sim_in_events, nested)
    BY <1>8 DEF ImsiRead, ImsiEvents
  <2>2. at["SIM"] # "IDLE"
    BY <2>1 DEF Handle, sim_in_events, ImsiEvents
  <2> QED
    BY <2>1, <2>2, HandledSim
<1>9. CASE sim_st_ready_on_enter
  <2>1. /\ Arriving("SIM") /\ at["SIM"] = "GET_INFO"
        /\ todo' = <<Ready>> \o Tail(todo)
    BY <1>3, <1>8, <1>9 DEF sim_st_ready_on_enter
  <2>2. /\ at' \in [{"MODEM", "SIM"} -> ModemStates \cup SimStateNames]
        /\ at'["MODEM"] = at["MODEM"] /\ at'["SIM"] = "READY"
        /\ Send({}) /\ UNCHANGED <<timer, T>>
    BY <1>9, <2>1, EnteredSim DEF sim_st_ready_on_enter
  <2>3. UNCHANGED <<services, gone, simVars>>
    BY <1>9 DEF sim_st_ready_on_enter
  <2>4. SimSteps("READY", {})
    BY <1>1, <1>4, <2>1, <2>2, <2>3 DEF SimSteps, SimMoves, Tells, SimAsks, simVars
  <2> QED
    BY <1>2, <2>4
<1>10. CASE sim_st_get_info_fails
  <2>1. Arriving("SIM") /\ at["SIM"] = "GET_INFO" /\ todo' = Tail(todo)
    BY <1>3, <1>8, <1>10 DEF sim_st_get_info_fails
  <2>2. UNCHANGED <<services, gone, simVars>>
    BY <1>10 DEF sim_st_get_info_fails
  <2>3. CASE ChangeSim(sim_out_states, "FAIL_NO_SIM_PRESENT", {})
    <3>1. /\ at' \in [{"MODEM", "SIM"} -> ModemStates \cup SimStateNames]
          /\ at'["MODEM"] = at["MODEM"] /\ at'["SIM"] = "FAIL_NO_SIM_PRESENT"
          /\ Send({}) /\ UNCHANGED <<timer, T>>
      BY <2>1, <2>3, EnteredSim
    <3>2. SimSteps("FAIL_NO_SIM_PRESENT", {})
      BY <1>1, <1>4, <2>1, <2>2, <3>1 DEF SimSteps, SimMoves, Tells, SimAsks, simVars
    <3> QED
      BY <1>2, <3>2
  <2>4. CASE ChangeSim(sim_out_states, "FAILED", {})
    <3>1. "FAILED" \notin sim_out_states[at["SIM"]]
      BY <2>1 DEF sim_out_states
    <3>2. UNCHANGED <<at, asked, crashed, timer, T>>
      BY <2>4, <3>1 DEF ChangeSim
    <3>3. Send({}) /\ at["SIM"] \in SimStateNames
      BY <1>1, <3>2, SendNothing DEF EngineOK
    <3>4. SimSteps(at["SIM"], {})
      BY <1>1, <1>4, <2>1, <2>2, <3>2, <3>3 DEF SimSteps, SimMoves, Tells, SimAsks, simVars, EngineOK
    <3> QED
      BY <3>3, <3>4
  <2> QED
    BY <1>10, <2>3, <2>4 DEF sim_st_get_info_fails
<1>11. CASE sim_st_chv_pin_on_enter
  <2> DEFINE R == IF MayTryPin THEN {"verify_pin"} ELSE {}
  <2>1. /\ Arriving("SIM") /\ at["SIM"] = "GET_INFO" /\ Head(todo).ev \in ImsiEvents
        /\ todo' = Tail(todo)
    BY <1>3, <1>8, <1>11 DEF sim_st_chv_pin_on_enter
  <2>2. /\ at' \in [{"MODEM", "SIM"} -> ModemStates \cup SimStateNames]
        /\ at'["MODEM"] = at["MODEM"] /\ at'["SIM"] = "CHV_PIN"
        /\ Send(R) /\ UNCHANGED <<timer, T>>
    BY <1>11, <2>1, EnteredSim DEF sim_st_chv_pin_on_enter
  <2>3. UNCHANGED <<services, gone, config, card>>
    BY <1>11 DEF sim_st_chv_pin_on_enter
  <2>4. Remembers(R)
    <3>1. sim' = [sim EXCEPT !.pinTried = @ \/ MayTryPin] /\ sim.state = "PIN_REQUIRED"
      BY <1>11 DEF sim_st_chv_pin_on_enter
    <3>2. CASE MayTryPin
      <4>1. sim' = [sim EXCEPT !.pinTried = TRUE]
        BY <3>1, <3>2
      <4>2. R = {"verify_pin"}
        BY <3>2
      <4> HIDE DEF R
      <4> QED
        BY <1>1, <3>1, <3>2, <4>1, <4>2 DEF Remembers, SimRecord, MayTryPin
    <3>3. CASE ~MayTryPin
      <4>1. sim' = [sim EXCEPT !.pinTried = sim.pinTried]
        BY <1>1, <3>1, <3>3 DEF SimRecord
      <4>2. R = {} /\ sim' = sim
        BY <1>1, <3>3, <4>1 DEF SimRecord
      <4> QED
        BY <1>4, <4>2
    <3> QED
      BY <3>2, <3>3
  <2>5. R \in SUBSET {"verify_pin"}
    OBVIOUS
  <2> HIDE DEF R
  <2>6. SimSteps("CHV_PIN", R)
    BY <1>1, <2>1, <2>2, <2>3, <2>4, <2>5 DEF SimSteps, SimMoves, Tells, SimAsks
  <2> QED
    BY <1>2, <2>5, <2>6
<1>12. CASE sim_st_chv_puk_on_enter
  <2> DEFINE R == IF MayTryPuk THEN {"unblock_pin"} ELSE {}
  <2>1. /\ Arriving("SIM") /\ at["SIM"] = "GET_INFO" /\ Head(todo).ev \in ImsiEvents
        /\ todo' = Tail(todo)
    BY <1>3, <1>8, <1>12 DEF sim_st_chv_puk_on_enter
  <2>2. /\ at' \in [{"MODEM", "SIM"} -> ModemStates \cup SimStateNames]
        /\ at'["MODEM"] = at["MODEM"] /\ at'["SIM"] = "CHV_PUK"
        /\ Send(R) /\ UNCHANGED <<timer, T>>
    BY <1>12, <2>1, EnteredSim DEF sim_st_chv_puk_on_enter
  <2>3. UNCHANGED <<services, gone, config, card>>
    BY <1>12 DEF sim_st_chv_puk_on_enter
  <2>4. Remembers(R)
    <3>1. sim' = [sim EXCEPT !.pukTried = @ \/ MayTryPuk] /\ sim.state = "PUK_REQUIRED"
      BY <1>12 DEF sim_st_chv_puk_on_enter
    <3>2. CASE MayTryPuk
      <4>1. sim' = [sim EXCEPT !.pukTried = TRUE]
        BY <3>1, <3>2
      <4>2. R = {"unblock_pin"}
        BY <3>2
      <4> HIDE DEF R
      <4> QED
        BY <1>1, <3>1, <3>2, <4>1, <4>2 DEF Remembers, SimRecord, MayTryPuk
    <3>3. CASE ~MayTryPuk
      <4>1. sim' = [sim EXCEPT !.pukTried = sim.pukTried]
        BY <1>1, <3>1, <3>3 DEF SimRecord
      <4>2. R = {} /\ sim' = sim
        BY <1>1, <3>3, <4>1 DEF SimRecord
      <4> QED
        BY <1>4, <4>2
    <3> QED
      BY <3>2, <3>3
  <2>5. R \in SUBSET {"unblock_pin"}
    OBVIOUS
  <2> HIDE DEF R
  <2>6. SimSteps("CHV_PUK", R)
    BY <1>1, <2>1, <2>2, <2>3, <2>4, <2>5 DEF SimSteps, SimMoves, Tells, SimAsks
  <2> QED
    BY <1>2, <2>5, <2>6
<1>13. CASE Drop("SIM", sim_in_events, {}) /\ UNCHANGED simVars
  <2>1. /\ Arriving("SIM") /\ todo' = Tail(todo)
        /\ UNCHANGED <<at, timer, T, asked, services, crashed, gone, simVars>>
    BY <1>13 DEF Drop
  <2>2. Send({}) /\ at["SIM"] \in SimStateNames
    BY <1>1, <2>1, SendNothing DEF EngineOK
  <2>3. SimSteps(at["SIM"], {})
    BY <1>1, <1>4, <2>1, <2>2 DEF SimSteps, SimMoves, Tells, SimAsks, simVars, EngineOK
  <2> QED
    BY <2>2, <2>3
<1> QED
  BY <1>5, <1>6, <1>7, <1>9, <1>10, <1>11, <1>12, <1>13 DEF SimHandler


(***************************************************************************)
(* The card.                                                                *)
(***************************************************************************)

CardTyped == sim \in SimRecord /\ card \in Seq(Application)

(* The first usable application is one of the card.                         *)
LEMMA ActiveIs ==
  ASSUME CardTyped, Usable
  PROVE  /\ Active \in DOMAIN card /\ card[Active].usable
         /\ \A k \in 1 .. Active - 1 : ~card[k].usable
<1> DEFINE S == {j \in DOMAIN card : card[j].usable}
           R == {p \in Nat \X Nat : p[1] < p[2]}
<1>1. S \in SUBSET Nat /\ S # {} /\ DOMAIN card = 1 .. Len(card) /\ Len(card) \in Nat
  BY DEF Usable, CardTyped
<1>2. IsWellFoundedOn(R, Nat)
  <2>1. OpToRel(<, Nat) = R
    BY Zenon DEF OpToRel
  <2> QED
    BY <2>1, NatLessThanWellFounded, Zenon
<1>3. PICK j \in S : \A k \in S : ~(<<k, j>> \in R)
  <2> HIDE DEF R, S
  <2> QED
    BY <1>1, <1>2, WFMin
<1>4. ASSUME NEW k \in 1 .. j - 1 PROVE ~card[k].usable
  <2>1. k \in Nat /\ k \in DOMAIN card /\ j \in Nat /\ k < j
    BY <1>1
  <2>2. <<k, j>> \in R
    BY <2>1
  <2> QED
    BY <2>1, <2>2, <1>3
<1> HIDE DEF S, R
<1>5. j \in DOMAIN card /\ card[j].usable
  BY DEF S
<1> QED
  BY <1>4, <1>5 DEF Active

LEMMA WrongPinType ==
  ASSUME NEW app \in Application, app.pinState = "NOT_VERIFIED"
  PROVE  /\ WrongPin(app) \in Application /\ WrongPin(app).usable = app.usable
         /\ WrongPin(app).puk = app.puk
         /\ app.pin >= 2 => WrongPin(app).pinState = "NOT_VERIFIED"
<1> DEFINE left == app.pin - 1
           then == IF app.pin > 1 THEN app.pinState
                   ELSE IF app.puk > 0 THEN "BLOCKED" ELSE "PERMANENTLY_BLOCKED"
<1>1. /\ app.pin \in Retries /\ app.puk \in Retries /\ app.pin > 0 /\ app.usable \in BOOLEAN
      /\ app \in [usable : BOOLEAN, pinState : PinStates, pin : Retries, puk : Retries]
  BY DEF Application
<1>2. left \in Retries /\ then \in PinStates
  BY <1>1 DEF Retries, PinStates
<1>3. /\ then = "NOT_VERIFIED" => left > 0
      /\ then = "BLOCKED" => app.puk > 0
      /\ app.pin >= 2 => then = "NOT_VERIFIED"
  BY <1>1 DEF Retries
<1>4. WrongPin(app) = [[app EXCEPT !.pin = left] EXCEPT !.pinState = then]
  BY <1>1 DEF WrongPin
<1> HIDE DEF left, then
<1> QED
  BY <1>1, <1>2, <1>3, <1>4 DEF Application

LEMMA WrongPukType ==
  ASSUME NEW app \in Application, app.pinState = "BLOCKED"
  PROVE  /\ WrongPuk(app) \in Application /\ WrongPuk(app).usable = app.usable
         /\ WrongPuk(app).pin = app.pin
         /\ app.puk >= 2 => WrongPuk(app).pinState = "BLOCKED"
<1> DEFINE left == app.puk - 1
           then == IF app.puk = 1 THEN "PERMANENTLY_BLOCKED" ELSE app.pinState
<1>1. /\ app.pin \in Retries /\ app.puk \in Retries /\ app.puk > 0 /\ app.usable \in BOOLEAN
      /\ app \in [usable : BOOLEAN, pinState : PinStates, pin : Retries, puk : Retries]
  BY DEF Application
<1>2. left \in Retries /\ then \in PinStates
  BY <1>1 DEF Retries, PinStates
<1>3. /\ then = "BLOCKED" => left > 0
      /\ then # "NOT_VERIFIED"
      /\ app.puk >= 2 => then = "BLOCKED"
  BY <1>1 DEF Retries
<1>4. WrongPuk(app) = [[app EXCEPT !.puk = left] EXCEPT !.pinState = then]
  BY <1>1 DEF WrongPuk
<1> HIDE DEF left, then
<1>5. /\ WrongPuk(app) \in [usable : BOOLEAN, pinState : PinStates, pin : Retries, puk : Retries]
      /\ WrongPuk(app).usable = app.usable /\ WrongPuk(app).pin = app.pin
      /\ WrongPuk(app).puk = left /\ WrongPuk(app).pinState = then
  BY <1>1, <1>2, <1>4
<1> QED
  BY <1>3, <1>5 DEF Application

LEMMA UnlockedType ==
  ASSUME NEW app \in Application
  PROVE  /\ Unlocked(app) \in Application /\ Unlocked(app).usable = app.usable
         /\ Unlocked(app).puk = app.puk /\ Unlocked(app).pin >= 2
         /\ Unlocked(app).pinState = "VERIFIED"
<1>1. 3 \in Retries /\ "VERIFIED" \in PinStates
  BY DEF Retries, PinStates
<1>2. app \in [usable : BOOLEAN, pinState : PinStates, pin : Retries, puk : Retries]
  BY DEF Application
<1>3. Unlocked(app) = [[app EXCEPT !.pin = 3] EXCEPT !.pinState = "VERIFIED"]
  BY <1>2 DEF Unlocked
<1>4. /\ Unlocked(app) \in [usable : BOOLEAN, pinState : PinStates, pin : Retries, puk : Retries]
      /\ Unlocked(app).usable = app.usable /\ Unlocked(app).pin = 3
      /\ Unlocked(app).puk = app.puk /\ Unlocked(app).pinState = "VERIFIED"
  BY <1>1, <1>2, <1>3
<1> QED
  BY <1>4 DEF Application

(* A request that tries a PIN or a PUK changes one application, and the     *)
(* tries known are those of that application or the old ones.               *)
Changed(app) ==
    /\ card' = [card EXCEPT ![Active] = app]
    /\ \/ sim' = [sim EXCEPT !.pinRetries = app.pin, !.pukRetries = app.puk]
       \/ UNCHANGED sim

LEMMA ChangedIs ==
  ASSUME CardTyped, Usable, NEW app \in Application, app.usable = card[Active].usable,
         Changed(app)
  PROVE  /\ CardTyped' /\ Usable' /\ DOMAIN card' = DOMAIN card
         /\ \A j \in DOMAIN card : card'[j].usable = card[j].usable
         /\ card'[Active] = app /\ \A j \in DOMAIN card \ {Active} : card'[j] = card[j]
         /\ sim'.state = sim.state
         /\ sim'.pinTried = sim.pinTried /\ sim'.pukTried = sim.pukTried
         /\ \/ sim'.pinRetries = sim.pinRetries /\ sim'.pukRetries = sim.pukRetries
            \/ sim'.pinRetries = app.pin /\ sim'.pukRetries = app.puk
<1>1. Active \in DOMAIN card /\ card[Active].usable
  BY ActiveIs
<1>2. /\ card' \in Seq(Application) /\ DOMAIN card' = DOMAIN card
      /\ card'[Active] = app /\ \A j \in DOMAIN card \ {Active} : card'[j] = card[j]
  <2> HIDE DEF Active
  <2> QED
    BY <1>1 DEF Changed, CardTyped
<1>3. Usable' /\ \A j \in DOMAIN card : card'[j].usable = card[j].usable
  BY <1>1, <1>2 DEF Usable
<1>4. app.pin \in Retries /\ app.puk \in Retries
  BY DEF Application
<1>5. CASE sim' = [sim EXCEPT !.pinRetries = app.pin, !.pukRetries = app.puk]
  <2>1. /\ sim' \in SimRecord /\ sim'.state = sim.state
        /\ sim'.pinTried = sim.pinTried /\ sim'.pukTried = sim.pukTried
        /\ sim'.pinRetries = app.pin /\ sim'.pukRetries = app.puk
    BY <1>4, <1>5 DEF CardTyped, SimRecord
  <2> QED
    BY <1>2, <1>3, <2>1 DEF CardTyped
<1>6. CASE UNCHANGED sim
  BY <1>2, <1>3, <1>6 DEF CardTyped
<1> QED
  BY <1>5, <1>6 DEF Changed

LEMMA PinTriedIs ==
  ASSUME CardTyped, Usable, PinTried
  PROVE  \/ /\ card[Active].pinState = "NOT_VERIFIED" 
            /\ Changed(WrongPin(card[Active]))
         \/ Changed(Unlocked(card[Active]))
<1>1. Active \in DOMAIN card
  BY ActiveIs
<1>2. ASSUME NEW app, card' = [card EXCEPT ![Active] = app]
      PROVE  card'[Active]  = app
  BY <1>1, <1>2 DEF CardTyped
<1>3. CASE card[Active].pinState = "NOT_VERIFIED" /\ card' = [card EXCEPT ![Active] = WrongPin(@)]
  <2> DEFINE app == WrongPin(card[Active])
  <2>1. card' = [card EXCEPT ![Active] = app]
    BY <1>3
  <2> HIDE DEF app
  <2>2. card'[Active] = app
    BY <2>1, <1>2
  <2>3. RetriesReported(app)
    BY <2>2 DEF PinTried
  <2> QED
    BY <1>3, <2>1, <2>3 DEF Changed, RetriesReported, app
<1>4. CASE card' = [card EXCEPT ![Active] = Unlocked(@)]
  <2> DEFINE app == Unlocked(card[Active])
  <2>1. card' = [card EXCEPT ![Active] = app]
    BY <1>4
  <2> HIDE DEF app
  <2>2. card'[Active] = app
    BY <2>1, <1>2
  <2>3. RetriesReported(app)
    BY <2>2 DEF PinTried
  <2> QED
    BY <2>1, <2>3 DEF Changed, RetriesReported, app
<1> QED
  BY <1>3, <1>4 DEF PinTried

LEMMA PukTriedIs ==
  ASSUME CardTyped, Usable, PukTried
  PROVE  \/ /\ card[Active].pinState = "BLOCKED"
            /\ Changed(WrongPuk(card[Active]))
         \/ Changed(Unlocked(card[Active]))
<1>1. Active \in DOMAIN card
  BY ActiveIs
<1>2. ASSUME NEW app, card' = [card EXCEPT ![Active] = app]
      PROVE  card'[Active]  = app
  BY <1>1, <1>2 DEF CardTyped
<1>3. CASE card[Active].pinState = "BLOCKED" /\ card' = [card EXCEPT ![Active] = WrongPuk(@)]
  <2> DEFINE app == WrongPuk(card[Active])
  <2>1. card' = [card EXCEPT ![Active] = app]
    BY <1>3
  <2> HIDE DEF app
  <2>2. card'[Active] = app
    BY <2>1, <1>2
  <2>3. RetriesReported(app)
    BY <2>2 DEF PukTried
  <2> QED
    BY <1>3, <2>1, <2>3 DEF Changed, RetriesReported, app
<1>4. CASE card' = [card EXCEPT ![Active] = Unlocked(@)]
  <2> DEFINE app == Unlocked(card[Active])
  <2>1. card' = [card EXCEPT ![Active] = app]
    BY <1>4
  <2> HIDE DEF app
  <2>2. card'[Active] = app
    BY <2>1, <1>2
  <2>3. RetriesReported(app)
    BY <2>2 DEF PukTried
  <2> QED
    BY <2>1, <2>3 DEF Changed, RetriesReported, app
<1> QED
  BY <1>3, <1>4 DEF PukTried

(* The card status is read from the first application, and only from a card *)
(* that has one to use.                                                     *)
LEMMA StatusReadIs ==
  ASSUME CardTyped, StatusRead
  PROVE  /\ CardTyped' /\ Usable /\ UNCHANGED card /\ 1 \in DOMAIN card
         /\ sim'.pinRetries = card[1].pin /\ sim'.pukRetries = card[1].puk
         /\ sim'.pinTried = sim.pinTried /\ sim'.pukTried = sim.pukTried
<1>1. 1 \in DOMAIN card
  BY DEF StatusRead, Usable, CardTyped
<1>2. card[1].pinState \in PinStates /\ card[1].pin \in Retries /\ card[1].puk \in Retries
  BY <1>1 DEF CardTyped, Application
<1> DEFINE s == uim_pin_to_uqmi_state[card[1].pinState]
<1>3. s \in SimStates
  BY <1>2 DEF PinStates, SimStates, uim_pin_to_uqmi_state
<1>4. sim' = [sim EXCEPT !.state = s, !.pinRetries = card[1].pin, !.pukRetries = card[1].puk]
  BY DEF StatusRead, Read
<1> HIDE DEF s
<1> QED
  BY <1>1, <1>2, <1>3, <1>4 DEF StatusRead, CardTyped, SimRecord

(* What a callback leaves of the card: its applications, and one to use     *)
(* whenever it asks for something.                                          *)
LEMMA CardKept ==
  ASSUME CardTyped, NEW r, CardStep(r),
         r = "verify_pin" \/ r = "unblock_pin" => Usable
  PROVE  /\ CardTyped'
         /\ Usable' <=> Usable
         /\ sim'.state = sim.state \/ Usable
<1>1. CASE UNCHANGED <<sim, card>>
  BY <1>1 DEF CardTyped, Usable
<1>2. CASE StatusRead
  BY <1>2, StatusReadIs DEF Usable
<1>3. CASE r = "verify_pin" /\ PinTried
  <2>1. Usable /\ card[Active] \in Application
    BY <1>3, ActiveIs DEF CardTyped
  <2>2. CASE card[Active].pinState = "NOT_VERIFIED" /\ Changed(WrongPin(card[Active]))
    BY <2>1, <2>2, WrongPinType, ChangedIs
  <2>3. CASE Changed(Unlocked(card[Active]))
    BY <2>1, <2>3, UnlockedType, ChangedIs
  <2> QED
    BY <1>3, <2>1, <2>2, <2>3, PinTriedIs
<1>4. CASE r = "unblock_pin" /\ PukTried
  <2>1. Usable /\ card[Active] \in Application
    BY <1>4, ActiveIs DEF CardTyped
  <2>2. CASE card[Active].pinState = "BLOCKED" /\ Changed(WrongPuk(card[Active]))
    BY <2>1, <2>2, WrongPukType, ChangedIs
  <2>3. CASE Changed(Unlocked(card[Active]))
    BY <2>1, <2>3, UnlockedType, ChangedIs
  <2> QED
    BY <1>4, <2>1, <2>2, <2>3, PukTriedIs
<1> QED
  BY <1>1, <1>2, <1>3, <1>4 DEF CardStep


(***************************************************************************)
(* The inductive invariant, and what each kind of step does to it.          *)
(***************************************************************************)

IInv == EngineOK /\ Timing /\ WorldOK /\ CardOK /\ Telling /\ Agreeing /\ Serving

LEMMA OnlyDataFormat ==
  /\ \A r \in Kinds : ServiceOf[r] = "WDA" <=> r = "data_format"
  /\ "WDA" \in Services /\ "UIM" \in Services
  /\ ServiceOf["read_imsi"] = "UIM"
  /\ {"read_imsi", "verify_pin", "unblock_pin", "data_format"} \subseteq Kinds
BY KindsAre, ServicesAre DEF ServiceOf

LEMMA AskedThere ==
  ASSUME NEW r, IsAsked(r)
  PROVE  asked[ServiceOf[r]] # <<>>
BY DEF IsAsked

LEMMA AppendedOnce ==
  ASSUME NEW q, NEW r, q = <<>>
  PROVE  Len(Append(q, r)) = 1
OBVIOUS

(* A list that was taken from, and one that was added to.                   *)
LEMMA EmptyStays ==
  ASSUME AskedOK, NEW r \in Kinds, NEW posted, Answered(r, posted), NEW s \in Services
  PROVE  /\ asked'[s] # <<>> => asked[s] # <<>>
         /\ ServiceOf[r] # s => asked'[s] = asked[s]
         /\ ServiceOf[r] = s /\ Len(asked[s]) = 1 => asked'[s] = <<>>
<1>1. asked[s] \in Seq(Kinds) /\ asked'[s] \in Seq(Kinds)
  BY Answers DEF AskedOK
<1>2. CASE ServiceOf[r] # s
  BY <1>2, Answers
<1>3. CASE ServiceOf[r] = s
  <2>1. Len(asked'[s]) = Len(asked[s]) - 1 /\ asked[s] # <<>>
    BY <1>3, Answers, AskedThere
  <2> QED
    BY <1>1, <1>3, <2>1
<1> QED
  BY <1>2, <1>3

LEMMA CallbackKeeps ==
  ASSUME IInv, Callback
  PROVE  IInv'
<1>1. /\ EngineOK /\ Timing /\ WorldOK /\ CardOK /\ Telling /\ Agreeing /\ Serving
      /\ AskedOK /\ CardTyped
  BY DEF IInv, EngineOK, CardOK, CardTyped
<1>0. PICK r \in Kinds : \E posted : Reports(r, posted) /\ CardStep(r)
  BY <1>1, CallbackReports
<1>2. PICK posted : Reports(r, posted) /\ CardStep(r)
  BY <1>0
<1>3. /\ Answered(r, posted) /\ todo = <<>> /\ ~crashed /\ todo' = posted
      /\ UNCHANGED <<at, timer, T, crashed, gone>>
  BY <1>2 DEF Reports, Answered, Idle, Running
<1>4. AskedOK' /\ IsAsked(r)
  BY <1>1, <1>3, Answers
<1>5. EngineOK'
  BY <1>1, <1>2, <1>3, <1>4 DEF EngineOK, Reports
<1>6. Timing'
  BY <1>1, <1>3 DEF Timing
<1>7. WorldOK'
  BY <1>1, <1>2 DEF WorldOK, Reports
<1>8. CardOK'
  <2>1. r = "verify_pin" \/ r = "unblock_pin" => Usable
    BY <1>1, <1>4 DEF CardOK
  <2>2. /\ CardTyped' /\ (Usable' <=> Usable)
        /\ sim'.state = sim.state \/ Usable
    BY <1>1, <1>2, <2>1, CardKept
  <2>3. config' \in Configurations
    BY <1>1, <1>2 DEF CardOK, Reports
  <2>4. IsAsked("verify_pin")' \/ IsAsked("unblock_pin")' => Usable'
    BY <1>1, <1>3, <2>2, AskedBefore, OnlyDataFormat DEF CardOK
  <2>5. sim'.state \in {"PIN_REQUIRED", "PUK_REQUIRED"} => Usable'
    BY <1>1, <2>2 DEF CardOK
  <2> QED
    BY <2>2, <2>3, <2>4, <2>5 DEF CardOK, CardTyped
<1>9. Telling'
  BY <1>1, <1>3 DEF Telling
<1>10. Agreeing'
  <2>1. UNCHANGED link /\ agreed' \in BOOLEAN /\ (agreed => agreed')
    BY <1>2 DEF Reports
  <2>2. RawIpOnly(link)' <=> RawIpOnly(link)
    BY <2>1 DEF RawIpOnly
  <2>3. at["MODEM"] \in {"POWERON", "NETSEARCH", "REGISTERED", "START_IFACE", "LIVE"} =>
          agreed' /\ RawIpOnly(link)'
    BY <1>1, <2>1, <2>2 DEF Agreeing
  <2>4. ASSUME asked'["WDA"] # <<>> PROVE asked'["WDA"] = asked["WDA"]
    <3>1. asked["WDA"] # <<>>
      BY <2>4, <1>1, <1>3, EmptyStays, OnlyDataFormat
    <3>2. Len(asked["WDA"]) = 1
      BY <3>1, <1>1 DEF Agreeing
    <3> QED
      BY <3>2, <2>4, <1>1, <1>3, EmptyStays, OnlyDataFormat
  <2>5. ASSUME NEW i \in DOMAIN posted, posted[i].arg = "data_format"
        PROVE  /\ Len(posted) = 1 /\ posted[i].to = "MODEM" /\ agreed'
               /\ asked'["WDA"] = <<>>
               /\ at["MODEM"] \in {"CONFIGURE_KERNEL", "DESTROY"} /\ RawIpOnly(link)
    <3>1. Len(posted) = 1 /\ posted[i].to = "MODEM" /\ agreed' /\ r = "data_format"
      BY <1>2, <2>5 DEF Reports
    <3>2. ServiceOf[r] = "WDA" /\ asked["WDA"] # <<>>
      BY <3>1, <1>2, <1>4, AskedThere, OnlyDataFormat
    <3>3. /\ Len(asked["WDA"]) = 1
          /\ at["MODEM"] \in {"CONFIGURE_KERNEL", "DESTROY"} /\ RawIpOnly(link)
      BY <3>2, <1>1 DEF Agreeing
    <3>4. asked'["WDA"] = <<>>
      BY <3>2, <3>3, <1>1, <1>3, EmptyStays, OnlyDataFormat
    <3> QED
      BY <3>1, <3>3, <3>4
  <2>6. asked'["WDA"] # <<>> =>
          /\ Len(asked'["WDA"]) = 1
          /\ at'["MODEM"] \in {"CONFIGURE_KERNEL", "DESTROY"}
          /\ RawIpOnly(link)'
    BY <2>2, <2>4, <1>1, <1>3 DEF Agreeing
  <2>7. \A i \in DOMAIN todo' : todo'[i].arg = "data_format" =>
          /\ Len(todo') = 1 /\ todo'[i].to = "MODEM"
          /\ asked'["WDA"] = <<>>
          /\ at'["MODEM"] \in {"CONFIGURE_KERNEL", "DESTROY"}
          /\ agreed' /\ RawIpOnly(link)'
    BY <2>2, <2>5, <1>3
  <2> QED
    BY <2>3, <2>6, <2>7, <1>3 DEF Agreeing
<1>11. Serving'
  <2>1. "CTL" \in services' /\ ~crashed'
    BY <1>1, <1>2, <1>3 DEF Serving, Reports
  <2>2. \A s \in Services : asked'[s] # <<>> => s \in services'
    BY <1>1, <1>2, <1>3, EmptyStays DEF Serving, Reports
  <2>3. ASSUME NEW i \in DOMAIN posted, posted[i].ev \in ImsiEvents PROVE "UIM" \in services'
    <3>1. r = "read_imsi"
      BY <1>2, <2>3 DEF Reports
    <3>2. asked["UIM"] # <<>>
      BY <3>1, <1>4, AskedThere, OnlyDataFormat
    <3> QED
      BY <3>2, <1>1, <1>2, OnlyDataFormat DEF Serving, Reports
  <2> QED
    BY <1>3, <2>1, <2>2, <2>3 DEF Serving, CrashesOnlyForWantOfService
<1> QED
  BY <1>5, <1>6, <1>7, <1>8, <1>9, <1>10, <1>11 DEF IInv

(* What is left of the events to dispatch.                                  *)
LEMMA TailIs ==
  ASSUME todo \in Seq(Posted), todo # <<>>
  PROVE  /\ Tail(todo) \in Seq(Posted) /\ Len(Tail(todo)) = Len(todo) - 1
         /\ 1 \in DOMAIN todo /\ Head(todo) = todo[1]
         /\ \A i \in DOMAIN Tail(todo) : i + 1 \in DOMAIN todo /\ Tail(todo)[i] = todo[i + 1]
OBVIOUS

LEMMA ModemKeeps ==
  ASSUME IInv, ModemHandler
  PROVE  IInv'
<1>1. /\ EngineOK /\ Timing /\ WorldOK /\ CardOK /\ Telling /\ Agreeing /\ Serving
      /\ AskedOK /\ "CTL" \in services
  BY DEF IInv, EngineOK, Serving
<1>2. PICK new \in ModemStates, requests \in SUBSET Kinds : Steps(new, requests)
  BY <1>1, ModemSteps
<1>3. /\ Moves(new, requests) /\ Timing' /\ Carries(new, requests) /\ Asks(new, requests)
      /\ ~(at'["MODEM"] = "WAIT_UIM" /\ at'["SIM"] = "READY")
  BY <1>2 DEF Steps
<1>4. /\ Send(requests) /\ todo # <<>> /\ ~crashed /\ todo' = Tail(todo)
      /\ at'["MODEM"] = new /\ todo \in Seq(Posted)
      /\ UNCHANGED <<services, gone, config, sim, card, radio, coverage>>
  BY <1>1, <1>3 DEF Moves, Arriving, Running, EngineOK
<1>5. /\ AskedOK'
      /\ crashed' = crashed \/ (crashed' = TRUE /\ \E r \in requests : ServiceOf[r] \notin services)
  BY <1>1, <1>4, Sends
<1>6. EngineOK'
  <2>1. at'["SIM"] \in SimStateNames /\ at' \in [{"MODEM", "SIM"} -> ModemStates \cup SimStateNames]
    BY <1>1, <1>3, SimStatesAre DEF Moves, EngineOK
  <2>2. crashed' \in BOOLEAN /\ todo' \in Seq(Posted)
    BY <1>1, <1>4, <1>5, TailIs DEF EngineOK
  <2> QED
    BY <1>1, <1>4, <1>5, <2>1, <2>2 DEF EngineOK
<1>7. WorldOK'
  BY <1>1, <1>3, <1>4 DEF WorldOK, Moves, Carries
<1>8. CardOK'
  <2>1. IsAsked("verify_pin")' => IsAsked("verify_pin")
    BY <1>1, <1>3, <1>4, AskedSince, OnlyDataFormat DEF Moves
  <2>2. IsAsked("unblock_pin")' => IsAsked("unblock_pin")
    BY <1>1, <1>3, <1>4, AskedSince, OnlyDataFormat DEF Moves
  <2> QED
    BY <1>1, <1>4, <2>1, <2>2 DEF CardOK, Usable
<1>9. Telling'
  BY <1>3 DEF Telling
<1>10. Agreeing'
  <2>1. ASSUME NEW i \in DOMAIN todo'
        PROVE  todo'[i].arg # "data_format"
    <3>1. i + 1 \in DOMAIN todo /\ todo'[i] = todo[i + 1] /\ Len(todo) # 1
      BY <1>4, TailIs
    <3> QED
      BY <3>1, <1>1 DEF Agreeing
  <2>2. ForDataFormat => /\ asked["WDA"] = <<>> /\ agreed /\ RawIpOnly(link)
    BY <1>1, <1>4, TailIs DEF Agreeing, ForDataFormat
  <2>3. ASSUME new \in Carried PROVE agreed' /\ RawIpOnly(link)'
    <3>1. at["MODEM"] \in Carried \/ (at["MODEM"] = "CONFIGURE_KERNEL" /\ ForDataFormat)
      BY <2>3, <1>3 DEF Carries
    <3>2. UNCHANGED <<link, agreed>>
      BY <3>1, <1>3 DEF Carries, Carried
    <3>3. agreed /\ RawIpOnly(link)
      BY <3>1, <2>2, <1>1 DEF Agreeing, Carried
    <3> QED
      BY <3>2, <3>3 DEF RawIpOnly
  <2>4. ASSUME asked'["WDA"] # <<>>
        PROVE  /\ Len(asked'["WDA"]) = 1
               /\ new \in {"CONFIGURE_KERNEL", "DESTROY"}
               /\ RawIpOnly(link)'
    <3>1. \/ asked'["WDA"] = asked["WDA"]
          \/ \E r \in requests : /\ ServiceOf[r] = "WDA"
                                 /\ asked'["WDA"] = Append(asked["WDA"], r)
      BY <1>1, <1>4, Appends, OnlyDataFormat
    <3>2. CASE asked'["WDA"] = asked["WDA"]
      <4>1. /\ Len(asked["WDA"]) = 1 /\ RawIpOnly(link) /\ ~ForDataFormat
            /\ at["MODEM"] \in {"CONFIGURE_KERNEL", "DESTROY"}
        BY <2>4, <3>2, <2>2, <1>1 DEF Agreeing
      <4>2. new \in {"CONFIGURE_KERNEL", "DESTROY"} /\ UNCHANGED link
        BY <4>1, <1>3 DEF Carries
      <4> QED
        BY <4>1, <4>2, <3>2 DEF RawIpOnly
    <3>3. CASE \E r \in requests : /\ ServiceOf[r] = "WDA"
                                   /\ asked'["WDA"] = Append(asked["WDA"], r)
      <4>1. PICK r \in requests : ServiceOf[r] = "WDA" /\ asked'["WDA"] = Append(asked["WDA"], r)
        BY <3>3
      <4>2. r = "data_format"
        BY <4>1, OnlyDataFormat
      <4>3. at["MODEM"] = "CONFIGURE_MODEM" /\ new = "CONFIGURE_KERNEL" /\ RawIpOnly(link')
        BY <4>1, <4>2, <1>3 DEF Carries
      <4>4. asked["WDA"] = <<>>
        BY <4>3, <1>1 DEF Agreeing
      <4> QED
        BY <4>1, <4>3, <4>4, AppendedOnce DEF RawIpOnly
    <3> QED
      BY <3>1, <3>2, <3>3
  <2> QED
    BY <1>4, <2>1, <2>3, <2>4 DEF Agreeing, Carried
<1>11. Serving'
  <2>1. ASSUME NEW s \in Services, asked'[s] # <<>> PROVE s \in services
    BY <2>1, <1>1, <1>4, Appends DEF Serving
  <2>2. ASSUME NEW i \in DOMAIN todo', todo'[i].ev \in ImsiEvents PROVE "UIM" \in services
    <3>1. i + 1 \in DOMAIN todo /\ todo'[i] = todo[i + 1]
      BY <1>4, TailIs
    <3> QED
      BY <3>1, <2>2, <1>1 DEF Serving
  <2>3. ASSUME crashed' PROVE new # "DESTROY" /\ ~({"DMS", "WDS", "WDA", "NAS"} \subseteq services)
    <3>1. PICK r \in requests : ServiceOf[r] \notin services
      BY <2>3, <1>4, <1>5
    <3> QED
      BY <3>1, <1>3 DEF Asks
  <2> QED
    BY <1>1, <1>4, <2>1, <2>2, <2>3 DEF Serving, CrashesOnlyForWantOfService, State
<1> QED
  BY <1>3, <1>6, <1>7, <1>8, <1>9, <1>10, <1>11 DEF IInv


LEMMA SimKeeps ==
  ASSUME IInv, SimHandler, UNCHANGED modemVars
  PROVE  IInv'
<1>1. /\ EngineOK /\ Timing /\ WorldOK /\ CardOK /\ Telling /\ Agreeing /\ Serving
      /\ AskedOK /\ "CTL" \in services
  BY DEF IInv, EngineOK, Serving
<1>2. PICK new \in SimStateNames, requests \in SUBSET Kinds : SimSteps(new, requests)
  BY <1>1, SimHandlerSteps
<1>3. SimMoves(new, requests) /\ Tells(new) /\ SimAsks(requests) /\ Remembers(requests)
  BY <1>2 DEF SimSteps
<1>4. /\ Send(requests) /\ todo # <<>> /\ ~crashed /\ Head(todo).to = "SIM"
      /\ at'["MODEM"] = at["MODEM"] /\ at'["SIM"] = new /\ todo \in Seq(Posted)
      /\ UNCHANGED <<timer, T, services, gone, config, card, error, link, agreed, radio, coverage>>
  BY <1>1, <1>3 DEF SimMoves, Arriving, Running, EngineOK, modemVars
<1>5. /\ AskedOK'
      /\ crashed' = crashed \/ (crashed' = TRUE /\ \E r \in requests : ServiceOf[r] \notin services)
  BY <1>1, <1>4, Sends
<1>6. "UIM" \in services \/ requests = {}
  BY <1>1, <1>3, <1>4, TailIs DEF SimAsks, Serving
<1>7. /\ requests \subseteq {"card_status", "read_imsi", "verify_pin", "unblock_pin"}
      /\ \A r \in requests : ServiceOf[r] = "UIM" /\ ServiceOf[r] \in services
  BY <1>3, <1>6 DEF SimAsks, ServiceOf
<1>8. ~crashed'
  BY <1>4, <1>5, <1>7
<1>9. /\ todo' \in Seq(Posted)
      /\ \A i \in DOMAIN todo' : todo'[i] = Ready \/ \E j \in DOMAIN todo : todo'[i] = todo[j]
  <2>1. Ready \in Posted
    BY DEF Ready, ToModem, Event, Posted, EventNames, Arguments
  <2> DEFINE t == Tail(todo)
  <2>2. /\ t \in Seq(Posted)
        /\ \A i \in DOMAIN t : i + 1 \in DOMAIN todo /\ t[i] = todo[i + 1]
    BY <1>4, TailIs
  <2>3. todo' = t \/ todo' = <<Ready>> \o t
    BY <1>3 DEF Tells
  <2> HIDE DEF Ready, t
  <2>4. CASE todo' = t
    BY <2>2, <2>4
  <2>5. CASE todo' = <<Ready>> \o t
    <3>1. todo' \in Seq(Posted) /\ Len(todo') = Len(t) + 1 /\ todo'[1] = Ready
      BY <2>1, <2>2, <2>5
    <3>2. ASSUME NEW i \in DOMAIN todo', i # 1
          PROVE  i - 1 \in DOMAIN t /\ todo'[i] = t[i - 1] /\ (i - 1) + 1 = i
      BY <2>2, <2>5, <3>1, <3>2
    <3>3. ASSUME NEW i \in DOMAIN todo', i # 1
          PROVE  \E j \in DOMAIN todo : todo'[i] = todo[j]
      BY <2>2, <3>2, <3>3
    <3> QED
      BY <3>1, <3>3
  <2> QED
    BY <2>3, <2>4, <2>5
<1>10. Ready.ev \notin ImsiEvents /\ Ready.arg # "data_format"
  BY DEF Ready, ToModem, Event, ImsiEvents
<1>11. EngineOK'
  BY <1>1, <1>3, <1>4, <1>5, <1>9 DEF EngineOK, SimMoves
<1>12. Timing'
  BY <1>1, <1>4 DEF Timing
<1>13. WorldOK'
  BY <1>1, <1>4 DEF WorldOK
<1>14. CardOK'
  <2>1. IsAsked("verify_pin")' => IsAsked("verify_pin") \/ "verify_pin" \in requests
    BY <1>1, <1>4, AskedSince, OnlyDataFormat
  <2>2. IsAsked("unblock_pin")' => IsAsked("unblock_pin") \/ "unblock_pin" \in requests
    BY <1>1, <1>4, AskedSince, OnlyDataFormat
  <2>3. /\ sim' \in SimRecord /\ sim'.state = sim.state
        /\ "verify_pin" \in requests \/ "unblock_pin" \in requests =>
              sim.state \in {"PIN_REQUIRED", "PUK_REQUIRED"}
    BY <1>3 DEF Remembers
  <2>4. Usable' <=> Usable
    BY <1>4 DEF Usable
  <2> QED
    BY <1>1, <1>4, <2>1, <2>2, <2>3, <2>4 DEF CardOK
<1>15. Telling'
  <2> SUFFICES ASSUME at'["MODEM"] = "WAIT_UIM", at'["SIM"] = "READY"
               PROVE  todo' # <<>> /\ Head(todo') = Ready
    BY DEF Telling, Ready
  <2>1. at["SIM"] # "READY"
    <3> SUFFICES ASSUME at["SIM"] = "READY" PROVE FALSE
      OBVIOUS
    <3>1. Head(todo) = ToModem("REQ_SIM_READY")
      BY <1>1, <1>4 DEF Telling
    <3> QED
      BY <3>1, <1>4 DEF ToModem, Event
  <2>2. todo' = <<Ready>> \o Tail(todo)
    BY <1>3, <1>4, <2>1 DEF Tells
  <2> HIDE DEF Ready
  <2> QED
    BY <2>2, <1>4, TailIs
<1>16. Agreeing'
  <2>1. asked'["WDA"] = asked["WDA"]
    <3>1. ASSUME NEW r \in requests PROVE ServiceOf[r] # "WDA"
      BY <1>7
    <3> QED
      BY <3>1, <1>1, <1>4, Appends, OnlyDataFormat
  <2>2. ASSUME NEW i \in DOMAIN todo' PROVE todo'[i].arg # "data_format"
    <3>1. ASSUME NEW j \in DOMAIN todo, todo[j].arg = "data_format" PROVE FALSE
      <4>1. Len(todo) = 1 /\ todo[j].to = "MODEM"
        BY <3>1, <1>1 DEF Agreeing
      <4>2. Head(todo) = todo[j]
        BY <4>1, <1>4
      <4> QED
        BY <4>1, <4>2, <1>4
    <3> QED
      BY <3>1, <1>9, <1>10
  <2>3. RawIpOnly(link)' <=> RawIpOnly(link)
    BY <1>4 DEF RawIpOnly
  <2> QED
    BY <1>1, <1>4, <2>1, <2>2, <2>3 DEF Agreeing
<1>17. Serving'
  <2>1. ASSUME NEW s \in Services, asked'[s] # <<>> PROVE s \in services
    BY <2>1, <1>1, <1>4, Appends DEF Serving
  <2>2. ASSUME NEW i \in DOMAIN todo', todo'[i].ev \in ImsiEvents PROVE "UIM" \in services
    BY <2>2, <1>1, <1>9, <1>10 DEF Serving
  <2> QED
    BY <1>1, <1>4, <1>8, <2>1, <2>2 DEF Serving, CrashesOnlyForWantOfService
<1> QED
  BY <1>11, <1>12, <1>13, <1>14, <1>15, <1>16, <1>17 DEF IInv

(* The other steps: nothing is being dispatched when they are taken.        *)

(* A timer that asks again.                                                 *)
LEMMA AsksAgain ==
  ASSUME IInv, Idle, NEW requests \in SUBSET Kinds, Send(requests),
         requests \cap {"read_imsi", "verify_pin", "unblock_pin", "data_format"} = {},
         at["MODEM"] # "DESTROY",
         \A r \in requests : ServiceOf[r] \in {"DMS", "WDS", "WDA", "NAS"},
         Timing', UNCHANGED <<at, todo, services, gone, simVars, modemVars>>
  PROVE  IInv'
<1>1. /\ EngineOK /\ WorldOK /\ CardOK /\ Telling /\ Agreeing /\ Serving /\ AskedOK
  BY DEF IInv, EngineOK
<1>2. /\ UNCHANGED <<at, todo, services, gone, config, sim, card, error, link, agreed, radio, coverage>>
      /\ ~crashed /\ todo = <<>>
  BY DEF simVars, modemVars, Idle, Running
<1>3. /\ AskedOK'
      /\ crashed' = crashed \/ (crashed' = TRUE /\ \E r \in requests : ServiceOf[r] \notin services)
  BY <1>1, Sends
<1>4. EngineOK'
  BY <1>1, <1>2, <1>3 DEF EngineOK
<1>5. WorldOK'
  BY <1>1, <1>2 DEF WorldOK
<1>6. CardOK'
  <2>1. IsAsked("verify_pin")' => IsAsked("verify_pin")
    BY <1>1, AskedSince, OnlyDataFormat
  <2>2. IsAsked("unblock_pin")' => IsAsked("unblock_pin")
    BY <1>1, AskedSince, OnlyDataFormat
  <2> QED
    BY <1>1, <1>2, <2>1, <2>2 DEF CardOK, Usable
<1>7. Telling'
  BY <1>1, <1>2 DEF Telling
<1>8. Agreeing'
  <2>1. ASSUME NEW r \in requests PROVE ServiceOf[r] # "WDA"
    BY OnlyDataFormat
  <2>2. asked'["WDA"] = asked["WDA"]
    BY <2>1, <1>1, Appends, OnlyDataFormat
  <2> QED
    BY <1>1, <1>2, <2>2 DEF Agreeing, RawIpOnly
<1>9. Serving'
  <2>1. ASSUME NEW s \in Services, asked'[s] # <<>> PROVE s \in services
    BY <2>1, <1>1, Appends DEF Serving
  <2>2. crashed' => ~({"DMS", "WDS", "WDA", "NAS"} \subseteq services)
    BY <1>2, <1>3
  <2> QED
    BY <1>1, <1>2, <2>1, <2>2 DEF Serving, CrashesOnlyForWantOfService, State
<1> QED
  BY <1>4, <1>5, <1>6, <1>7, <1>8, <1>9 DEF IInv

LEMMA TimerKeeps ==
  ASSUME IInv, TimerCallback
  PROVE  IInv'
<1>1. /\ EngineOK /\ Timing /\ WorldOK /\ CardOK /\ Telling /\ Agreeing /\ Serving /\ AskedOK
      /\ Idle /\ timer
  BY DEF IInv, EngineOK, TimerCallback, TimerPolls, TimerResends, TimerFails, TimerIgnored, Expires
<1>2. {"serving_system"} \in SUBSET Kinds /\ {"start_network"} \in SUBSET Kinds /\ {} \in SUBSET Kinds
  BY KindsAre
<1>3. CASE TimerPolls
  <2>1. /\ Send({"serving_system"}) /\ timer' = TRUE /\ at["MODEM"] = "NETSEARCH"
        /\ UNCHANGED <<at, T, todo, services, gone, simVars, modemVars>>
    BY <1>3 DEF TimerPolls, PollAgain, others
  <2>2. Timing'
    <3>1. timer' \in BOOLEAN /\ timer'
      BY <2>1, Zenon
    <3> QED
      BY <1>1, <2>1, <3>1 DEF Timing
  <2>3. \A r \in {"serving_system"} : ServiceOf[r] \in {"DMS", "WDS", "WDA", "NAS"}
    BY DEF ServiceOf
  <2> QED
    BY <1>1, <1>2, <2>1, <2>2, <2>3, AsksAgain
<1>4. CASE TimerResends
  <2>1. /\ Send({"start_network"}) /\ at["MODEM"] = "START_IFACE"
        /\ UNCHANGED <<at, timer, T, todo, services, gone, simVars, modemVars>>
    BY <1>4 DEF TimerResends, others
  <2>2. Timing'
    BY <1>1, <2>1 DEF Timing
  <2>3. \A r \in {"start_network"} : ServiceOf[r] \in {"DMS", "WDS", "WDA", "NAS"}
    BY DEF ServiceOf
  <2> QED
    BY <1>1, <1>2, <2>1, <2>2, <2>3, AsksAgain
<1>5. CASE TimerFails
  <2>1. at["MODEM"] = "RESYNC"
    BY <1>1, <1>5 DEF TimerFails, Timing
  <2>2. Enter(<<"FAILED">>, FALSE, N_NONE, {})
    BY <1>5 DEF TimerFails
  <2>3. "FAILED" \in modem_out_states[at["MODEM"]] /\ "FAILED" \in ModemStates
    BY <2>1, ModemMayChange, ModemStatesAre
  <2>4. /\ at' \in [{"MODEM", "SIM"} -> ModemStates \cup SimStateNames]
        /\ at'["MODEM"] = "FAILED" /\ at'["SIM"] = at["SIM"]
        /\ timer' = FALSE /\ T' = N_NONE /\ Send({})
    BY <1>1, <2>2, <2>3, EnteredOne
  <2>5. UNCHANGED <<todo, services, gone, config, sim, card, error, link, agreed, radio, coverage>>
    BY <1>5 DEF TimerFails, others, simVars, modemVars
  <2>6. UNCHANGED <<asked, crashed>>
    BY <1>1, <2>4 DEF Send, Queued, AskedOK
  <2>7. Timing'
    BY <2>4, TimerOver
  <2>8. EngineOK'
    BY <1>1, <2>3, <2>4, <2>5, <2>6 DEF EngineOK, AskedOK
  <2>9. WorldOK' /\ CardOK'
    BY <1>1, <2>5, <2>6 DEF WorldOK, CardOK, IsAsked, Usable
  <2>10. Telling' /\ Agreeing'
    BY <1>1, <2>1, <2>4, <2>5, <2>6 DEF Telling, Agreeing, RawIpOnly
  <2>11. Serving'
    <3>1. ~crashed'
      BY <1>1, <2>6 DEF Idle, Running
    <3> QED
      BY <1>1, <2>5, <2>6, <3>1 DEF Serving, CrashesOnlyForWantOfService
  <2> QED
    BY <2>7, <2>8, <2>9, <2>10, <2>11 DEF IInv
<1>6. CASE TimerIgnored
  <2>1. /\ timer' = FALSE /\ at["MODEM"] # "NETSEARCH"
        /\ UNCHANGED <<at, T, asked, crashed, todo, services, gone>>
        /\ UNCHANGED <<config, sim, card, error, link, agreed, radio, coverage>>
    BY <1>6 DEF TimerIgnored, others, simVars, modemVars
  <2>2. Timing'
    <3>1. timer' \in BOOLEAN
      BY <2>1, Zenon
    <3> QED
      BY <1>1, <2>1, <3>1 DEF Timing
  <2>3. EngineOK'
    BY <1>1, <2>1 DEF EngineOK, AskedOK
  <2>4. WorldOK' /\ CardOK'
    BY <1>1, <2>1 DEF WorldOK, CardOK, IsAsked, Usable
  <2>5. Telling' /\ Agreeing'
    BY <1>1, <2>1 DEF Telling, Agreeing, RawIpOnly
  <2>6. Serving'
    BY <1>1, <2>1 DEF Serving, CrashesOnlyForWantOfService, State
  <2> QED
    BY <2>2, <2>3, <2>4, <2>5, <2>6 DEF IInv
<1> QED
  BY <1>3, <1>4, <1>5, <1>6 DEF TimerCallback

(* The user, the device that closes and the world outside.                  *)
Outside == Configure \/ RemoveModem \/ ServiceFreed \/ Freed \/ CoverageComes

LEMMA OutsideKeeps ==
  ASSUME IInv, Outside
  PROVE  IInv'
<1>1. /\ EngineOK /\ Timing /\ WorldOK /\ CardOK /\ Telling /\ Agreeing /\ Serving /\ AskedOK
      /\ Running
  BY DEF IInv, EngineOK, Outside, Configure, RemoveModem, ServiceFreed, Freed, CoverageComes, Idle
<1>2. ASSUME NEW e \in Posted, todo = <<>>, todo' = <<e>>, e.ev \notin ImsiEvents,
             e.arg # "data_format", config' \in Configurations,
             UNCHANGED <<engineBut, sim, card, modemVars>>
      PROVE  IInv'
  <2>1. /\ UNCHANGED <<at, timer, T, asked, services, crashed, gone>>
        /\ UNCHANGED <<sim, card, error, link, agreed, radio, coverage>>
    BY <1>2 DEF engineBut, modemVars
  <2>2. todo' \in Seq(Posted) /\ \A i \in DOMAIN todo' : todo'[i] = e
    BY <1>2
  <2>3. EngineOK'
    BY <1>1, <2>1, <2>2 DEF EngineOK, AskedOK
  <2>4. WorldOK' /\ CardOK' /\ Timing'
    BY <1>1, <1>2, <2>1 DEF WorldOK, CardOK, Timing, IsAsked, Usable
  <2>5. Telling'
    BY <1>1, <1>2, <2>1 DEF Telling
  <2>6. Agreeing'
    BY <1>1, <1>2, <2>1, <2>2 DEF Agreeing, RawIpOnly
  <2>7. Serving'
    BY <1>1, <1>2, <2>1, <2>2 DEF Serving, CrashesOnlyForWantOfService, State
  <2> QED
    BY <2>3, <2>4, <2>5, <2>6, <2>7 DEF IInv
<1>3. CASE Configure
  <2> DEFINE e == ToModem("REQ_CONFIGURED")
  <2>1. e \in Posted /\ e.ev \notin ImsiEvents /\ e.arg # "data_format"
    BY DEF ToModem, Event, Posted, EventNames, Arguments, ImsiEvents
  <2>2. todo = <<>> /\ todo' = <<e>> /\ config' \in Given /\ UNCHANGED <<engineBut, sim, card, modemVars>>
    BY <1>3 DEF Configure, Idle
  <2>3. config' \in Configurations
    BY <2>2, GivenAssumption DEF Configurations
  <2> HIDE DEF e
  <2> QED
    BY <1>2, <2>1, <2>2, <2>3
<1>4. CASE RemoveModem
  <2> DEFINE e == ToModem("REQ_DESTROY")
  <2>1. e \in Posted /\ e.ev \notin ImsiEvents /\ e.arg # "data_format"
    BY DEF ToModem, Event, Posted, EventNames, Arguments, ImsiEvents
  <2>2. todo = <<>> /\ todo' = <<e>> /\ UNCHANGED <<engineBut, config, sim, card, modemVars>>
    BY <1>4 DEF RemoveModem, Idle, simVars
  <2>3. config' \in Configurations
    BY <1>1, <2>2 DEF CardOK
  <2> HIDE DEF e
  <2> QED
    BY <1>2, <2>1, <2>2, <2>3
<1>5. CASE ServiceFreed
  <2>1. PICK s \in services \ {"CTL"} :
           services' = services \ {s} /\ asked' = [asked EXCEPT ![s] = <<>>]
    BY <1>5 DEF ServiceFreed
  <2>2. /\ at["MODEM"] = "DESTROY" /\ todo = <<>> /\ ~crashed
        /\ UNCHANGED <<at, timer, T, todo, crashed, gone>>
        /\ UNCHANGED <<config, sim, card, error, link, agreed, radio, coverage>>
    BY <1>5 DEF ServiceFreed, simVars, modemVars, Idle, Running
  <2>3. s \in Services /\ services' \subseteq Services /\ <<>> \in Seq(Kinds)
    BY <1>1, <2>1 DEF EngineOK
  <2>4. /\ AskedOK' /\ asked'[s] = <<>>
        /\ \A t \in Services : t # s => asked'[t] = asked[t]
    BY <1>1, <2>1, <2>3 DEF AskedOK
  <2>5. \A t \in Services : asked'[t] # <<>> => t # s /\ asked'[t] = asked[t]
    BY <2>4
  <2>6. EngineOK'
    BY <1>1, <2>2, <2>3, <2>4 DEF EngineOK
  <2>7. CardOK'
    <3>1. ASSUME NEW q \in Kinds, IsAsked(q)' PROVE IsAsked(q)
      <4>1. ServiceOf[q] \in Services
        BY ServiceKnown
      <4>2. asked'[ServiceOf[q]] = asked[ServiceOf[q]]
        BY <3>1, <4>1, <2>5 DEF IsAsked
      <4> QED
        BY <3>1, <4>2 DEF IsAsked
    <3>2. (IsAsked("verify_pin")' => IsAsked("verify_pin")) /\ (IsAsked("unblock_pin")' => IsAsked("unblock_pin"))
      BY <3>1, OnlyDataFormat
    <3> QED
      BY <1>1, <2>2, <3>2 DEF CardOK, Usable
  <2>8. WorldOK' /\ Timing' /\ Telling'
    BY <1>1, <2>2 DEF WorldOK, Timing, Telling
  <2>9. Agreeing'
    BY <1>1, <2>2, <2>5, OnlyDataFormat DEF Agreeing, RawIpOnly
  <2>10. Serving'
    BY <1>1, <2>1, <2>2, <2>5 DEF Serving, CrashesOnlyForWantOfService
  <2> QED
    BY <2>6, <2>7, <2>8, <2>9, <2>10 DEF IInv
<1>6. CASE Freed
  <2>1. /\ gone' = TRUE /\ UNCHANGED <<at, timer, T, todo, asked, services, crashed>>
        /\ UNCHANGED <<config, sim, card, error, link, agreed, radio, coverage>>
    BY <1>6 DEF Freed, simVars, modemVars
  <2>2. gone' \in BOOLEAN
    BY <2>1, Zenon
  <2>3. EngineOK'
    BY <1>1, <2>1, <2>2 DEF EngineOK, AskedOK
  <2>4. WorldOK' /\ CardOK' /\ Timing' /\ Telling'
    BY <1>1, <2>1 DEF WorldOK, CardOK, Timing, Telling, IsAsked, Usable
  <2>5. Agreeing'
    BY <1>1, <2>1 DEF Agreeing, RawIpOnly
  <2>6. Serving'
    BY <1>1, <2>1 DEF Serving, CrashesOnlyForWantOfService, State
  <2> QED
    BY <2>3, <2>4, <2>5, <2>6 DEF IInv
<1>7. CASE CoverageComes
  <2>1. /\ coverage' = TRUE /\ UNCHANGED <<at, timer, T, todo, asked, services, crashed, gone>>
        /\ UNCHANGED <<config, sim, card, error, link, agreed, radio>>
    BY <1>7 DEF CoverageComes, simVars, engineVars
  <2>2. coverage' \in BOOLEAN
    BY <2>1, Zenon
  <2>3. EngineOK'
    BY <1>1, <2>1 DEF EngineOK, AskedOK
  <2>4. WorldOK' /\ CardOK' /\ Timing' /\ Telling'
    BY <1>1, <2>1, <2>2 DEF WorldOK, CardOK, Timing, Telling, IsAsked, Usable
  <2>5. Agreeing'
    BY <1>1, <2>1 DEF Agreeing, RawIpOnly
  <2>6. Serving'
    BY <1>1, <2>1 DEF Serving, CrashesOnlyForWantOfService, State
  <2> QED
    BY <2>3, <2>4, <2>5, <2>6 DEF IInv
<1> QED
  BY <1>3, <1>4, <1>5, <1>6, <1>7 DEF Outside


LEMMA InitHolds == Init => IInv
<1> SUFFICES ASSUME Init PROVE IInv
  OBVIOUS
<1>1. /\ at = [MODEM |-> "IDLE", SIM |-> "IDLE"] /\ timer = FALSE /\ T = N_NONE
      /\ todo = <<ToModem("REQ_START")>> /\ asked = [s \in Services |-> <<>>]
      /\ services = {"CTL"} /\ crashed = FALSE /\ gone = FALSE /\ SimInit /\ ModemInit
  BY DEF Init
<1>2. timer \in BOOLEAN /\ crashed \in BOOLEAN /\ gone \in BOOLEAN
  BY <1>1, Zenon
<1>3. /\ at \in [{"MODEM", "SIM"} -> ModemStates \cup SimStateNames]
      /\ at["MODEM"] = "IDLE" /\ at["SIM"] = "IDLE"
      /\ "IDLE" \in ModemStates /\ "IDLE" \in SimStateNames
  BY <1>1, ModemStatesAre, SimStatesAre
<1>4. AskedOK /\ \A s \in Services : asked[s] = <<>>
  BY <1>1 DEF AskedOK
<1>5. \A r \in Kinds : ~IsAsked(r)
  BY <1>4, ServiceKnown DEF IsAsked
<1>6. /\ todo \in Seq(Posted)
      /\ \A i \in DOMAIN todo : todo[i].arg # "data_format" /\ todo[i].ev \notin ImsiEvents
  <2> DEFINE e == ToModem("REQ_START")
  <2>1. e \in Posted /\ e.ev \notin ImsiEvents /\ e.arg # "data_format"
    BY DEF ToModem, Event, Posted, EventNames, Arguments, ImsiEvents
  <2>2. todo = <<e>>
    BY <1>1
  <2> HIDE DEF e
  <2> QED
    BY <2>1, <2>2
<1>7. EngineOK
  BY <1>1, <1>2, <1>3, <1>4, <1>6, ServicesAre DEF EngineOK
<1>8. Timing
  BY <1>1, <1>2, <1>3 DEF Timing, N_NONE, N_RESEND, N_FAILURE
<1>9. WorldOK
  <2>1. error = FALSE /\ link \in Links /\ agreed = FALSE /\ radio \in Radios /\ coverage \in BOOLEAN
    BY <1>1 DEF ModemInit
  <2>2. error \in BOOLEAN /\ agreed \in BOOLEAN
    BY <2>1, Zenon
  <2> QED
    BY <2>1, <2>2, LinksAssumption, RadiosAssumption DEF WorldOK
<1>10. CardOK
  <2>1. /\ config = [configured |-> FALSE, pin |-> FALSE, puk |-> FALSE]
        /\ sim = [state |-> "UNKNOWN", pinRetries |-> 0, pukRetries |-> 0,
                  pinTried |-> FALSE, pukTried |-> FALSE]
        /\ card \in Cards
    BY <1>1 DEF SimInit
  <2>2. config \in Configurations
    BY <2>1 DEF Configurations
  <2>3. sim \in SimRecord
    BY <2>1 DEF SimRecord, SimStates, Retries
  <2> QED
    BY <2>1, <2>2, <2>3, <1>5, CardsAssumption, OnlyDataFormat DEF CardOK
<1>11. Telling
  BY <1>3 DEF Telling
<1>12. Agreeing
  BY <1>3, <1>4, <1>6, OnlyDataFormat DEF Agreeing
<1>13. Serving
  BY <1>1, <1>4, <1>6 DEF Serving, CrashesOnlyForWantOfService
<1> QED
  BY <1>7, <1>8, <1>9, <1>10, <1>11, <1>12, <1>13 DEF IInv

LEMMA StutterKeeps ==
  ASSUME IInv, UNCHANGED vars
  PROVE  IInv'
<1>1. /\ UNCHANGED <<at, timer, T, todo, asked, services, crashed, gone>>
      /\ UNCHANGED <<config, sim, card, error, link, agreed, radio, coverage>>
  BY DEF vars, engineVars, simVars, modemVars
<1>2. EngineOK' /\ WorldOK' /\ CardOK'
  BY <1>1 DEF IInv, EngineOK, WorldOK, CardOK, AskedOK, IsAsked, Usable
<1>3. Timing' /\ Telling'
  BY <1>1 DEF IInv, Timing, Telling
<1>4. Agreeing' /\ Serving'
  BY <1>1 DEF IInv, Agreeing, Serving, RawIpOnly, CrashesOnlyForWantOfService, State
<1> QED
  BY <1>2, <1>3, <1>4 DEF IInv

LEMMA NextKeeps == IInv /\ [Next]_vars => IInv'
<1> SUFFICES ASSUME IInv, [Next]_vars PROVE IInv'
  OBVIOUS
<1>1. CASE Callback
  BY <1>1, CallbackKeeps
<1>2. CASE Handler
  BY <1>2, ModemKeeps, SimKeeps DEF Handler
<1>3. CASE TimerCallback
  BY <1>3, TimerKeeps
<1>4. CASE Outside
  BY <1>4, OutsideKeeps
<1>5. CASE UNCHANGED vars
  BY <1>5, StutterKeeps
<1> QED
  BY <1>1, <1>2, <1>3, <1>4, <1>5 DEF Next, Outside

LEMMA Invariance == Spec => []IInv
BY InitHolds, NextKeeps, PTL DEF Spec

(* Every variable keeps its type, and the number of the timer never         *)
(* outlives the state that started it: N_FAILURE belongs to RESYNC and      *)
(* N_RESEND to START_IFACE (modem_fsm.c, osmo_fsm_inst_state_chg).          *)
THEOREM ModemTypeCorrect == Spec => []ModemTypeOK
<1>1. IInv => ModemTypeOK
  <2> SUFFICES ASSUME IInv PROVE ModemTypeOK
    OBVIOUS
  <2>1. \A i \in DOMAIN todo : todo[i].to \in {"MODEM", "SIM"}
    <3>1. \A i \in DOMAIN todo : todo[i] \in Posted
      BY DEF IInv, EngineOK
    <3> QED
      BY <3>1 DEF Posted
  <2>2. /\ at \in [{"MODEM", "SIM"} -> ModemStates \cup DOMAIN sim_in_events]
        /\ at["MODEM"] \in ModemStates /\ at["SIM"] \in DOMAIN sim_in_events
        /\ asked \in [Services -> Seq(Kinds)] /\ services \subseteq Services
        /\ crashed \in BOOLEAN /\ gone \in BOOLEAN
    BY DEF IInv, EngineOK, SimStateNames, AskedOK
  <2>3. /\ timer \in BOOLEAN /\ T \in {N_NONE, N_RESEND, N_FAILURE}
        /\ T = N_FAILURE => State("MODEM", {"RESYNC"})
        /\ T = N_RESEND => State("MODEM", {"START_IFACE"})
    BY DEF IInv, Timing, State
  <2>4. /\ config \in Configurations /\ sim \in SimRecord /\ card \in Seq(Application)
        /\ error \in BOOLEAN /\ link \in Interface /\ agreed \in BOOLEAN
        /\ radio \in {"online", "low", "other"} /\ coverage \in BOOLEAN
    BY DEF IInv, WorldOK, CardOK
  <2> QED
    BY <2>1, <2>2, <2>3, <2>4 DEF ModemTypeOK
<1> QED
  BY <1>1, Invariance, PTL

(* MODEM never rests in WAIT_UIM while SIM is READY: whichever of the two   *)
(* is there first, the other is told or looks (modem_st_wait_uim_onenter,   *)
(* sim_st_ready_on_enter).                                                  *)
THEOREM SimReadyCorrect == Spec => []NoMissedSimReady
<1>1. IInv => NoMissedSimReady
  BY DEF IInv, Telling, NoMissedSimReady, Idle, State
<1> QED
  BY <1>1, Invariance, PTL

(* Whenever MODEM rests in NETSEARCH the timer that polls the serving       *)
(* system is pending (modem_fsm_timer_cb).                                  *)
THEOREM SearchCorrect == Spec => []SearchIsPolled
<1>1. IInv => SearchIsPolled
  BY DEF IInv, Timing, SearchIsPolled, State
<1> QED
  BY <1>1, Invariance, PTL

(* From POWERON to LIVE the kernel interface is up with the settings of raw *)
(* IP, whatever it was left with and in whatever order the answers arrive,  *)
(* and the modem has agreed to raw IP since they were written.              *)
THEOREM RawIpCorrect == Spec => []CarriesOnlyRawIp
<1>1. IInv => CarriesOnlyRawIp
  BY DEF IInv, Agreeing, CarriesOnlyRawIp, RawIpOnly, State, SetUpForRawIp
<1> QED
  BY <1>1, Invariance, PTL

(* The daemon dereferences a service that is not there only if the modem    *)
(* did not offer DMS, WDS, WDA or NAS, and never while the device closes.   *)
THEOREM CrashCorrect == Spec => []CrashesOnlyForWantOfService
<1>1. IInv => CrashesOnlyForWantOfService
  BY DEF IInv, Serving
<1> QED
  BY <1>1, Invariance, PTL


(***************************************************************************)
(* The tries of the PIN and the PUK, on cards whose first application is    *)
(* the one used, whose tries the daemon reads (run modem_card shows why).   *)
(***************************************************************************)

FirstIsUsed == \A c \in Cards : (\E j \in DOMAIN c : c[j].usable) => c[1].usable

(* A request is outstanding once at most.                                   *)
Once(q) ==
    \A i, j \in DOMAIN asked[ServiceOf[q]] :
       asked[ServiceOf[q]][i] = q /\ asked[ServiceOf[q]][j] = q => i = j

Trying ==
    /\ Usable => card[1].usable
    /\ Once("verify_pin") /\ Once("unblock_pin")
    /\ IsAsked("verify_pin") => sim.pinTried /\ card[1].pin >= 2
    /\ IsAsked("unblock_pin") => sim.pukTried /\ card[1].puk >= 2
    /\ ~sim.pinTried /\ Usable /\ sim.pinRetries >= 2 => card[1].pin >= 2
    /\ ~sim.pukTried /\ Usable /\ sim.pukRetries >= 2 => card[1].puk >= 2

LEMMA ActiveIsFirst ==
  ASSUME CardTyped, Usable, card[1].usable
  PROVE  Active = 1 /\ 1 \in DOMAIN card
<1>1. Active \in DOMAIN card /\ \A k \in 1 .. Active - 1 : ~card[k].usable
  BY ActiveIs
<1>2. DOMAIN card = 1 .. Len(card) /\ Len(card) \in Nat
  BY DEF CardTyped
<1> HIDE DEF Active
<1> QED
  BY <1>1, <1>2

LEMMA OnceAnswered ==
  ASSUME AskedOK, NEW r \in Kinds, NEW posted, Answered(r, posted), NEW q \in Kinds, Once(q)
  PROVE  Once(q)' /\ (r = q => ~IsAsked(q)')
<1> DEFINE t == ServiceOf[r]
           s == ServiceOf[q]
<1>1. t \in Services /\ s \in Services
  BY ServiceKnown
<1>2. asked[t] \in Seq(Kinds) /\ asked[s] \in Seq(Kinds)
  BY <1>1 DEF AskedOK
<1>3. CASE s # t
  <2>1. asked'[s] = asked[s] /\ r # q
    BY <1>1, <1>3, Answers
  <2> QED
    BY <2>1 DEF Once
<1>4. CASE s = t
  <2>1. PICK i \in DOMAIN asked[s] : asked[s][i] = r /\ asked'[s] = RemoveAt(asked[s], i)
    BY <1>4, Answers
  <2> HIDE DEF s, t
  <2>2. \A j \in DOMAIN asked'[s] :
           asked'[s][j] = asked[s][IF j < i THEN j ELSE j + 1]
    BY <1>2, <2>1, RemoveAtType
  <2>3. Len(asked'[s]) = Len(asked[s]) - 1 /\ asked'[s] \in Seq(Kinds) /\ i \in 1 .. Len(asked[s])
    BY <1>2, <2>1, RemoveAtType
  <2>4. \A j \in DOMAIN asked'[s] : j \in Nat /\ (IF j < i THEN j ELSE j + 1) \in DOMAIN asked[s]
    BY <1>2, <2>3
  <2>5. \A j, k \in DOMAIN asked[s] : asked[s][j] = q /\ asked[s][k] = q => j = k
    BY DEF Once, s
  <2>6. ASSUME NEW j \in DOMAIN asked'[s], NEW k \in DOMAIN asked'[s],
               asked'[s][j] = q, asked'[s][k] = q
        PROVE  j = k
    <3>1. (IF j < i THEN j ELSE j + 1) = (IF k < i THEN k ELSE k + 1)
      BY <2>2, <2>4, <2>5, <2>6
    <3> QED
      BY <3>1, <2>3, <2>4
  <2>7. ASSUME r = q, NEW j \in DOMAIN asked'[s], asked'[s][j] = q PROVE FALSE
    <3>1. (IF j < i THEN j ELSE j + 1) = i
      BY <2>1, <2>2, <2>4, <2>5, <2>7
    <3> QED
      BY <3>1, <2>3, <2>4
  <2> QED
    BY <2>6, <2>7 DEF Once, IsAsked, s
<1> QED
  BY <1>3, <1>4

LEMMA OnceSent ==
  ASSUME AskedOK, NEW requests \in SUBSET Kinds, Send(requests), NEW q \in Kinds, Once(q),
         q \in requests => ~IsAsked(q)
  PROVE  Once(q)'
<1> DEFINE s == ServiceOf[q]
<1>1. s \in Services
  BY ServiceKnown
<1>2. asked[s] \in Seq(Kinds)
  BY <1>1 DEF AskedOK
<1>3. asked'[s] = asked[s] \/ \E r \in requests : asked'[s] = Append(asked[s], r)
  BY <1>1, Appends
<1>4. \A j, k \in DOMAIN asked[s] : asked[s][j] = q /\ asked[s][k] = q => j = k
  BY DEF Once
<1>5. q \in requests => \A j \in DOMAIN asked[s] : asked[s][j] # q
  BY DEF IsAsked
<1> HIDE DEF s
<1>6. CASE asked'[s] = asked[s]
  BY <1>4, <1>6 DEF Once, s
<1>7. CASE \E r \in requests : asked'[s] = Append(asked[s], r)
  <2>1. PICK r \in requests : asked'[s] = Append(asked[s], r)
    BY <1>7
  <2>2. ASSUME NEW j \in DOMAIN asked'[s], NEW k \in DOMAIN asked'[s],
               asked'[s][j] = q, asked'[s][k] = q
        PROVE  j = k
    <3>1. j \in 1 .. Len(asked[s]) + 1 /\ k \in 1 .. Len(asked[s]) + 1
      BY <1>2, <2>1
    <3>2. CASE j = Len(asked[s]) + 1 \/ k = Len(asked[s]) + 1
      <4>1. r = q
        BY <1>2, <2>1, <2>2, <3>2
      <4>2. \A i \in 1 .. Len(asked[s]) : asked'[s][i] # q
        BY <1>2, <1>5, <2>1, <4>1
      <4> QED
        BY <3>1, <4>2, <2>2
    <3>3. CASE j \in 1 .. Len(asked[s]) /\ k \in 1 .. Len(asked[s])
      BY <1>2, <1>4, <2>1, <2>2, <3>3
    <3> QED
      BY <1>2, <3>1, <3>2, <3>3
  <2> QED
    BY <2>2 DEF Once, s
<1> QED
  BY <1>3, <1>6, <1>7

(* A step that asks for no more tries, and learns nothing about the card.   *)
LEMMA TryingStays ==
  ASSUME Trying, UNCHANGED <<sim, card>>, Once("verify_pin")', Once("unblock_pin")',
         IsAsked("verify_pin")' => IsAsked("verify_pin"),
         IsAsked("unblock_pin")' => IsAsked("unblock_pin")
  PROVE  Trying'
<1>1. Usable' <=> Usable
  BY DEF Usable
<1> QED
  BY <1>1 DEF Trying

LEMMA TryingSent ==
  ASSUME AskedOK, Trying, UNCHANGED <<sim, card>>, NEW requests \in SUBSET Kinds, Send(requests),
         {"verify_pin", "unblock_pin"} \cap requests = {}
  PROVE  Trying'
<1>1. "verify_pin" \in Kinds /\ "unblock_pin" \in Kinds
  BY OnlyDataFormat
<1>2. Once("verify_pin")' /\ Once("unblock_pin")'
  BY <1>1, OnceSent DEF Trying
<1>3. IsAsked("verify_pin")' => IsAsked("verify_pin")
  BY <1>1, AskedSince
<1>4. IsAsked("unblock_pin")' => IsAsked("unblock_pin")
  BY <1>1, AskedSince
<1> QED
  BY <1>2, <1>3, <1>4, TryingStays

LEMMA CallbackTries ==
  ASSUME IInv, Trying, Callback
  PROVE  /\ Trying'
         /\ \A j \in DOMAIN card :
               card'[j].pinState \in {"BLOCKED", "PERMANENTLY_BLOCKED"} =>
                  card[j].pinState = card'[j].pinState
<1>1. EngineOK /\ WorldOK /\ CardOK /\ AskedOK /\ CardTyped
  BY DEF IInv, EngineOK, CardOK, CardTyped
<1>0. PICK r \in Kinds : \E posted : Reports(r, posted) /\ CardStep(r)
  BY <1>1, CallbackReports
<1>2. PICK posted : Reports(r, posted) /\ CardStep(r)
  BY <1>0
<1>3. Answered(r, posted) /\ IsAsked(r)
  BY <1>1, <1>2, Answers DEF Reports
<1>4. /\ Once("verify_pin")' /\ Once("unblock_pin")'
      /\ r = "verify_pin" => ~IsAsked("verify_pin")'
      /\ r = "unblock_pin" => ~IsAsked("unblock_pin")'
  BY <1>1, <1>3, OnceAnswered, OnlyDataFormat DEF Trying
<1>5. /\ IsAsked("verify_pin")' => IsAsked("verify_pin")
      /\ IsAsked("unblock_pin")' => IsAsked("unblock_pin")
  BY <1>1, <1>3, AskedBefore, OnlyDataFormat
<1>6. CASE UNCHANGED <<sim, card>>
  BY <1>4, <1>5, <1>6, TryingStays
<1>7. CASE StatusRead
  <2>1. /\ UNCHANGED card /\ Usable
        /\ sim'.pinRetries = card[1].pin /\ sim'.pukRetries = card[1].puk
        /\ sim'.pinTried = sim.pinTried /\ sim'.pukTried = sim.pukTried
    BY <1>1, <1>7, StatusReadIs
  <2>2. Usable' <=> Usable
    BY <2>1 DEF Usable
  <2> QED
    BY <1>4, <1>5, <2>1, <2>2 DEF Trying
<1>8. ASSUME r \in {"verify_pin", "unblock_pin"}
      PROVE  /\ Usable /\ Active = 1 /\ card[1] \in Application /\ card[1].usable
             /\ 1 \in DOMAIN card
  <2>1. Usable
    BY <1>1, <1>3, <1>8 DEF CardOK
  <2>2. card[1].usable
    BY <2>1 DEF Trying
  <2>3. Active = 1 /\ 1 \in DOMAIN card
    BY <1>1, <2>1, <2>2, ActiveIsFirst
  <2> QED
    BY <1>1, <2>1, <2>2, <2>3 DEF CardTyped
<1> DEFINE Retained(app) ==
      /\ Usable' /\ DOMAIN card' = DOMAIN card /\ card'[1].usable
      /\ card'[1] = app /\ \A j \in DOMAIN card \ {1} : card'[j] = card[j]
      /\ sim'.pinTried = sim.pinTried /\ sim'.pukTried = sim.pukTried
      /\ \/ sim'.pinRetries = sim.pinRetries /\ sim'.pukRetries = sim.pukRetries
         \/ sim'.pinRetries = app.pin /\ sim'.pukRetries = app.puk
<1>9. ASSUME r \in {"verify_pin", "unblock_pin"}, NEW app \in Application,
             app.usable = card[1].usable, Changed(app)
      PROVE  Retained(app)
  <2>1. app.usable = card[Active].usable
    BY <1>8, <1>9
  <2>2. /\ Usable' /\ DOMAIN card' = DOMAIN card
        /\ \A j \in DOMAIN card : card'[j].usable = card[j].usable
        /\ card'[Active] = app /\ \A j \in DOMAIN card \ {Active} : card'[j] = card[j]
        /\ sim'.pinTried = sim.pinTried /\ sim'.pukTried = sim.pukTried
        /\ \/ sim'.pinRetries = sim.pinRetries /\ sim'.pukRetries = sim.pukRetries
           \/ sim'.pinRetries = app.pin /\ sim'.pukRetries = app.puk
    BY <1>1, <1>8, <1>9, <2>1, ChangedIs
  <2> QED
    BY <1>8, <1>9, <2>2
<1>10. CASE r = "verify_pin" /\ PinTried
  <2>1. sim.pinTried /\ card[1].pin >= 2
    BY <1>3, <1>10 DEF Trying
  <2>2. CASE card[1].pinState = "NOT_VERIFIED" /\ Changed(WrongPin(card[1]))
    <3> DEFINE app == WrongPin(card[1])
    <3>1. /\ app \in Application /\ app.usable = card[1].usable /\ app.puk = card[1].puk
          /\ app.pinState = "NOT_VERIFIED"
      BY <1>8, <1>10, <2>1, <2>2, WrongPinType
    <3> HIDE DEF app
    <3>2. Retained(app)
      BY <1>9, <1>10, <2>2, <3>1 DEF app
    <3> QED
      BY <1>4, <1>5, <1>8, <1>10, <2>1, <3>1, <3>2 DEF Trying
  <2>3. CASE Changed(Unlocked(card[1]))
    <3> DEFINE app == Unlocked(card[1])
    <3>1. /\ app \in Application /\ app.usable = card[1].usable /\ app.puk = card[1].puk
          /\ app.pin >= 2 /\ app.pinState = "VERIFIED"
      BY <1>8, <1>10, UnlockedType
    <3> HIDE DEF app
    <3>2. Retained(app)
      BY <1>9, <1>10, <2>3, <3>1 DEF app
    <3> QED
      BY <1>4, <1>5, <1>8, <1>10, <2>1, <3>1, <3>2 DEF Trying
  <2> QED
    BY <1>1, <1>8, <1>10, <2>2, <2>3, PinTriedIs
<1>11. CASE r = "unblock_pin" /\ PukTried
  <2>1. sim.pukTried /\ card[1].puk >= 2
    BY <1>3, <1>11 DEF Trying
  <2>2. CASE card[1].pinState = "BLOCKED" /\ Changed(WrongPuk(card[1]))
    <3> DEFINE app == WrongPuk(card[1])
    <3>1. /\ app \in Application /\ app.usable = card[1].usable /\ app.pin = card[1].pin
          /\ app.pinState = "BLOCKED"
      BY <1>8, <1>11, <2>1, <2>2, WrongPukType
    <3> HIDE DEF app
    <3>2. Retained(app)
      BY <1>9, <1>11, <2>2, <3>1 DEF app
    <3> QED
      BY <1>4, <1>5, <1>8, <1>11, <2>1, <2>2, <3>1, <3>2 DEF Trying
  <2>3. CASE Changed(Unlocked(card[1]))
    <3> DEFINE app == Unlocked(card[1])
    <3>1. /\ app \in Application /\ app.usable = card[1].usable /\ app.puk = card[1].puk
          /\ app.pin >= 2 /\ app.pinState = "VERIFIED"
      BY <1>8, <1>11, UnlockedType
    <3> HIDE DEF app
    <3>2. Retained(app)
      BY <1>9, <1>11, <2>3, <3>1 DEF app
    <3> QED
      BY <1>4, <1>5, <1>8, <1>11, <2>1, <3>1, <3>2 DEF Trying
  <2> QED
    BY <1>1, <1>8, <1>11, <2>2, <2>3, PukTriedIs
<1> QED
  BY <1>2, <1>6, <1>7, <1>10, <1>11, StatusReadIs, <1>1 DEF CardStep


LEMMA NextTries ==
  ASSUME IInv, Trying, [Next]_vars
  PROVE  /\ Trying'
         /\ \A j \in DOMAIN card :
               card'[j].pinState \in {"BLOCKED", "PERMANENTLY_BLOCKED"} =>
                  card[j].pinState = card'[j].pinState
<1>1. EngineOK /\ Timing /\ WorldOK /\ CardOK /\ Telling /\ Serving /\ AskedOK
  BY DEF IInv, EngineOK
<1>2. \A requests \in SUBSET Kinds :
         Send(requests) /\ {"verify_pin", "unblock_pin"} \cap requests = {}
            /\ UNCHANGED <<sim, card>> => Trying'
  BY <1>1, TryingSent
<1>3. CASE Callback
  BY <1>3, CallbackTries
<1>4. CASE ModemHandler
  <2>1. PICK new \in ModemStates, requests \in SUBSET Kinds : Steps(new, requests)
    BY <1>1, <1>4, ModemSteps DEF Serving
  <2> QED
    BY <1>2, <2>1 DEF Steps, Moves
<1>5. CASE SimHandler /\ UNCHANGED modemVars
  <2>1. PICK new \in SimStateNames, requests \in SUBSET Kinds : SimSteps(new, requests)
    BY <1>1, <1>5, SimHandlerSteps
  <2>2. /\ Send(requests) /\ UNCHANGED card /\ Remembers(requests)
    BY <2>1 DEF SimSteps, SimMoves
  <2>3. Usable' <=> Usable
    BY <2>2 DEF Usable
  <2>4. /\ "verify_pin" \in requests => ~IsAsked("verify_pin")
        /\ "unblock_pin" \in requests => ~IsAsked("unblock_pin")
    BY <2>2 DEF Remembers, Trying
  <2>5. Once("verify_pin")' /\ Once("unblock_pin")'
    BY <1>1, <2>2, <2>4, OnceSent, OnlyDataFormat DEF Trying
  <2>6. /\ IsAsked("verify_pin")' => IsAsked("verify_pin") \/ "verify_pin" \in requests
        /\ IsAsked("unblock_pin")' => IsAsked("unblock_pin") \/ "unblock_pin" \in requests
    BY <1>1, <2>2, AskedSince, OnlyDataFormat
  <2>7. /\ "verify_pin" \in requests =>
              sim.pinRetries >= 2 /\ ~sim.pinTried /\ Usable
        /\ "unblock_pin" \in requests =>
              sim.pukRetries >= 2 /\ ~sim.pukTried /\ Usable
    BY <1>1, <2>2 DEF Remembers, CardOK
  <2>8. /\ IsAsked("verify_pin")' => sim'.pinTried /\ card[1].pin >= 2
        /\ IsAsked("unblock_pin")' => sim'.pukTried /\ card[1].puk >= 2
    BY <2>2, <2>6, <2>7 DEF Remembers, Trying
  <2> QED
    BY <2>2, <2>3, <2>5, <2>8 DEF Trying, Remembers
<1>6. CASE TimerCallback
  <2>1. UNCHANGED <<sim, card>>
    BY <1>6 DEF TimerCallback, TimerPolls, TimerResends, TimerFails, TimerIgnored, others, simVars
  <2>2. CASE TimerPolls \/ TimerResends
    <3>1. Send({"serving_system"}) \/ Send({"start_network"})
      BY <2>2 DEF TimerPolls, TimerResends
    <3>2. {"serving_system"} \in SUBSET Kinds /\ {"start_network"} \in SUBSET Kinds
      BY KindsAre
    <3> QED
      BY <1>2, <2>1, <3>1, <3>2
  <2>3. CASE TimerFails
    <3>1. at["MODEM"] = "RESYNC" /\ Enter(<<"FAILED">>, FALSE, N_NONE, {})
      BY <1>1, <2>3 DEF TimerFails, Timing
    <3>2. "FAILED" \in modem_out_states[at["MODEM"]] /\ "FAILED" \in ModemStates
      BY <3>1, ModemMayChange, ModemStatesAre
    <3>3. Send({})
      BY <1>1, <3>1, <3>2, EnteredOne
    <3> QED
      BY <1>2, <2>1, <3>3
  <2>4. CASE TimerIgnored
    <3>1. Send({})
      BY <1>1, <2>4, SendNothing DEF TimerIgnored
    <3> QED
      BY <1>2, <2>1, <3>1
  <2> QED
    BY <1>6, <2>1, <2>2, <2>3, <2>4 DEF TimerCallback
<1>7. CASE ServiceFreed
  <2>1. PICK s \in services \ {"CTL"} : asked' = [asked EXCEPT ![s] = <<>>]
    BY <1>7 DEF ServiceFreed
  <2>2. UNCHANGED <<sim, card>>
    BY <1>7 DEF ServiceFreed, simVars
  <2>3. ASSUME NEW q \in Kinds, Once(q) PROVE Once(q)' /\ (IsAsked(q)' => IsAsked(q))
    <3>1. ServiceOf[q] \in Services
      BY ServiceKnown
    <3>2. asked'[ServiceOf[q]] = asked[ServiceOf[q]] \/ asked'[ServiceOf[q]] = <<>>
      BY <1>1, <2>1, <3>1 DEF AskedOK
    <3>3. CASE asked'[ServiceOf[q]] = asked[ServiceOf[q]]
      BY <2>3, <3>3 DEF Once, IsAsked
    <3>4. CASE asked'[ServiceOf[q]] = <<>>
      BY <3>4 DEF Once, IsAsked
    <3> QED
      BY <3>2, <3>3, <3>4
  <2> QED
    BY <2>2, <2>3, TryingStays, OnlyDataFormat DEF Trying
<1>8. CASE Configure \/ RemoveModem \/ Freed \/ CoverageComes \/ UNCHANGED vars
  <2>1. UNCHANGED <<sim, card, asked>>
    BY <1>8 DEF Configure, RemoveModem, Freed, CoverageComes, vars, engineVars, engineBut, simVars
  <2> QED
    BY <2>1, TryingStays DEF Trying, Once, IsAsked
<1> QED
  BY <1>3, <1>4, <1>5, <1>6, <1>7, <1>8 DEF Next, Handler

LEMMA InitTries ==
  ASSUME FirstIsUsed, Init
  PROVE  Trying
<1>1. /\ asked = [s \in Services |-> <<>>] /\ card \in Cards
      /\ sim = [state |-> "UNKNOWN", pinRetries |-> 0, pukRetries |-> 0,
                pinTried |-> FALSE, pukTried |-> FALSE]
  BY DEF Init, SimInit
<1>2. \A q \in Kinds : ~IsAsked(q) /\ Once(q)
  BY <1>1, ServiceKnown DEF IsAsked, Once
<1>3. Usable => card[1].usable
  BY <1>1 DEF FirstIsUsed, Usable
<1>4. sim.pinRetries = 0 /\ sim.pukRetries = 0
  BY <1>1
<1> QED
  BY <1>2, <1>3, <1>4, OnlyDataFormat DEF Trying

(* A PIN is asked to be verified only while the card has more than one try  *)
(* left for it, in whatever order the answers arrive and however often the  *)
(* modem is configured (sim_fsm.c, sim_st_chv_pin_on_enter).                *)
THEOREM TriesCorrect == FirstIsUsed /\ Spec => []TriesOnlyWithSpareTries
<1>1. FirstIsUsed /\ Init => Trying
  BY InitTries
<1>2. IInv /\ Trying /\ [Next]_vars => Trying'
  BY NextTries
<1>3. IInv /\ Trying => TriesOnlyWithSpareTries
  <2> SUFFICES ASSUME IInv, Trying, IsAsked("verify_pin") PROVE card[Active].pin >= 2
    BY DEF TriesOnlyWithSpareTries
  <2>1. CardTyped /\ Usable
    BY DEF IInv, CardOK, CardTyped
  <2>2. card[1].usable /\ card[1].pin >= 2
    BY <2>1 DEF Trying
  <2> QED
    BY <2>1, <2>2, ActiveIsFirst
<1> QED
  BY <1>1, <1>2, <1>3, Invariance, PTL DEF Spec

(* No card is blocked by the daemon, neither its PIN nor its PUK, however   *)
(* often it is configured with wrong ones and whatever the card answers.    *)
THEOREM BlocksCorrect == FirstIsUsed /\ Spec => NeverBlocksCard
<1>1. FirstIsUsed /\ Init => Trying
  BY InitTries
<1>2. IInv /\ Trying /\ [Next]_vars => Trying'
  BY NextTries
<1>3. IInv /\ Trying /\ [Next]_vars =>
         [\A j \in DOMAIN card :
             card'[j].pinState \in {"BLOCKED", "PERMANENTLY_BLOCKED"} =>
                card[j].pinState = card'[j].pinState]_vars
  BY NextTries
<1> QED
  BY <1>1, <1>2, <1>3, Invariance, PTL DEF Spec, NeverBlocksCard


(***************************************************************************)
(* The radio of a modem that starts with it off.  A modem whose answer does *)
(* not say its mode counts as switched on; and once a connection has failed *)
(* the machine is in POWEROFF again, with the radio on (run modem_radio     *)
(* shows what may happen then).                                             *)
(***************************************************************************)

StartsOff == Radios \subseteq {"low"} /\ "no_mode" \notin Faulty

(* MODEM is about to be told that the radio is on.                          *)
SaysOn(posted) ==
    \E i \in DOMAIN posted : posted[i].to = "MODEM" /\ posted[i].ev \in RadioIsOn

(* Nothing switches it off, it is switched on from POWERON on only, and     *)
(* nobody says it is on before it is.                                       *)
Radioing ==
    ~error =>
        /\ radio \in {"low", "online"}
        /\ ~IsAsked("set_low_power")
        /\ radio = "online" \/ IsAsked("set_online") => at["MODEM"] \in RadioUsed
        /\ at["MODEM"] \in Online => radio = "online"
        /\ SaysOn(todo) => radio = "online"

LEMMA SaysNothing ==
  /\ \A e \in EventNames \ RadioIsOn : \A a : ~SaysOn(<<Event("MODEM", e, a)>>)
  /\ \A e, a : ~SaysOn(<<Event("SIM", e, a)>>)
  /\ \A e, f : ~SaysOn(<<ToSim(e), ToSim(f)>>)
  /\ \A e, f \in EventNames \ RadioIsOn : ~SaysOn(<<ToModem(e), ToModem(f)>>)
  /\ ~SaysOn(<<>>)
<1>1. ASSUME NEW x, x.to # "MODEM" \/ x.ev \notin RadioIsOn
      PROVE  ~SaysOn(<<x>>)
  BY <1>1 DEF SaysOn
<1>2. ASSUME NEW x, x.to # "MODEM" \/ x.ev \notin RadioIsOn,
             NEW y, y.to # "MODEM" \/ y.ev \notin RadioIsOn
      PROVE  ~SaysOn(<<x, y>>)
  BY <1>2 DEF SaysOn
<1>3. /\ \A m, e, a : Event(m, e, a).to = m /\ Event(m, e, a).ev = e
      /\ \A e : ToModem(e).ev = e /\ ToSim(e).to = "SIM"
  BY DEF Event, ToModem, ToSim
<1>4. ~SaysOn(<<>>)
  BY DEF SaysOn
<1>5. "SIM" # "MODEM"
  OBVIOUS
<1> QED
  BY <1>1, <1>2, <1>3, <1>4, <1>5

(* What a callback says of the radio is so, and only the answer to the      *)
(* request to switch it on changes it.                                      *)
LEMMA CallbackRadio ==
  ASSUME Callback, "no_mode" \notin Faulty, radio \in {"low", "online"}, EngineOK,
         ~IsAsked("set_low_power")
  PROVE  /\ UNCHANGED error
         /\ radio' = radio \/ (radio' = "online" /\ IsAsked("set_online"))
         /\ SaysOn(todo') => radio' = "online"
<1> DEFINE Goal == /\ UNCHANGED error
                   /\ radio' = radio \/ (radio' = "online" /\ IsAsked("set_online"))
                   /\ SaysOn(todo') => radio' = "online"
           Plain(r) == \E posted : Answered(r, posted) /\ ~SaysOn(posted)
<1> SUFFICES Goal
  OBVIOUS
<1>1. ASSUME NEW r, Plain(r), UNCHANGED <<radio, error>> PROVE Goal
  BY <1>1 DEF Answered
<1>2. /\ \A e \in EventNames \ RadioIsOn : ~SaysOn(<<ToModem(e)>>)
      /\ \A e \in EventNames \ RadioIsOn : \A a : ~SaysOn(<<Event("MODEM", e, a)>>)
      /\ \A e, f \in EventNames \ RadioIsOn : ~SaysOn(<<ToModem(e), ToModem(f)>>)
      /\ \A e : ~SaysOn(<<ToSim(e)>>)
      /\ \A e, f : ~SaysOn(<<ToSim(e), ToSim(f)>>)
      /\ \A e, a : ~SaysOn(<<Event("SIM", e, a)>>)
      /\ ~SaysOn(<<>>)
  BY SaysNothing DEF ToModem, ToSim
<1>3. \A e \in {"RX_SYNC", "RX_FAILED", "RX_VERSION", "RX_MODEL", "RX_MANUFACTURER", "RX_REVISION",
               "RX_IMEI", "RX_POWEROFF", "RX_GET_PROFILE_LIST",
               "RX_MODIFIED_PROFILE", "RX_SUCCEED", "RX_SUBSCRIBED", "RX_SUBSCRIBE_FAILED",
               "RX_REGISTERED", "RX_UNREGISTERED", "RX_SEARCHING",
               "RX_DISABLE_AUTOCONNECT_SUCCESS"} : e \in EventNames \ RadioIsOn
  BY DEF EventNames, RadioIsOn
<1>4. ASSUME NEW r, NEW good \in EventNames \ RadioIsOn, NEW bad \in EventNames \ RadioIsOn,
             Outcome(r, good, bad)
      PROVE  Goal
  <2>1. UNCHANGED <<radio, error>> /\ \E e \in {good, bad} : Answered(r, <<ToModem(e)>>)
    BY <1>4 DEF Outcome, modemVars
  <2>2. Plain(r)
    BY <2>1, <1>2
  <2> HIDE DEF Goal, Plain
  <2> QED
    BY <2>1, <2>2, <1>1
<1> HIDE DEF Goal
<1>5. CASE SimCallback /\ UNCHANGED modemVars
  <2>1. UNCHANGED <<radio, error>>
    BY <1>5 DEF modemVars
  <2>2. uim_get_slot_status_cb => Plain("slot_status")
    BY <1>2 DEF uim_get_slot_status_cb
  <2>3. uim_get_card_status_cb => Plain("card_status")
    BY <1>2 DEF uim_get_card_status_cb
  <2>4. uim_read_imsi_cb => Plain("read_imsi")
    BY <1>2 DEF uim_read_imsi_cb
  <2>5. uim_verify_pin_cb => Plain("verify_pin")
    BY <1>2 DEF uim_verify_pin_cb
  <2>6. uim_unblock_pin_cb => Plain("unblock_pin")
    BY <1>2 DEF uim_unblock_pin_cb
  <2>7. \E r : Plain(r)
    BY <1>5, <2>2, <2>3, <2>4, <2>5, <2>6 DEF SimCallback
  <2> HIDE DEF Plain
  <2> QED
    BY <2>1, <2>7, <1>1
<1>6. CASE ctl_sync_request_cb \/ get_model_cb \/ get_manuf_cb \/ get_revision_cb \/ get_ids_cb
           \/ wds_modify_profile_cb \/ subscribe_result_cb \/ wds_stop_network_cb
  BY <1>6, <1>3, <1>4 DEF ctl_sync_request_cb, get_model_cb, get_manuf_cb, get_revision_cb,
     get_ids_cb, wds_modify_profile_cb, subscribe_result_cb, wds_stop_network_cb
<1>7. CASE uqmid_modem_version_cb \/ wds_get_profile_list_cb \/ wda_set_data_format_cb
           \/ get_serving_system_cb \/ nas_force_search_cb \/ wds_start_network_cb
           \/ wds_get_current_settings_cb
  <2>1. UNCHANGED <<radio, error>>
    BY <1>7 DEF modemVars, uqmid_modem_version_cb, wds_get_profile_list_cb, wda_set_data_format_cb,
       get_serving_system_cb, nas_force_search_cb, wds_start_network_cb, wds_get_current_settings_cb
  <2>2. uqmid_modem_version_cb => Plain("version")
    BY <1>2, <1>3 DEF uqmid_modem_version_cb
  <2>3. wds_get_profile_list_cb => Plain("profile_list")
    BY <1>2, <1>3 DEF wds_get_profile_list_cb
  <2>4. wda_set_data_format_cb => Plain("data_format")
    BY <1>2, <1>3 DEF wda_set_data_format_cb
  <2>5. get_serving_system_cb => Plain("serving_system")
    BY <1>2, <1>3 DEF get_serving_system_cb
  <2>6. nas_force_search_cb => Plain("network_search")
    BY <1>2, <1>3 DEF nas_force_search_cb
  <2>7. wds_start_network_cb => Plain("start_network")
    BY <1>2, <1>3 DEF wds_start_network_cb
  <2>8. wds_get_current_settings_cb => Plain("current_settings")
    <3>1. /\ ~SaysOn(<<ToModem("RX_SUCCEED")>>) /\ ~SaysOn(<<ToModem("RX_FAILED")>>)
          /\ ~SaysOn(<<ToModem("RX_FAILED"), ToModem("RX_SUCCEED")>>)
      BY <1>2, <1>3
    <3>2. /\ <<ToModem("RX_FAILED")>> \o <<>> = <<ToModem("RX_FAILED")>>
          /\ <<ToModem("RX_FAILED")>> \o <<ToModem("RX_SUCCEED")>>
                = <<ToModem("RX_FAILED"), ToModem("RX_SUCCEED")>>
      BY Joined
    <3>3. ASSUME wds_get_current_settings_cb
          PROVE  \/ Answered("current_settings", <<ToModem("RX_SUCCEED")>>)
                 \/ Answered("current_settings", <<ToModem("RX_FAILED")>>)
                 \/ Answered("current_settings", <<ToModem("RX_FAILED"), ToModem("RX_SUCCEED")>>)
      BY <3>2, <3>3 DEF wds_get_current_settings_cb
    <3> QED
      BY <3>1, <3>3
  <2>9. \E r : Plain(r)
    BY <1>7, <2>2, <2>3, <2>4, <2>5, <2>6, <2>7, <2>8
  <2> HIDE DEF Plain
  <2> QED
    BY <2>1, <2>9, <1>1
<1>8. CASE dms_get_operating_mode_cb
  <2>1. UNCHANGED <<radio, error>>
    BY <1>8 DEF dms_get_operating_mode_cb, modemVars
  <2>2. (radio = "online" /\ todo' = <<ToModem("RX_POWERON")>>) \/ Plain("get_opmode")
    BY <1>8, <1>2, <1>3 DEF dms_get_operating_mode_cb, Answered
  <2> HIDE DEF Plain
  <2> QED
    BY <2>1, <2>2, <1>1 DEF Goal
<1>9. CASE dms_set_operating_mode_cb
  <2>1. PICK mode \in {"low", "online"} :
           /\ \/ Answered(SetRequest[mode], <<ToModem("RX_POWERSET")>>) /\ radio' = mode
              \/ Answered(SetRequest[mode], <<ToModem("RX_FAILED")>>) /\ UNCHANGED radio
           /\ UNCHANGED error
    BY <1>9 DEF dms_set_operating_mode_cb, SetRequest
  <2>2. SetRequest["low"] = "set_low_power" /\ SetRequest["online"] = "set_online"
    BY DEF SetRequest
  <2>3. "set_low_power" \in Kinds /\ "set_online" \in Kinds /\ AskedOK
    BY KindsAre DEF EngineOK
  <2>4. mode = "online" /\ IsAsked("set_online")
    BY <2>1, <2>2, <2>3, Answers
  <2>5. CASE radio' = "online"
    BY <2>1, <2>4, <2>5 DEF Goal
  <2>6. CASE Answered("set_online", <<ToModem("RX_FAILED")>>) /\ UNCHANGED radio
    <3>1. Plain("set_online")
      BY <2>6, <1>2, <1>3
    <3> HIDE DEF Plain
    <3> QED
      BY <2>1, <2>6, <3>1, <1>1
  <2> QED
    BY <2>1, <2>2, <2>4, <2>5, <2>6
<1> QED
  BY <1>5, <1>6, <1>7, <1>8, <1>9 DEF Callback, ModemCallback

LEMMA SaidOfRest ==
  ASSUME todo \in Seq(Posted), todo # <<>>
  PROVE  /\ SaysOn(Tail(todo)) => SaysOn(todo)
         /\ SaysOn(<<Ready>> \o Tail(todo)) => SaysOn(todo)
         /\ Head(todo).to = "MODEM" /\ Head(todo).ev \in RadioIsOn => SaysOn(todo)
<1> DEFINE rest == Tail(todo)
<1>1. /\ rest \in Seq(Posted) /\ Len(rest) = Len(todo) - 1
      /\ \A i \in 1 .. Len(rest) : rest[i] = todo[i + 1] /\ i + 1 \in DOMAIN todo
      /\ Head(todo) = todo[1] /\ 1 \in DOMAIN todo
  OBVIOUS
<1>2. Ready \in Posted /\ Ready.ev \notin RadioIsOn
  BY DEF Ready, ToModem, Event, Posted, EventNames, Arguments, RadioIsOn
<1> HIDE DEF rest
<1>3. SaysOn(rest) => SaysOn(todo)
  BY <1>1 DEF SaysOn
<1>4. SaysOn(<<Ready>> \o rest) => SaysOn(rest)
  <2> SUFFICES ASSUME NEW i \in DOMAIN (<<Ready>> \o rest),
                      (<<Ready>> \o rest)[i].to = "MODEM", (<<Ready>> \o rest)[i].ev \in RadioIsOn
               PROVE  SaysOn(rest)
    BY DEF SaysOn
  <2>1. i \in 1 .. Len(rest) + 1
    BY <1>1, <1>2
  <2>2. i # 1
    BY <1>1, <1>2
  <2>3. (<<Ready>> \o rest)[i] = rest[i - 1] /\ i - 1 \in DOMAIN rest
    BY <1>1, <1>2, <2>1, <2>2
  <2> QED
    BY <2>3 DEF SaysOn
<1> QED
  BY <1>1, <1>3, <1>4 DEF rest, SaysOn

(* A step that leaves the radio alone, and sends nothing about it.          *)
LEMMA RadioStays ==
  ASSUME Radioing, UNCHANGED <<radio, error>>, SaysOn(todo)' => SaysOn(todo),
         IsAsked("set_low_power")' => IsAsked("set_low_power"),
         IsAsked("set_online")' => IsAsked("set_online"),
         at'["MODEM"] = at["MODEM"]
  PROVE  Radioing'
BY DEF Radioing

LEMMA NextRadio ==
  ASSUME StartsOff, IInv, Radioing, [Next]_vars
  PROVE  Radioing'
<1>1. /\ EngineOK /\ Timing /\ WorldOK /\ CardOK /\ Telling /\ Serving /\ AskedOK
      /\ todo \in Seq(Posted)
  BY DEF IInv, EngineOK
<1>2. /\ "set_low_power" \in Kinds /\ "set_online" \in Kinds
      /\ \A r \in {"serving_system", "start_network"} : {r} \in SUBSET Kinds
  BY KindsAre
<1>3. ASSUME NEW requests \in SUBSET Kinds, Send(requests),
             {"set_low_power", "set_online"} \cap requests = {}
      PROVE  /\ IsAsked("set_low_power")' => IsAsked("set_low_power")
             /\ IsAsked("set_online")' => IsAsked("set_online")
  BY <1>1, <1>2, <1>3, AskedSince
<1>4. CASE Callback
  <2>1. PICK r \in Kinds : \E posted : Reports(r, posted)
    BY <1>1, <1>4, CallbackReports
  <2>2. PICK posted : Answered(r, posted) /\ UNCHANGED error
    BY <2>1 DEF Reports
  <2>3. /\ at' = at
        /\ IsAsked("set_low_power")' => IsAsked("set_low_power")
        /\ IsAsked("set_online")' => IsAsked("set_online")
    BY <1>1, <1>2, <2>2, AskedBefore DEF Answered
  <2>4. SUFFICES ASSUME ~error PROVE Radioing'
    BY <2>2 DEF Radioing
  <2>5. /\ radio' = radio \/ (radio' = "online" /\ IsAsked("set_online"))
        /\ SaysOn(todo') => radio' = "online"
    BY <1>1, <1>4, <2>4, CallbackRadio DEF Radioing, StartsOff
  <2> QED
    BY <2>3, <2>4, <2>5 DEF Radioing, SaysOn
<1>5. CASE ModemHandler
  <2>1. PICK new \in ModemStates, requests \in SUBSET Kinds : Steps(new, requests)
    BY <1>1, <1>5, ModemSteps DEF Serving
  <2>2. /\ Arriving("MODEM") /\ todo' = Tail(todo) /\ at'["MODEM"] = new
        /\ Send(requests) /\ UNCHANGED radio /\ Switches(new, requests)
    BY <2>1 DEF Steps, Moves
  <2>3. /\ todo # <<>> /\ Head(todo).to = "MODEM"
    BY <2>2 DEF Arriving
  <2>4. /\ SaysOn(todo') => SaysOn(todo)
        /\ Head(todo).ev \in RadioIsOn => SaysOn(todo)
    BY <1>1, <2>2, <2>3, SaidOfRest
  <2>5. SUFFICES ASSUME ~error, ~error' PROVE Radioing'
    BY <2>2 DEF Radioing, Switches
  <2>6. "set_low_power" \notin requests
    <3>1. SUFFICES ASSUME "set_low_power" \in requests PROVE FALSE
      OBVIOUS
    <3>2. at["MODEM"] = "POWEROFF" /\ Head(todo).ev \in RadioIsOn
      BY <2>2, <3>1 DEF Switches, RadioIsOn
    <3>3. at["MODEM"] \in RadioUsed
      BY <2>4, <2>5, <3>2 DEF Radioing
    <3> QED
      BY <3>2, <3>3 DEF RadioUsed, Online
  <2>7. /\ ~IsAsked("set_low_power")'
        /\ IsAsked("set_online")' => IsAsked("set_online") \/ new = "POWERON"
    BY <1>1, <1>2, <2>2, <2>5, <2>6, AskedSince DEF Radioing, Switches
  <2>8. radio' = "online" \/ IsAsked("set_online")' => new \in RadioUsed
    BY <2>2, <2>5, <2>7 DEF Radioing, Switches, RadioUsed
  <2>9. new \in Online => radio = "online"
    BY <2>2, <2>4, <2>5 DEF Radioing, Switches
  <2> QED
    BY <2>2, <2>4, <2>5, <2>7, <2>8, <2>9 DEF Radioing, SaysOn
<1>6. CASE SimHandler /\ UNCHANGED modemVars
  <2>1. PICK new \in SimStateNames, requests \in SUBSET Kinds : SimSteps(new, requests)
    BY <1>1, <1>6, SimHandlerSteps
  <2>2. /\ Arriving("SIM") /\ at'["MODEM"] = at["MODEM"] /\ Send(requests)
        /\ UNCHANGED <<radio, error>>
        /\ requests \subseteq {"card_status", "read_imsi", "verify_pin", "unblock_pin"}
        /\ todo' = Tail(todo) \/ todo' = <<Ready>> \o Tail(todo)
    BY <2>1, <1>6 DEF SimSteps, SimMoves, Tells, SimAsks, modemVars
  <2>3. SaysOn(todo') => SaysOn(todo)
    BY <1>1, <2>2, SaidOfRest DEF Arriving
  <2>4. {"set_low_power", "set_online"} \cap requests = {}
    BY <2>2
  <2> QED
    BY <1>3, <2>2, <2>3, <2>4, RadioStays DEF SaysOn
<1>7. CASE TimerCallback
  <2>1. UNCHANGED <<radio, error, todo>>
    BY <1>7 DEF TimerCallback, TimerPolls, TimerResends, TimerFails, TimerIgnored, modemVars
  <2>2. CASE TimerPolls \/ TimerResends
    <3>1. (Send({"serving_system"}) \/ Send({"start_network"})) /\ UNCHANGED at
      BY <2>2 DEF TimerPolls, TimerResends
    <3>2. /\ IsAsked("set_low_power")' => IsAsked("set_low_power")
          /\ IsAsked("set_online")' => IsAsked("set_online")
      BY <1>2, <1>3, <3>1
    <3> QED
      BY <2>1, <3>1, <3>2, RadioStays DEF SaysOn
  <2>3. CASE TimerFails
    <3>1. at["MODEM"] = "RESYNC" /\ Enter(<<"FAILED">>, FALSE, N_NONE, {})
      BY <1>1, <2>3 DEF TimerFails, Timing
    <3>2. "FAILED" \in modem_out_states[at["MODEM"]] /\ "FAILED" \in ModemStates
      BY <3>1, ModemMayChange, ModemStatesAre
    <3>3. Send({}) /\ at'["MODEM"] = "FAILED"
      BY <1>1, <3>1, <3>2, EnteredOne
    <3>4. /\ IsAsked("set_low_power")' => IsAsked("set_low_power")
          /\ IsAsked("set_online")' => IsAsked("set_online")
      BY <1>3, <3>3
    <3>5. {"RESYNC", "FAILED"} \cap (RadioUsed \cup Online) = {}
      BY DEF RadioUsed, Online
    <3> QED
      BY <2>1, <3>1, <3>3, <3>4, <3>5 DEF Radioing, SaysOn
  <2>4. CASE TimerIgnored
    BY <2>1, <2>4, RadioStays DEF TimerIgnored, SaysOn, IsAsked
  <2> QED
    BY <1>7, <2>2, <2>3, <2>4 DEF TimerCallback
<1>8. CASE ServiceFreed
  <2>1. PICK s \in services \ {"CTL"} : asked' = [asked EXCEPT ![s] = <<>>]
    BY <1>8 DEF ServiceFreed
  <2>2. UNCHANGED <<radio, error, todo, at>>
    BY <1>8 DEF ServiceFreed, modemVars
  <2>3. ASSUME NEW q \in Kinds, IsAsked(q)' PROVE IsAsked(q)
    <3>1. ServiceOf[q] \in Services
      BY ServiceKnown
    <3>2. asked'[ServiceOf[q]] = asked[ServiceOf[q]] \/ asked'[ServiceOf[q]] = <<>>
      BY <1>1, <2>1, <3>1 DEF AskedOK
    <3> QED
      BY <2>3, <3>2 DEF IsAsked
  <2> QED
    BY <1>2, <2>2, <2>3, RadioStays DEF SaysOn
<1>9. CASE Configure \/ RemoveModem
  <2>1. /\ UNCHANGED <<radio, error, at, asked>>
        /\ todo' = <<ToModem("REQ_CONFIGURED")>> \/ todo' = <<ToModem("REQ_DESTROY")>>
    BY <1>9 DEF Configure, RemoveModem, engineBut, modemVars
  <2>2. ~SaysOn(<<ToModem("REQ_CONFIGURED")>>) /\ ~SaysOn(<<ToModem("REQ_DESTROY")>>)
    <3>1. "REQ_CONFIGURED" \in EventNames \ RadioIsOn /\ "REQ_DESTROY" \in EventNames \ RadioIsOn
      BY DEF EventNames, RadioIsOn
    <3> QED
      BY <3>1, SaysNothing DEF ToModem
  <2> QED
    BY <2>1, <2>2, RadioStays DEF SaysOn, IsAsked
<1>10. CASE Freed \/ CoverageComes \/ UNCHANGED vars
  <2>1. UNCHANGED <<radio, error, at, asked, todo>>
    BY <1>10 DEF Freed, CoverageComes, vars, engineVars, engineBut, simVars, modemVars
  <2> QED
    BY <2>1, RadioStays DEF SaysOn, IsAsked
<1> QED
  BY <1>4, <1>5, <1>6, <1>7, <1>8, <1>9, <1>10 DEF Next, Handler

(* A modem that starts with its radio off and says its mode when asked is   *)
(* never searched for a network, connected or connecting without it, as     *)
(* long as no connection has failed, whatever else fails and in whatever    *)
(* order the answers arrive (modem_fsm.c, modem_st_poweron).                *)
THEOREM RadioCorrect ==
  ASSUME StartsOff
  PROVE  Spec => [](error \/ SearchesWithRadioOn)
<1>1. Init => Radioing
  <2> SUFFICES ASSUME Init PROVE Radioing
    OBVIOUS
  <2>1. /\ asked = [s \in Services |-> <<>>] /\ todo = <<ToModem("REQ_START")>>
        /\ at["MODEM"] = "IDLE" /\ radio = "low"
    BY DEF Init, ModemInit, StartsOff
  <2>2. \A q \in Kinds : ~IsAsked(q)
    BY <2>1, ServiceKnown DEF IsAsked
  <2>3. "set_low_power" \in Kinds /\ "set_online" \in Kinds
    BY KindsAre
  <2>4. ~SaysOn(todo)
    <3>1. "REQ_START" \in EventNames \ RadioIsOn
      BY DEF EventNames, RadioIsOn
    <3> QED
      BY <2>1, <3>1, SaysNothing DEF ToModem
  <2> QED
    BY <2>1, <2>2, <2>3, <2>4 DEF Radioing, Online
<1>2. IInv /\ Radioing /\ [Next]_vars => Radioing'
  BY NextRadio
<1>3. Radioing => error \/ SearchesWithRadioOn
  BY DEF Radioing, SearchesWithRadioOn, Online, State
<1> QED
  BY <1>1, <1>2, <1>3, Invariance, PTL DEF Spec


(***************************************************************************)
(* The life of the modem, which those who use it over ubus see, is as       *)
(* ModemLife promises it.                                                   *)
(***************************************************************************)

(* A call is dispatched while nothing else is; SIM tells what is so; and    *)
(* the modem is in no part of its life without what that part needs.        *)
Calling ==
    /\ \A i \in DOMAIN todo : todo[i].ev \in Calls =>
          /\ Len(todo) = 1 /\ todo[i].to = "MODEM"
          /\ todo[i].ev = "REQ_CONFIGURED" => config.configured
    /\ \A i \in DOMAIN todo : todo[i].ev = "REQ_SIM_READY" => at["SIM"] = "READY"
    /\ LifeOf(at["MODEM"]) \in {"waiting", "prepared", "connecting", "live"} => config.configured
    /\ LifeOf(at["MODEM"]) \in {"prepared", "connecting", "live"} => at["SIM"] = "READY"

LEMMA CallIs ==
  /\ CallOf("REQ_CONFIGURED") = "configure" /\ CallOf("REQ_DESTROY") = "remove"
  /\ \A ev : ev \notin Calls => CallOf(ev) = "none"
BY DEF CallOf, Calls

CallIn(events) == IF events = <<>> THEN "none" ELSE CallOf(Head(events).ev)

LEMMA NoneCalls ==
  ASSUME NEW events \in Seq(Posted), \A i \in DOMAIN events : events[i].ev \notin Calls
  PROVE  CallIn(events) = "none"
<1>1. CASE events = <<>>
  BY <1>1 DEF CallIn
<1>2. CASE events # <<>>
  <2>1. 1 \in DOMAIN events /\ Head(events) = events[1]
    BY <1>2
  <2>2. Head(events).ev \notin Calls
    BY <2>1
  <2> QED
    BY <1>2, <2>2, CallIs DEF CallIn
<1> QED
  BY <1>1, <1>2

LEMMA CallingStarts == Init => Calling
<1> SUFFICES ASSUME Init PROVE Calling
  OBVIOUS
<1>1. at["MODEM"] = "IDLE" /\ todo = <<ToModem("REQ_START")>>
  BY DEF Init
<1>2. \A i \in DOMAIN todo : todo[i].ev \notin Calls /\ todo[i].ev # "REQ_SIM_READY"
  BY <1>1 DEF ToModem, Event, Calls
<1> QED
  BY <1>1, <1>2, LifeIs DEF Calling

LEMMA InitLives == Init => Life!Init
<1> SUFFICES ASSUME Init PROVE Life!Init
  OBVIOUS
<1>1. /\ at["MODEM"] = "IDLE" /\ at["SIM"] = "IDLE" /\ todo = <<ToModem("REQ_START")>>
      /\ gone = FALSE /\ config.configured = FALSE /\ error = FALSE /\ agreed = FALSE
  BY DEF Init, SimInit, ModemInit
<1>2. LifeSeen = "starting"
  BY <1>1, LifeIs DEF LifeSeen
<1>3. CallSeen = "none"
  <2>1. todo # <<>> /\ Head(todo).ev = "REQ_START"
    BY <1>1 DEF ToModem, Event
  <2>2. "REQ_START" \notin Calls
    BY DEF Calls
  <2> QED
    BY <2>1, <2>2, CallIs DEF CallSeen
<1>4. SimIsReady = FALSE
  BY <1>1 DEF SimIsReady
<1>5. RawIpAgreed = FALSE
  BY <1>1 DEF RawIpAgreed, SetUpForRawIp
<1> QED
  BY <1>1, <1>2, <1>3, <1>4, <1>5 DEF Life!Init

(* A callback: the modem agrees to raw IP, or nothing is seen of it.        *)
LEMMA CallbackLives ==
  ASSUME IInv, Calling, Callback
  PROVE  Calling' /\ (Life!Carry \/ UNCHANGED Life!vars)
<1>1. EngineOK /\ WorldOK /\ Agreeing
  BY DEF IInv
<1>0. PICK r \in Kinds : \E posted : Reports(r, posted) /\ CardStep(r)
  BY <1>1, CallbackReports
<1>2. PICK posted : Reports(r, posted)
  BY <1>0
<1>3. /\ todo = <<>> /\ ~gone /\ todo' = posted /\ posted \in Seq(Posted)
      /\ UNCHANGED <<at, gone, config, link, error>>
  BY <1>2 DEF Reports, Answered, Idle, Running
<1>4. \A i \in DOMAIN posted : posted[i].ev \notin Calls /\ posted[i].ev # "REQ_SIM_READY"
  BY <1>2 DEF Reports, Requests, Calls
<1>5. Calling'
  BY <1>3, <1>4 DEF Calling
<1>6. CallSeen = "none" /\ CallSeen' = "none"
  BY <1>3, <1>4, NoneCalls DEF CallSeen, CallIn
<1>7. LifeSeen' = LifeSeen /\ SimIsReady' = SimIsReady
  BY <1>3 DEF LifeSeen, SimIsReady
<1>8. CASE UNCHANGED agreed
  <2>1. RawIpAgreed' = RawIpAgreed
    BY <1>3, <1>8 DEF RawIpAgreed, SetUpForRawIp
  <2> QED
    BY <1>3, <1>5, <1>6, <1>7, <2>1 DEF Life!vars
<1>9. CASE agreed' # agreed
  <2>1. r = "data_format" /\ agreed' = TRUE
    BY <1>1, <1>2, <1>9 DEF Reports, WorldOK
  <2>2. asked["WDA"] # <<>>
    <3>1. IsAsked(r)
      BY <1>1, <1>2, Answers DEF Reports, EngineOK
    <3> QED
      BY <2>1, <3>1, AskedThere, OnlyDataFormat
  <2>3. at["MODEM"] \in {"CONFIGURE_KERNEL", "DESTROY"} /\ RawIpOnly(link)
    BY <1>1, <2>2 DEF Agreeing
  <2>4. RawIpAgreed' = TRUE
    BY <1>3, <2>1, <2>3 DEF RawIpAgreed, SetUpForRawIp, RawIpOnly
  <2>5. LifeSeen \in {"prepared", "closing"}
    BY <1>3, <2>3, LifeIs DEF LifeSeen
  <2>6. Life!Carry
    BY <1>3, <1>6, <1>7, <2>4, <2>5 DEF Life!Carry
  <2> QED
    BY <1>5, <2>6
<1> QED
  BY <1>8, <1>9

(* What is left when MODEM, or SIM, was given an event: never a call.       *)
LEMMA RestIs ==
  ASSUME EngineOK, Calling, todo # <<>>
  PROVE  /\ Tail(todo) \in Seq(Posted)
         /\ \A i \in DOMAIN Tail(todo) :
               /\ Tail(todo)[i].ev \notin Calls
               /\ Tail(todo)[i].ev = "REQ_SIM_READY" => at["SIM"] = "READY"
<1>1. todo \in Seq(Posted)
  BY DEF EngineOK
<1>2. ASSUME NEW i \in DOMAIN Tail(todo)
      PROVE  i + 1 \in DOMAIN todo /\ Tail(todo)[i] = todo[i + 1] /\ Len(todo) # 1
  BY <1>1, TailIs
<1>3. ASSUME NEW i \in DOMAIN Tail(todo)
      PROVE  /\ Tail(todo)[i].ev \notin Calls
             /\ Tail(todo)[i].ev = "REQ_SIM_READY" => at["SIM"] = "READY"
  BY <1>2 DEF Calling
<1> QED
  BY <1>1, <1>3, TailIs

(* A handler of MODEM: the modem goes its way, or heeds a call.             *)
LEMMA ModemLives ==
  ASSUME IInv, Calling, ModemHandler
  PROVE  Calling' /\ (Life!Next \/ UNCHANGED Life!vars)
<1>1. EngineOK /\ Timing /\ WorldOK /\ Telling /\ Agreeing /\ "CTL" \in services
  BY DEF IInv, Serving
<1>2. PICK new \in ModemStates, requests \in SUBSET Kinds : Steps(new, requests)
  BY <1>1, ModemSteps
<1>3. Moves(new, requests) /\ Walks(new)
  BY <1>2 DEF Steps
<1>4. /\ todo # <<>> /\ ~gone /\ todo' = Tail(todo) /\ at'["MODEM"] = new
      /\ at'["SIM"] = "READY" <=> at["SIM"] = "READY"
      /\ UNCHANGED <<gone, config>>
  BY <1>3 DEF Moves, Arriving, Running
<1>5. todo \in Seq(Posted) /\ 1 \in DOMAIN todo /\ Head(todo) = todo[1]
  BY <1>1, <1>4, TailIs DEF EngineOK
<1>6. CallSeen = CallOf(Head(todo).ev) /\ CallSeen' = "none"
  BY <1>1, <1>4, RestIs, NoneCalls DEF CallSeen, CallIn
<1>7. LifeSeen = LifeOf(at["MODEM"]) /\ LifeSeen' = LifeOf(new)
  BY <1>4 DEF LifeSeen
<1>8. SimIsReady' = SimIsReady /\ (SimIsReady <=> at["SIM"] = "READY")
  BY <1>4 DEF SimIsReady
<1>9. UNCHANGED <<link, agreed>> => RawIpAgreed' = RawIpAgreed
  BY DEF RawIpAgreed, SetUpForRawIp
<1>10. RawIpAgreed' \in BOOLEAN
  BY DEF RawIpAgreed, SetUpForRawIp
<1>11. /\ Head(todo).ev = "REQ_CONFIGURED" => config.configured
       /\ Head(todo).ev = "REQ_SIM_READY" => SimIsReady
  BY <1>5, <1>8 DEF Calling, Calls
<1>12. ForDataFormat => RawIpAgreed
  BY <1>1, <1>5 DEF Agreeing, ForDataFormat, RawIpAgreed, SetUpForRawIp, RawIpOnly
<1>13. \A i \in DOMAIN todo' : /\ todo'[i].ev \notin Calls
                               /\ todo'[i].ev = "REQ_SIM_READY" => at'["SIM"] = "READY"
  BY <1>1, <1>4, RestIs
<1>14. ASSUME /\ LifeSeen' \in {"waiting", "prepared", "connecting", "live"} => config.configured
              /\ LifeSeen' \in {"prepared", "connecting", "live"} => SimIsReady
       PROVE  Calling'
  BY <1>4, <1>7, <1>8, <1>13, <1>14 DEF Calling
<1>15. /\ LifeSeen \in {"waiting", "prepared", "connecting", "live"} => config.configured
       /\ LifeSeen \in {"prepared", "connecting", "live"} => SimIsReady
  BY <1>7, <1>8 DEF Calling
<1>16. UNCHANGED config.configured
  BY <1>4
<1>17. NoCall => CallSeen = "none"
  BY <1>6, CallIs DEF NoCall
<1>18. CASE Stays(new)
  <2>1. LifeSeen' = LifeSeen /\ UNCHANGED error
    BY <1>7, <1>18 DEF Stays
  <2>2. Calling'
    BY <1>14, <1>15, <2>1
  <2>3. CASE NoCall
    <3>1. CallSeen' = CallSeen
      BY <1>6, <1>17, <2>3
    <3>2. CASE UNCHANGED <<link, agreed>>
      BY <1>8, <1>9, <1>16, <2>1, <3>1, <3>2, <2>2 DEF Life!vars
    <3>3. CASE LifeSeen = "prepared"
      <4>1. Life!Carry
        BY <1>8, <1>10, <1>16, <1>17, <2>1, <2>3, <3>1, <3>3 DEF Life!Carry
      <4> QED
        BY <2>2, <4>1 DEF Life!Next
    <3> QED
      BY <1>7, <1>18, <2>1, <3>2, <3>3 DEF Stays
  <2>4. CASE ~NoCall
    <3>1. CallSeen = "configure" /\ LifeSeen # "off" /\ UNCHANGED <<link, agreed>>
      BY <1>6, <1>7, <1>18, <2>4, CallIs DEF Stays, NoCall, Calls
    <3>2. Life!PassOver
      BY <1>6, <1>8, <1>9, <1>16, <2>1, <3>1 DEF Life!PassOver
    <3> QED
      BY <2>2, <3>2 DEF Life!Next
  <2> QED
    BY <2>3, <2>4
<1>19. CASE Passes(new, "starting", "off") /\ NoCall /\ UNCHANGED error
  <2>1. LifeSeen = "starting" /\ LifeSeen' = "off" /\ RawIpAgreed' = RawIpAgreed
    BY <1>7, <1>9, <1>19 DEF Passes
  <2>2. Life!Start
    BY <1>6, <1>8, <1>16, <1>17, <1>19, <2>1 DEF Life!Start, Life!Goes
  <2> QED
    BY <1>14, <2>1, <2>2 DEF Life!Next
<1>20. CASE /\ Passes(new, "off", IF at["SIM"] = "READY" THEN "prepared" ELSE "waiting")
            /\ Head(todo).ev = "REQ_CONFIGURED" \/ (NoCall /\ GoesOn)
            /\ UNCHANGED error
  <2>1. /\ LifeSeen = "off" /\ RawIpAgreed' = RawIpAgreed
        /\ LifeSeen' = IF SimIsReady THEN "prepared" ELSE "waiting"
    BY <1>7, <1>8, <1>9, <1>20 DEF Passes
  <2>2. Life!Wanted /\ config.configured
    BY <1>6, <1>11, <1>17, <1>20, CallIs DEF Life!Wanted, GoesOn
  <2>3. Life!Connect
    BY <1>6, <1>8, <1>16, <1>20, <2>1, <2>2 DEF Life!Connect
  <2> QED
    BY <1>14, <2>1, <2>2, <2>3 DEF Life!Next
<1>21. CASE Passes(new, "waiting", "prepared") /\ Head(todo).ev = "REQ_SIM_READY" /\ UNCHANGED error
  <2>1. /\ LifeSeen = "waiting" /\ LifeSeen' = "prepared" /\ RawIpAgreed' = RawIpAgreed
        /\ NoCall
    BY <1>7, <1>9, <1>21 DEF Passes, NoCall, Calls
  <2>2. Life!Proceed
    BY <1>6, <1>8, <1>11, <1>16, <1>17, <1>21, <2>1 DEF Life!Proceed, Life!Goes
  <2> QED
    BY <1>11, <1>14, <1>15, <1>21, <2>1, <2>2 DEF Life!Next
<1>22. CASE Passes(new, "prepared", "connecting") /\ ForDataFormat /\ NoCall /\ UNCHANGED error
  <2>1. LifeSeen = "prepared" /\ LifeSeen' = "connecting" /\ RawIpAgreed' = RawIpAgreed
    BY <1>7, <1>9, <1>22 DEF Passes
  <2>2. Life!Search
    BY <1>6, <1>8, <1>12, <1>16, <1>17, <1>22, <2>1 DEF Life!Search, Life!Goes
  <2> QED
    BY <1>14, <1>15, <2>1, <2>2 DEF Life!Next
<1>23. CASE Passes(new, "connecting", "live") /\ NoCall /\ UNCHANGED error
  <2>1. LifeSeen = "connecting" /\ LifeSeen' = "live" /\ RawIpAgreed' = RawIpAgreed
    BY <1>7, <1>9, <1>23 DEF Passes
  <2>2. Life!Succeed
    BY <1>6, <1>8, <1>16, <1>17, <1>23, <2>1 DEF Life!Succeed, Life!Goes
  <2> QED
    BY <1>14, <1>15, <2>1, <2>2 DEF Life!Next
<1>24. CASE Passes(new, "connecting", "off") /\ NoCall /\ error' = TRUE
  <2>1. LifeSeen = "connecting" /\ LifeSeen' = "off" /\ RawIpAgreed' = RawIpAgreed
    BY <1>7, <1>9, <1>24 DEF Passes
  <2>2. Life!Fail
    BY <1>6, <1>8, <1>16, <1>17, <1>24, <2>1 DEF Life!Fail, Life!Goes
  <2> QED
    BY <1>14, <2>1, <2>2 DEF Life!Next
<1>25. CASE /\ LifeOf(new) = "closing" /\ Head(todo).ev = "REQ_DESTROY"
            /\ UNCHANGED <<error, link, agreed>>
  <2>1. CallSeen = "remove" /\ LifeSeen' = "closing" /\ RawIpAgreed' = RawIpAgreed
    BY <1>6, <1>7, <1>9, <1>25, CallIs
  <2>2. Life!Close
    BY <1>6, <1>8, <1>16, <1>25, <2>1 DEF Life!Close
  <2> QED
    BY <1>14, <2>1, <2>2 DEF Life!Next
<1> QED
  BY <1>3, <1>18, <1>19, <1>20, <1>21, <1>22, <1>23, <1>24, <1>25 DEF Walks

(* A handler of SIM: SIM is ready, or nothing is seen of it.                *)
LEMMA SimLives ==
  ASSUME IInv, Calling, SimHandler, UNCHANGED modemVars
  PROVE  Calling' /\ (Life!Unlock \/ UNCHANGED Life!vars)
<1>1. EngineOK /\ CardOK
  BY DEF IInv
<1>2. PICK new \in SimStateNames, requests \in SUBSET Kinds : SimSteps(new, requests)
  BY <1>1, SimHandlerSteps
<1>3. SimMoves(new, requests) /\ Tells(new)
  BY <1>2 DEF SimSteps
<1>4. /\ todo # <<>> /\ ~gone /\ Head(todo).to = "SIM"
      /\ at'["MODEM"] = at["MODEM"] /\ at'["SIM"] = new
      /\ at["SIM"] = "READY" => new = "READY"
      /\ UNCHANGED <<gone, config, error, link, agreed>>
  BY <1>3 DEF SimMoves, Arriving, Running, modemVars
<1>5. todo \in Seq(Posted) /\ 1 \in DOMAIN todo /\ Head(todo) = todo[1]
  BY <1>1, <1>4, TailIs DEF EngineOK
<1>6. CallSeen = "none"
  <2>1. Head(todo).ev \notin Calls
    BY <1>4, <1>5 DEF Calling
  <2> QED
    BY <1>4, <2>1, CallIs DEF CallSeen
<1>7. /\ todo' \in Seq(Posted)
      /\ \A i \in DOMAIN todo' : /\ todo'[i].ev \notin Calls
                                 /\ todo'[i].ev = "REQ_SIM_READY" => new = "READY"
  <2> DEFINE t == Tail(todo)
  <2>1. /\ t \in Seq(Posted)
        /\ \A i \in DOMAIN t : t[i].ev \notin Calls /\ (t[i].ev = "REQ_SIM_READY" => new = "READY")
    BY <1>1, <1>4, RestIs
  <2>2. Ready \in Posted /\ Ready.ev \notin Calls
    BY DEF Ready, ToModem, Event, Posted, EventNames, Arguments, Calls
  <2>3. todo' = t \/ (todo' = <<Ready>> \o t /\ new = "READY")
    BY <1>3 DEF Tells
  <2> HIDE DEF Ready, t
  <2>4. CASE todo' = t
    BY <2>1, <2>4
  <2>5. CASE todo' = <<Ready>> \o t /\ new = "READY"
    <3>1. todo' \in Seq(Posted) /\ Len(todo') = Len(t) + 1 /\ todo'[1] = Ready
      BY <2>1, <2>2, <2>5
    <3>2. ASSUME NEW i \in DOMAIN todo', i # 1
          PROVE  i - 1 \in DOMAIN t /\ todo'[i] = t[i - 1]
      BY <2>1, <2>2, <2>5, <3>1, <3>2
    <3>3. ASSUME NEW i \in DOMAIN todo'
          PROVE  todo'[i].ev \notin Calls
      BY <2>1, <2>2, <3>1, <3>2
    <3> QED
      BY <2>5, <3>1, <3>3
  <2> QED
    BY <2>3, <2>4, <2>5
<1>8. Calling'
  BY <1>4, <1>7 DEF Calling
<1>9. CallSeen' = "none"
  BY <1>7, NoneCalls DEF CallSeen, CallIn
<1>10. LifeSeen' = LifeSeen /\ RawIpAgreed' = RawIpAgreed /\ LifeSeen # "gone"
  <2>1. at["MODEM"] \in ModemStates
    BY <1>1 DEF EngineOK
  <2> QED
    BY <1>4, <2>1, LifeIs, ModemStatesAre DEF LifeSeen, RawIpAgreed, SetUpForRawIp
<1>11. CASE new = "READY"
  <2>1. SimIsReady' = TRUE
    BY <1>4, <1>11 DEF SimIsReady
  <2>2. Life!Unlock
    BY <1>4, <1>6, <1>9, <1>10, <2>1 DEF Life!Unlock
  <2> QED
    BY <1>8, <2>2
<1>12. CASE new # "READY"
  <2>1. SimIsReady' = SimIsReady
    BY <1>4, <1>12 DEF SimIsReady
  <2> QED
    BY <1>4, <1>6, <1>8, <1>9, <1>10, <2>1 DEF Life!vars
<1> QED
  BY <1>11, <1>12

(* A step is not seen that leaves the machines, the events they are given,  *)
(* the configuration and the interface as they are.                         *)
LEMMA Unseen ==
  ASSUME Calling, UNCHANGED <<at, todo, gone, config, error, link, agreed>>
  PROVE  Calling' /\ UNCHANGED Life!vars
<1>1. Calling'
  BY DEF Calling
<1>2. LifeSeen' = LifeSeen /\ CallSeen' = CallSeen
  BY DEF LifeSeen, CallSeen
<1>3. SimIsReady' = SimIsReady /\ RawIpAgreed' = RawIpAgreed
  BY DEF SimIsReady, RawIpAgreed, SetUpForRawIp
<1> QED
  BY <1>1, <1>2, <1>3 DEF Life!vars

(* The timer: the modem is broken, or nothing is seen of it.                *)
LEMMA TimerLives ==
  ASSUME IInv, Calling, TimerCallback
  PROVE  Calling' /\ (Life!Break \/ UNCHANGED Life!vars)
<1>1. EngineOK /\ Timing /\ todo = <<>> /\ ~gone
  BY DEF IInv, TimerCallback, TimerPolls, TimerResends, TimerFails, TimerIgnored, Expires,
         Idle, Running
<1>2. CASE TimerFails
  <2>1. at["MODEM"] = "RESYNC" /\ Enter(<<"FAILED">>, FALSE, N_NONE, {})
    BY <1>1, <1>2 DEF TimerFails, Timing
  <2>2. "FAILED" \in modem_out_states[at["MODEM"]] /\ "FAILED" \in ModemStates
    BY <2>1, ModemMayChange, ModemStatesAre
  <2>3. at'["MODEM"] = "FAILED" /\ at'["SIM"] = at["SIM"]
    BY <1>1, <2>1, <2>2, EnteredOne
  <2>4. UNCHANGED <<todo, gone, config, error, link, agreed>>
    BY <1>2 DEF TimerFails, others, simVars, modemVars
  <2>5. Calling'
    BY <1>1, <2>3, <2>4, LifeIs DEF Calling
  <2>6. LifeSeen = "starting" /\ LifeSeen' = "broken"
    BY <1>1, <2>1, <2>3, <2>4, LifeIs DEF LifeSeen
  <2>7. CallSeen = "none" /\ CallSeen' = "none"
    BY <1>1, <2>4 DEF CallSeen
  <2>8. SimIsReady' = SimIsReady /\ RawIpAgreed' = RawIpAgreed
    BY <2>3, <2>4 DEF SimIsReady, RawIpAgreed, SetUpForRawIp
  <2>9. Life!Break
    BY <2>4, <2>6, <2>7, <2>8 DEF Life!Break, Life!Goes
  <2> QED
    BY <2>5, <2>9
<1>3. CASE TimerPolls \/ TimerResends \/ TimerIgnored
  <2>1. UNCHANGED <<at, todo, gone, config, error, link, agreed>>
    BY <1>3 DEF TimerPolls, TimerResends, TimerIgnored, others, simVars, modemVars
  <2> QED
    BY <1>1, <2>1, Unseen
<1> QED
  BY <1>2, <1>3 DEF TimerCallback

(* The calls, the end, and what nothing is seen of.                         *)
LEMMA OutsideLives ==
  ASSUME IInv, Calling, Outside
  PROVE  Calling' /\ (Life!Next \/ UNCHANGED Life!vars)
<1>1. at["MODEM"] \in ModemStates /\ ~gone
  BY DEF IInv, EngineOK, Outside, Configure, RemoveModem, ServiceFreed, Freed, CoverageComes,
         Idle, Running
<1>2. LifeSeen = LifeOf(at["MODEM"]) /\ LifeSeen # "gone"
  BY <1>1, LifeIs, ModemStatesAre DEF LifeSeen
<1>3. CASE Configure
  <2> DEFINE e == ToModem("REQ_CONFIGURED")
  <2>1. /\ todo = <<>> /\ todo' = <<e>> /\ config' \in Given
        /\ UNCHANGED <<at, gone, error, link, agreed>>
    BY <1>3 DEF Configure, Idle, engineBut, modemVars
  <2>2. config'.configured = TRUE
    BY <2>1, GivenAssumption
  <2>3. e.ev = "REQ_CONFIGURED" /\ e.to = "MODEM"
    BY DEF ToModem, Event
  <2> HIDE DEF e
  <2>4. todo' # <<>> /\ Head(todo') = e /\ Len(todo') = 1 /\ \A i \in DOMAIN todo' : todo'[i] = e
    BY <2>1
  <2>5. Calling'
    BY <2>1, <2>2, <2>3, <2>4 DEF Calling
  <2>6. CallSeen = "none" /\ CallSeen' = "configure"
    BY <2>1, <2>3, <2>4, CallIs DEF CallSeen
  <2>7. LifeSeen' = LifeSeen /\ SimIsReady' = SimIsReady /\ RawIpAgreed' = RawIpAgreed
    BY <2>1 DEF LifeSeen, SimIsReady, RawIpAgreed, SetUpForRawIp
  <2>8. Life!Configure
    BY <1>2, <2>1, <2>2, <2>6, <2>7 DEF Life!Configure
  <2> QED
    BY <2>5, <2>8 DEF Life!Next
<1>4. CASE RemoveModem
  <2> DEFINE e == ToModem("REQ_DESTROY")
  <2>1. /\ todo = <<>> /\ todo' = <<e>> /\ at["MODEM"] # "DESTROY"
        /\ UNCHANGED <<at, gone, config, error, link, agreed>>
    BY <1>4 DEF RemoveModem, Idle, engineBut, simVars, modemVars
  <2>2. e.ev = "REQ_DESTROY" /\ e.to = "MODEM"
    BY DEF ToModem, Event
  <2> HIDE DEF e
  <2>3. todo' # <<>> /\ Head(todo') = e /\ Len(todo') = 1 /\ \A i \in DOMAIN todo' : todo'[i] = e
    BY <2>1
  <2>4. Calling'
    BY <2>1, <2>2, <2>3 DEF Calling
  <2>5. CallSeen = "none" /\ CallSeen' = "remove"
    BY <2>1, <2>2, <2>3, CallIs DEF CallSeen
  <2>6. LifeSeen' = LifeSeen /\ SimIsReady' = SimIsReady /\ RawIpAgreed' = RawIpAgreed
    BY <2>1 DEF LifeSeen, SimIsReady, RawIpAgreed, SetUpForRawIp
  <2>7. LifeSeen \notin {"closing", "gone"}
    BY <1>1, <1>2, <2>1, LifeIs, ModemStatesAre
  <2>8. Life!Remove
    BY <2>1, <2>5, <2>6, <2>7 DEF Life!Remove
  <2> QED
    BY <2>4, <2>8 DEF Life!Next
<1>5. CASE Freed
  <2>1. todo = <<>> /\ gone' = TRUE /\ UNCHANGED <<at, todo, config, error, link, agreed>>
    BY <1>5 DEF Freed, Idle, simVars, modemVars
  <2>2. Calling'
    BY <2>1 DEF Calling
  <2>3. CallSeen = "none" /\ CallSeen' = "none"
    BY <2>1 DEF CallSeen
  <2>4. SimIsReady' = SimIsReady /\ RawIpAgreed' = RawIpAgreed
    BY <2>1 DEF SimIsReady, RawIpAgreed, SetUpForRawIp
  <2>5. LifeSeen' = "gone"
    BY <2>1 DEF LifeSeen
  <2>6. Life!Vanish
    BY <1>2, <2>1, <2>3, <2>4, <2>5 DEF Life!Vanish
  <2> QED
    BY <2>2, <2>6 DEF Life!Next
<1>6. CASE ServiceFreed
  <2>1. UNCHANGED <<at, todo, gone, config, error, link, agreed>>
    BY <1>6 DEF ServiceFreed, simVars, modemVars
  <2> QED
    BY <2>1, Unseen
<1>7. CASE CoverageComes
  <2>1. UNCHANGED <<at, todo, gone, config, error, link, agreed>>
    BY <1>7 DEF CoverageComes, engineVars, simVars
  <2> QED
    BY <2>1, Unseen
<1> QED
  BY <1>3, <1>4, <1>5, <1>6, <1>7 DEF Outside

LEMMA NextLives ==
  ASSUME IInv, Calling, [Next]_vars
  PROVE  Calling' /\ (Life!Next \/ UNCHANGED Life!vars)
<1>1. CASE Callback
  BY <1>1, CallbackLives DEF Life!Next
<1>2. CASE Handler
  BY <1>2, ModemLives, SimLives DEF Handler, Life!Next
<1>3. CASE TimerCallback
  BY <1>3, TimerLives DEF Life!Next
<1>4. CASE Outside
  BY <1>4, OutsideLives
<1>5. CASE UNCHANGED vars
  <2>1. UNCHANGED <<at, todo, gone, config, error, link, agreed>>
    BY <1>5 DEF vars, engineVars, simVars, modemVars
  <2> QED
    BY <2>1, Unseen
<1> QED
  BY <1>1, <1>2, <1>3, <1>4, <1>5 DEF Next, Outside

LEMMA CallingInvariant == Spec => []Calling
<1>1. IInv /\ Calling /\ [Next]_vars => Calling'
  BY NextLives
<1> QED
  BY <1>1, CallingStarts, Invariance, PTL DEF Spec

(* A modem is connected, or on the way there, only if the user configured   *)
(* it and its SIM is ready, whatever the order in which calls, answers and  *)
(* the events between the machines came (modem_fsm.c:409-450).              *)
THEOREM SimNeededCorrect == Spec => []ConnectsOnlyWithSim
<1>1. Calling => ConnectsOnlyWithSim
  BY LifeIs DEF Calling, ConnectsOnlyWithSim, State
<1> QED
  BY <1>1, CallingInvariant, PTL

(* To those who use it over ubus, a modem lives as ModemLife promises: it   *)
(* connects when told and with what it needs, does not try again untold     *)
(* after a connection failed, and heeds every call made while it is off     *)
(* (ubus.c:287-345, modem.c:79-181, modem_fsm.c:409-450).                   *)
THEOREM LifeKept == Spec => LivesAsPromised
<1>1. IInv /\ Calling /\ [Next]_vars => [Life!Next]_(Life!vars)
  BY NextLives
<1> QED
  BY <1>1, InitLives, Invariance, CallingInvariant, PTL DEF Spec, LivesAsPromised, Life!Spec

===============================================================================
