---------------------------- MODULE NetworkProofs ----------------------------
(*******************************************************************************************)
(* Invariants of the parts of Network, each for every value of its constants: that a port  *)
(* leads to one listener and segments are counted right (StreamPorts); that endpoints of   *)
(* both families lead where the core meant (UdpSockets); that every rendezvous packet goes *)
(* out once (Rendezvous); and that the sockets of modules/select_unix and of               *)
(* modules/libevent implement SocketContract, in every order of the core's calls, an abort *)
(* from another thread, the network thread's steps and libevent's callbacks, and for every *)
(* size of the pipe, the network thread never resolving for a socket that is gone. A       *)
(* component of Network moves only by its own next-state relation, so a fact of all its    *)
(* behaviours is one of Network's.                                                         *)
(*******************************************************************************************)
EXTENDS Network, SequenceTheorems, FiniteSetTheorems, TLAPS

\* What a leaf is tried with, in this order, unless it names a prover of its own.
USE SMTT(30), Zenon, SMTT(60)

-----------------------------------------------------------------------------
(* StreamPorts *)

\* The record with its types. That PortsAndSegments holds follows from it and the two facts
\* of PInv, which every call preserves on its own: the manager looks the port up and takes it
\* under one lock.
PortsState ==
    [call : [PortUsers -> Calls \cup {<< >>}], mutex : PortUsers \cup {"free"},
     isInitialized : SUBSET PortListeners,
     ports : [PortListeners -> FixedPorts \cup EphemeralPorts \cup {0}],
     live : [{"send", "recv"} -> 0..MaxLive], allocated : 0..(2 * MaxLive), max : Nat]

Distinct(ports) == \A l, k \in PortListeners : l # k /\ ports[l] # 0 => ports[l] # ports[k]

PInv ==
    /\ spo \in PortsState
    /\ Distinct(spo.ports)
    /\ spo.allocated = spo.live["send"] + spo.live["recv"]

\* nc_stream_manager_init establishes the invariant.
LEMMA PortsStart == PortsInit => PInv
  BY MaxLiveAssumption DEF PortsInit, PInv, PortsState, Distinct

\* A listener that is added with a port nobody has, or is not added, leaves the ports distinct
\* (nc_stream_manager_add_listener).
LEMMA ListenerAdded ==
    ASSUME PInv, NEW u \in PortUsers, NEW l \in PortListeners,
           NEW p \in FixedPorts \cup EphemeralPorts \cup {0},
           spo' = Returned(u, InitListenerWith(u, l, p))
    PROVE  PInv'
<1> USE DEF PInv, PortsState
<1>1. CASE AddListener(l, p) # "OK"
  <2>1. spo' = [[spo EXCEPT !.mutex = u, !.isInitialized = @ \cup {l}] EXCEPT !.call[u] = << >>]
    BY <1>1 DEF Returned, InitListenerWith
  <2>2. spo'.call = [spo.call EXCEPT ![u] = << >>] /\ spo'.call \in [PortUsers -> Calls \cup {<< >>}]
    BY <2>1
  <2>3. /\ spo' = [spo EXCEPT !.mutex = u, !.isInitialized = @ \cup {l}, !.call = spo'.call]
        /\ spo.isInitialized \cup {l} \in SUBSET PortListeners
    BY <2>1, <2>2
  <2> QED BY ZenonT(40), <2>2, <2>3
<1>2. CASE AddListener(l, p) = "OK"
  <2>1. spo' = [[spo EXCEPT !.isInitialized = @ \cup {l}, !.ports[l] = p] EXCEPT !.call[u] = << >>]
    BY <1>2 DEF Returned, InitListenerWith
  <2>2. spo'.ports = [spo.ports EXCEPT ![l] = p]
    BY <2>1
  <2>3. \A k \in PortListeners : spo.ports[k] # p
    BY <1>2 DEF AddListener, PortInUse
  <2>4. Distinct(spo'.ports)
    BY <2>2, <2>3 DEF Distinct
  <2>5. spo' \in PortsState /\ spo'.allocated = spo.allocated /\ spo'.live = spo.live
    <3>1. spo'.call = [spo.call EXCEPT ![u] = << >>] /\ spo'.call \in [PortUsers -> Calls \cup {<< >>}]
      BY <2>1
    <3>2. /\ spo' = [spo EXCEPT !.isInitialized = @ \cup {l}, !.ports = spo'.ports, !.call = spo'.call]
          /\ spo.isInitialized \cup {l} \in SUBSET PortListeners
          /\ spo'.ports \in [PortListeners -> FixedPorts \cup EphemeralPorts \cup {0}]
      BY <2>1, <2>2, <3>1
    <3> QED BY ZenonT(40), <3>1, <3>2
  <2> QED BY <2>4, <2>5
<1> QED BY <1>1, <1>2

\* One segment more or less is counted as one (nc_stream_manager_alloc_send_segment,
\* nc_stream_manager_free_send_segment and their like).
LEMMA SegmentsCounted ==
    ASSUME PInv, NEW k \in {"send", "recv"}, NEW d \in {-1, 1},
           spo.live[k] + d \in 0..MaxLive,
           spo' = [spo EXCEPT !.allocated = @ + d, !.live[k] = @ + d]
    PROVE  PInv'
<1> USE MaxLiveAssumption DEF PInv, PortsState
<1>1. spo'.live = [spo.live EXCEPT ![k] = @ + d] /\ spo'.live \in [{"send", "recv"} -> 0..MaxLive]
  OBVIOUS
<1>2. spo'.allocated = spo.allocated + d
  OBVIOUS
<1>3. spo'.allocated = spo'.live["send"] + spo'.live["recv"]
  <2>1. spo.allocated = spo.live["send"] + spo.live["recv"] /\ spo.live \in [{"send", "recv"} -> 0..MaxLive]
    OBVIOUS
  <2>2. CASE k = "send"
    <3>1. spo'.live["send"] = spo.live["send"] + d /\ spo'.live["recv"] = spo.live["recv"]
      BY ONLY <1>1, <2>1, <2>2
    <3> QED BY ONLY <1>2, <2>1, <3>1, MaxLiveAssumption, d \in Int
  <2>3. CASE k = "recv"
    <3>1. spo'.live["send"] = spo.live["send"] /\ spo'.live["recv"] = spo.live["recv"] + d
      BY ONLY <1>1, <2>1, <2>3
    <3> QED BY ONLY <1>2, <2>1, <3>1, MaxLiveAssumption, d \in Int
  <2> QED BY <2>2, <2>3
<1>4. spo'.allocated \in 0..(2 * MaxLive)
  <2>1. spo'.live["send"] \in 0..MaxLive /\ spo'.live["recv"] \in 0..MaxLive
    BY <1>1
  <2> QED BY ONLY <1>3, <2>1, MaxLiveAssumption
<1>5. spo' = [spo EXCEPT !.allocated = spo'.allocated, !.live = spo'.live]
  OBVIOUS
<1> QED BY Zenon, <1>1, <1>3, <1>4, <1>5

\* Every step keeps the invariant.
LEMMA PortsStep == PInv /\ [PortsNext]_spo => PInv'
<1> SUFFICES ASSUME PInv, [PortsNext]_spo PROVE PInv'
  OBVIOUS
<1>0. CASE UNCHANGED spo
  BY <1>0 DEF PInv
<1>1. ASSUME NEW u \in PortUsers, StreamInitListener(u) PROVE PInv'
  <2>1. spo.call[u] \in Calls /\ spo.call[u][1] = "listen"
    BY <1>1 DEF StreamInitListener, PInv, PortsState
  <2>2. spo.call[u][2] \in PortListeners /\ spo.call[u][3] \in FixedPorts
    BY <2>1 DEF Calls
  <2> QED BY <1>1, <2>2, ListenerAdded DEF StreamInitListener
<1>2. ASSUME NEW u \in PortUsers, StreamInitListenerEphemeral(u) PROVE PInv'
  <2>1. spo.call[u] \in Calls /\ spo.call[u][1] = "ephemeral"
    BY <1>2 DEF StreamInitListenerEphemeral, PInv, PortsState
  <2>2. spo.call[u][2] \in PortListeners
    BY <2>1 DEF Calls
  <2>3. EphemeralStreamPort \subseteq FixedPorts \cup EphemeralPorts \cup {0}
    BY DEF EphemeralStreamPort
  <2> QED BY <1>2, <2>2, <2>3, ListenerAdded DEF StreamInitListenerEphemeral
<1>3. ASSUME NEW u \in PortUsers, PortListenerStop(u) PROVE PInv'
  <2>1. spo.call[u] \in Calls /\ spo.call[u][1] = "stop"
    BY <1>3 DEF PortListenerStop, PInv, PortsState
  <2>2. PICK l \in PortListeners : l = spo.call[u][2]
    BY <2>1 DEF Calls
  <2>3. spo' = [[spo EXCEPT !.ports[l] = 0, !.isInitialized = @ \ {l}] EXCEPT !.call[u] = << >>]
    BY <1>3, <2>2 DEF PortListenerStop, Returned
  <2> QED BY ZenonT(40), <2>3 DEF PInv, PortsState, Distinct
<1>4. ASSUME NEW u \in PortUsers, NEW c \in Calls, PortCall(u, c) PROVE PInv'
  BY <1>4 DEF PortCall, PInv, PortsState, Distinct
<1>5. ASSUME NEW memory \in BOOLEAN, AllocSendSegment(memory) \/ AllocRecvSegment(memory) PROVE PInv'
  <2>1. PICK k \in {"send", "recv"} :
          /\ spo.live[k] < MaxLive
          /\ spo' = spo \/ spo' = [spo EXCEPT !.allocated = @ + 1, !.live[k] = @ + 1]
    BY <1>5 DEF AllocSendSegment, AllocRecvSegment
  <2>2. spo.live[k] + 1 \in 0..MaxLive
    BY <2>1, MaxLiveAssumption DEF PInv, PortsState
  <2>3. CASE spo' = spo
    BY <2>3 DEF PInv
  <2> QED BY Zenon, <2>1, <2>2, <2>3, SegmentsCounted
<1>6. ASSUME FreeSendSegment \/ FreeRecvSegment PROVE PInv'
  <2>1. PICK k \in {"send", "recv"} :
          /\ spo.live[k] > 0
          /\ spo' = [spo EXCEPT !.allocated = @ - 1, !.live[k] = @ - 1]
    BY <1>6 DEF FreeSendSegment, FreeRecvSegment
  <2>2. spo.live[k] + (-1) \in 0..MaxLive
    BY <2>1, MaxLiveAssumption DEF PInv, PortsState
  <2>3. spo' = [spo EXCEPT !.allocated = @ + (-1), !.live[k] = @ + (-1)]
    BY Zenon, <2>1, MaxLiveAssumption DEF PInv, PortsState
  <2> QED BY Zenon, <2>2, <2>3, SegmentsCounted
<1>7. ASSUME NEW n \in {1, MaxLive}, SetMaxSegments(n) PROVE PInv'
  BY <1>7, MaxLiveAssumption DEF SetMaxSegments, PInv, PortsState, Distinct
<1> QED
  BY <1>0, <1>1, <1>2, <1>3, <1>4, <1>5, <1>6, <1>7 DEF PortsNext, PortsRun

\* A port leads to one listener, and the count of segments is that of the segments held
\* (nc_stream_manager_add_listener, nc_stream_manager_alloc_send_segment and its like).
THEOREM PortsAndSegmentsHold == PortsInit /\ [][PortsNext]_spo => []PortsAndSegments
<1>1. PInv => PortsAndSegments
  BY DEF PInv, PortsState, PortsAndSegments, PortsTypeOK, Distinct
<1> QED
  BY <1>1, PortsStart, PortsStep, PTL

-----------------------------------------------------------------------------
(* UdpSockets *)

\* An endpoint stands for the host it was learnt from: that is where the system sends to when it is
\* given the address as it is. What udp_send_to makes of it on the other kind of socket keeps that.
UskInv ==
    /\ usk \in [impl : {"select", "libevent"}, type : {-1, 0, 4, 6}, known : SUBSET (Addresses \X Wire),
                receives : BOOLEAN, sent : [ec : {"none", "OK", "FAILED_TO_SEND_PACKET"}, to : SUBSET Wire]]
    /\ usk.receives => usk.type \in {4, 6}
    /\ \A k \in usk.known : KernelTo(k[1]) = k[2]

\* The forms of an address: IPv4, IPv4-mapped, and another IPv6 address.
LEMMA AddressForms ==
    ASSUME NEW ip \in Addresses
    PROVE  /\ ip.type \in {4, 6} /\ ip.host \in HostBytes
           /\ ip.type = 4 => ip = V4(ip.host)
           /\ ip.type = 6 => ip.prefix \in AddressPrefixes /\ ip = V6(ip.prefix, ip.host)
<1>1. ASSUME NEW h \in HostBytes, ip = V4(h)
      PROVE  ip.type = 4 /\ ip.host = h
  BY Zenon, <1>1 DEF V4
<1>2. ASSUME NEW p \in AddressPrefixes, NEW h \in HostBytes, ip = V6(p, h)
      PROVE  ip.type = 6 /\ ip.prefix = p /\ ip.host = h
  BY <1>2 DEF V6
<1>3. (\E h \in HostBytes : ip = V4(h)) \/ \E p \in AddressPrefixes, h \in HostBytes : ip = V6(p, h)
  <2>1. ip \in {V4(h) : h \in HostBytes} => \E h \in HostBytes : ip = V4(h)
    BY Zenon
  <2>2. ip \in {V6(p, h) : p \in AddressPrefixes, h \in HostBytes} =>
          \E p \in AddressPrefixes, h \in HostBytes : ip = V6(p, h)
    OBVIOUS
  <2> QED BY <2>1, <2>2 DEF Addresses
<1> QED BY <1>1, <1>2, <1>3

LEMMA KernelToWire ==
    ASSUME NEW ip \in Addresses
    PROVE  KernelTo(ip) \in Wire
<1>1. CASE ip.type = 4 \/ IsV4Mapped(ip)
  BY <1>1, AddressForms DEF KernelTo, Wire
<1>2. CASE ~(ip.type = 4 \/ IsV4Mapped(ip))
  <2>1. ip.type = 6 /\ ip.prefix \in {"global", "link"} /\ ip.host \in HostBytes
    BY <1>2, AddressForms DEF IsV4Mapped, AddressPrefixes
  <2> QED BY <1>2, <2>1 DEF KernelTo, Wire
<1> QED BY <1>1, <1>2

\* The address of a datagram leads back to its sender.
LEMMA KernelFromLeadsBack ==
    ASSUME NEW type \in {4, 6}, NEW w \in Wire, type = 4 => w[1] = 4
    PROVE  KernelFrom(type, w) \in Addresses /\ KernelTo(KernelFrom(type, w)) = w
<1>1. CASE w \in {4} \X HostBytes
  <2>1. w[1] = 4 /\ w[2] \in HostBytes /\ w = <<4, w[2]>>
    BY <1>1
  <2>2. KernelFrom(type, w) \in {V4(w[2]), V6("mapped", w[2])}
    BY <2>1 DEF KernelFrom
  <2>3. V4(w[2]) \in Addresses /\ V6("mapped", w[2]) \in Addresses
    BY <2>1 DEF Addresses, AddressPrefixes
  <2>4. KernelTo(V4(w[2])) = w /\ KernelTo(V6("mapped", w[2])) = w
    BY <2>1 DEF KernelTo, V4, V6, IsV4Mapped
  <2> QED BY <2>2, <2>3, <2>4
<1>2. CASE w \in {6} \X {"global", "link"} \X HostBytes
  <2>1. w[1] = 6 /\ w[2] \in {"global", "link"} /\ w[3] \in HostBytes /\ w = <<6, w[2], w[3]>>
    BY <1>2
  <2>2. KernelFrom(type, w) = V6(w[2], w[3])
    BY <2>1 DEF KernelFrom
  <2>3. V6(w[2], w[3]) \in Addresses
    BY <2>1 DEF Addresses, AddressPrefixes
  <2>4. KernelTo(V6(w[2], w[3])) = w
    BY <2>1 DEF KernelTo, V6, IsV4Mapped
  <2> QED BY <2>2, <2>3, <2>4
<1> QED BY <1>1, <1>2 DEF Wire

\* What udp_send_to gives to sendto() leads to the same host; only an IPv4 socket has none for an
\* IPv6 host.
LEMMA SendIpLeads ==
    ASSUME NEW type \in {4, 6}, NEW ip \in Addresses
    PROVE  /\ \A a \in SendIp(type, ip) : a \in Addresses /\ KernelTo(a) = KernelTo(ip)
           /\ SendIp(type, ip) = {} => type = 4 /\ KernelTo(ip)[1] = 6
<1>0. /\ ip.type \in {4, 6} /\ ip.host \in HostBytes
      /\ ip.type = 6 => ip.prefix \in AddressPrefixes
  BY AddressForms
<1>1. CASE type = ip.type
  BY <1>1 DEF SendIp
<1>2. CASE type = 6 /\ ip.type = 4
  <2>1. SendIp(type, ip) = {V6("mapped", ip.host)}
    BY <1>2 DEF SendIp, ConvertV4ToV4Mapped
  <2>2. V6("mapped", ip.host) \in Addresses
    BY <1>0 DEF Addresses, AddressPrefixes
  <2>3. KernelTo(V6("mapped", ip.host)) = <<4, ip.host>> /\ KernelTo(ip) = <<4, ip.host>>
    BY <1>2 DEF KernelTo, V6, IsV4Mapped
  <2> QED BY <2>1, <2>2, <2>3
<1>3. CASE type = 4 /\ ip.type = 6 /\ IsV4Mapped(ip)
  <2>1. SendIp(type, ip) = {V4(ip.host)}
    BY <1>3 DEF SendIp, ConvertV4MappedToV4
  <2>2. V4(ip.host) \in Addresses
    BY <1>0 DEF Addresses
  <2>3. KernelTo(V4(ip.host)) = <<4, ip.host>> /\ KernelTo(ip) = <<4, ip.host>>
    BY <1>3 DEF KernelTo, V4, IsV4Mapped
  <2> QED BY <2>1, <2>2, <2>3
<1>4. CASE type = 4 /\ ip.type = 6 /\ ~IsV4Mapped(ip)
  <2>1. SendIp(type, ip) = {}
    BY <1>4 DEF SendIp
  <2>2. KernelTo(ip) = <<6, ip.prefix, ip.host>>
    BY <1>4 DEF KernelTo
  <2> QED BY <1>4, <2>1, <2>2
<1> QED BY <1>0, <1>1, <1>2, <1>3, <1>4

LEMMA UskStep == UskInv /\ [UskNext]_usk => UskInv'
<1> SUFFICES ASSUME UskInv, [UskNext]_usk PROVE UskInv'
  OBVIOUS
<1> DEFINE Results == [ec : {"none", "OK", "FAILED_TO_SEND_PACKET"}, to : SUBSET Wire]
<1>0. /\ usk \in [impl : {"select", "libevent"}, type : {-1, 0, 4, 6}, known : SUBSET (Addresses \X Wire),
                  receives : BOOLEAN, sent : Results]
      /\ usk.receives => usk.type \in {4, 6}
      /\ \A k \in usk.known : KernelTo(k[1]) = k[2]
  BY DEF UskInv
<1> HIDE DEF Results
<1>1. ASSUME NEW fs \in {{4}, {6}, {4, 6}}, NEW v6only \in BOOLEAN, UskBind(fs, v6only) PROVE UskInv'
  <2>1. PICK t \in {-1, 4, 6} : usk' = [usk EXCEPT !.type = t, !.receives = t > 0]
    BY Zenon, <1>1 DEF UskBind, CreateSocketAny, LevCreateSocketAny
  <2>2. (t > 0) \in BOOLEAN /\ ((t > 0) => t \in {4, 6})
    BY <2>1
  <2> DEFINE b == t > 0
  <2>3. b \in BOOLEAN /\ (b => t \in {4, 6}) /\ usk' = [usk EXCEPT !.type = t, !.receives = b]
    BY <2>1, <2>2
  <2> HIDE DEF b
  <2> QED BY Zenon, <1>0, <2>3 DEF UskInv, Results
<1>2. ASSUME NEW w \in Wire, NEW status \in Statuses, UskReceive(w, status) PROVE UskInv'
  <2>1. usk.type \in {4, 6} /\ (usk.type = 4 => w[1] = 4)
    BY <1>0, <1>2 DEF UskReceive
  <2> DEFINE k == <<KernelFrom(usk.type, w), w>>
  <2>2. k \in Addresses \X Wire /\ KernelTo(k[1]) = k[2]
    BY <2>1, KernelFromLeadsBack
  <2>a. PICK ec : usk' = [usk EXCEPT !.receives = ec \in {"OK", "AGAIN"},
                                     !.known = IF ec = "OK" THEN usk.known \cup {k} ELSE usk.known]
    BY Zenon, <1>2 DEF UskReceive
  <2> HIDE DEF k
  <2>3. PICK b \in BOOLEAN, known \in {usk.known, usk.known \cup {k}} :
          usk' = [usk EXCEPT !.receives = b, !.known = known]
    <3> DEFINE b == ec \in {"OK", "AGAIN"}
               known == IF ec = "OK" THEN usk.known \cup {k} ELSE usk.known
    <3>1. b \in BOOLEAN /\ known \in {usk.known, usk.known \cup {k}}
      OBVIOUS
    <3>2. usk' = [usk EXCEPT !.receives = b, !.known = known]
      BY <2>a
    <3> HIDE DEF b, known
    <3> QED BY <3>1, <3>2, Zenon
  <2>4. known \in SUBSET (Addresses \X Wire) /\ \A j \in known : KernelTo(j[1]) = j[2]
    BY <1>0, <2>2
  <2> QED BY Zenon, <1>0, <2>1, <2>3, <2>4 DEF UskInv, Results
<1>3. ASSUME NEW w \in Wire, NEW ip \in Addresses, UskLearn(w, ip) PROVE UskInv'
  <2> DEFINE known == usk.known \cup {<<ip, w>>}
  <2>1. known \in SUBSET (Addresses \X Wire) /\ \A j \in known : KernelTo(j[1]) = j[2]
    BY <1>0, <1>3 DEF UskLearn
  <2>2. usk' = [usk EXCEPT !.known = known]
    BY <1>3 DEF UskLearn
  <2> HIDE DEF known
  <2> QED BY <1>0, <2>1, <2>2 DEF UskInv, Results
<1>4. ASSUME NEW k \in usk.known, NEW status \in Statuses, UskSend(k, status) PROVE UskInv'
  <2>0. usk.type \in {4, 6} /\ k[1] \in Addresses
    BY <1>0, <1>4 DEF UskSend
  <2> DEFINE to == {KernelTo(a) : a \in SendIp(usk.type, k[1])}
  <2>1. to \in SUBSET Wire /\ {} \in SUBSET Wire
    BY <2>0, SendIpLeads, KernelToWire
  <2>2. PICK ec \in {"OK", "FAILED_TO_SEND_PACKET"}, there \in {to, {}} :
          usk' = [usk EXCEPT !.sent = Result(ec, there)]
    <3>1. UdpSendTo(usk.type, k[1], status) \in {Result(ec, there) : ec \in {"OK", "FAILED_TO_SEND_PACKET"}, there \in {to, {}}}
      BY DEF UdpSendTo
    <3>2. LevUdpSendTo(usk.type, k[1], status) \in {Result(ec, there) : ec \in {"OK", "FAILED_TO_SEND_PACKET"}, there \in {to, {}}}
      BY DEF LevUdpSendTo
    <3> QED BY <1>4, <3>1, <3>2 DEF UskSend
  <2> HIDE DEF to
  <2> DEFINE r == Result(ec, there)
  <2>3. r \in Results
    BY <2>1 DEF Result, Results
  <2> HIDE DEF r
  <2>4. usk' = [usk EXCEPT !.sent = r]
    BY <2>2 DEF r
  <2> QED BY <1>0, <2>3, <2>4 DEF UskInv, Results
<1>5. CASE UNCHANGED usk
  BY <1>5 DEF UskInv
<1> QED BY <1>1, <1>2, <1>3, <1>4, <1>5 DEF UskNext

\* EndpointsLead for any set of hosts (udp_send_to, udp_recv_from, np_ip_convert_v4_to_v4_mapped,
\* np_ip_convert_v4_mapped_to_v4).
THEOREM EndpointsAlwaysLead == UskInit /\ [][UskNext]_usk => []EndpointsLead
<1>1. UskInit => UskInv
  BY DEF UskInit, UskInv
<1>2. UskInv => EndpointsLead
  <2> SUFFICES ASSUME UskInv PROVE EndpointsLead
    OBVIOUS
  <2>1. UskTypeOK
    BY DEF UskInv, UskTypeOK
  <2>2. ASSUME usk.type > 0, NEW k \in usk.known
        PROVE  LET to == SendIp(usk.type, k[1]) IN
               IF to = {} THEN usk.type = 4 /\ k[2][1] = 6 ELSE \A a \in to : KernelTo(a) = k[2]
    <3>1. usk.type \in {4, 6} /\ k[1] \in Addresses /\ KernelTo(k[1]) = k[2]
      BY <2>2 DEF UskInv
    <3> QED BY Zenon, <3>1, SendIpLeads
  <2> QED BY <2>1, <2>2 DEF EndpointsLead
<1> QED BY <1>1, <1>2, UskStep, PTL

-----------------------------------------------------------------------------
(* Rendezvous *)

\* The answers of the rendezvous resource, 0 before there is one.
RenCodes == {0, 204, 400}

\* The record with its types. A packet is a number, at most the count of those made, so that a
\* new one is in neither list.
RenState ==
    [list : [1..QueueLength -> Nat], index : 0..QueueLength, sending : BOOLEAN, udp : BOOLEAN,
     completed : BOOLEAN, out : Seq(Nat), took : SUBSET Nat, n : Nat, code : RenCodes]

\* The packets of s are accounted for: no two places, waiting or gone out, hold the same one,
\* and what was taken is what they hold.
Accounted(s) ==
    /\ s \in RenState
    /\ \A i \in 1..QueueLength : s.list[i] <= s.n
    /\ \A i \in 1..Len(s.out) : s.out[i] <= s.n
    /\ \A i, j \in 1..s.index : s.list[i] = s.list[j] => i = j
    /\ \A i, j \in 1..Len(s.out) : s.out[i] = s.out[j] => i = j
    /\ \A i \in 1..s.index, j \in 1..Len(s.out) : s.list[i] # s.out[j]
    /\ \A x \in s.took : (\E i \in 1..s.index : s.list[i] = x) \/ (\E j \in 1..Len(s.out) : s.out[j] = x)
    /\ \A i \in 1..s.index : s.list[i] \in s.took
    /\ \A j \in 1..Len(s.out) : s.out[j] \in s.took

\* And while packets wait, a send is under way.
RenInv(s) == Accounted(s) /\ (s.index > 0 /\ s.udp => s.sending)

\* The packet on top of the list moves to those that went out
\* (nc_rendezvous_send_device_request).
LEMMA SendDeviceRequestKeeps ==
    ASSUME NEW s, Accounted(s)
    PROVE  RenInv(SendDeviceRequest(s)) /\ SendDeviceRequest(s).n = s.n
<1>1. CASE s.sending \/ ~s.udp \/ s.index <= 0
  BY <1>1, QueueAssumption DEF SendDeviceRequest, RenInv, Accounted, RenState
<1>2. CASE ~(s.sending \/ ~s.udp \/ s.index <= 0)
  <2> DEFINE top == s.list[s.index]
             out == Append(s.out, top)
             index == s.index - 1
             t == [s EXCEPT !.index = index, !.sending = TRUE, !.out = out]
  <2>1. SendDeviceRequest(s) = t
    BY <1>2 DEF SendDeviceRequest
  <2>2. s \in RenState /\ s.index \in 1..QueueLength
    BY <1>2, QueueAssumption DEF Accounted, RenState
  <2>3. top \in Nat /\ index \in 0..QueueLength /\ index = s.index - 1
    BY <2>2, QueueAssumption DEF RenState
  <2>4. /\ out \in Seq(Nat) /\ Len(out) = Len(s.out) + 1 /\ Len(s.out) \in Nat
        /\ \A i \in 1..Len(out) : out[i] = IF i <= Len(s.out) THEN s.out[i] ELSE top
    <3>1. s.out \in Seq(Nat)
      BY <2>2 DEF RenState
    <3> HIDE DEF top
    <3> QED BY <3>1, <2>3
  <2> HIDE DEF out, index
  <2>5. t \in RenState
    BY Zenon, <2>2, <2>3, <2>4 DEF RenState
  <2>6. /\ t.list = s.list /\ t.index = index /\ t.sending = TRUE /\ t.udp = s.udp
        /\ t.out = out /\ t.took = s.took /\ t.n = s.n
    BY <2>2 DEF RenState
  <2> HIDE DEF t
  <2>7. \A i \in 1..index : i \in 1..s.index /\ i # s.index
    BY <2>2, <2>3, QueueAssumption
  <2>8. s.index \in 1..s.index /\ s.index \in 1..QueueLength /\ top = s.list[s.index]
    BY <2>2, QueueAssumption
  <2> HIDE DEF top
  <2>9. \A i \in 1..Len(out) : (i \in 1..Len(s.out) /\ out[i] = s.out[i]) \/ (i = Len(out) /\ out[i] = top)
    BY <2>4
  <2>10. \A i \in 1..Len(s.out) : i \in 1..Len(out) /\ out[i] = s.out[i] /\ i # Len(out)
    BY <2>4
  <2>11. Len(out) \in 1..Len(out) /\ out[Len(out)] = top
    BY <2>4
  <2>12. \A i, j \in 1..Len(out) : out[i] = out[j] => i = j
    BY <2>8, <2>9 DEF Accounted
  <2>13. \A i \in 1..index, j \in 1..Len(out) : s.list[i] # out[j]
    BY <2>7, <2>8, <2>9 DEF Accounted
  <2>14. \A i \in 1..s.index : i \in 1..index \/ i = s.index
    BY <2>2, <2>3, QueueAssumption
  <2>15. \A x \in s.took : (\E i \in 1..index : s.list[i] = x) \/ (\E j \in 1..Len(out) : out[j] = x)
    BY <2>8, <2>10, <2>11, <2>14 DEF Accounted
  <2>16. \A i \in 1..Len(out) : out[i] <= s.n /\ out[i] \in s.took
    BY <2>8, <2>9 DEF Accounted
  <2>17. Accounted(t)
    BY <2>5, <2>6, <2>7, <2>12, <2>13, <2>15, <2>16 DEF Accounted
  <2> QED BY <2>1, <2>6, <2>17 DEF RenInv
<1> QED BY <1>1, <1>2

\* A new packet is put on top, or dropped (nc_rendezvous_send_rendezvous).
LEMMA SendRendezvousKeeps ==
    ASSUME NEW s, RenInv(s)
    PROVE  RenInv(SendRendezvous(s)) /\ SendRendezvous(s).n = s.n + 1
<1> DEFINE n == s.n + 1
           t == [s EXCEPT !.n = n]
<1>1. s \in RenState /\ n \in Nat /\ s.n \in Nat /\ s.n < n
  BY DEF RenInv, Accounted, RenState
<1>2. /\ t \in RenState
      /\ t.list = s.list /\ t.index = s.index /\ t.sending = s.sending /\ t.udp = s.udp
      /\ t.out = s.out /\ t.took = s.took /\ t.n = n
  <2> HIDE DEF n
  <2> QED BY <1>1 DEF RenState
<1>3. SendRendezvous(s) = IF s.index >= QueueLength \/ ~s.udp THEN t
        ELSE SendDeviceRequest([t EXCEPT !.list[s.index + 1] = t.n, !.index = @ + 1, !.took = @ \cup {t.n}])
  BY DEF SendRendezvous
<1> HIDE DEF t
<1>4. /\ \A i \in 1..QueueLength : s.list[i] \in Nat /\ s.list[i] < n
      /\ \A i \in 1..Len(s.out) : s.out[i] \in Nat /\ s.out[i] < n
  <2>1. /\ \A i \in 1..QueueLength : s.list[i] \in Nat /\ s.list[i] <= s.n
        /\ \A i \in 1..Len(s.out) : s.out[i] \in Nat /\ s.out[i] <= s.n
    <3>1. s.list \in [1..QueueLength -> Nat] /\ s.out \in Seq(Nat)
      BY <1>1 DEF RenState
    <3>2. /\ \A i \in 1..QueueLength : s.list[i] \in Nat
          /\ \A i \in 1..Len(s.out) : s.out[i] \in Nat
      BY Zenon, <3>1, ElementOfSeq
    <3> QED BY <3>2 DEF RenInv, Accounted
  <2> QED BY <1>1, <2>1
<1>5. /\ \A i \in 1..QueueLength : s.list[i] <= n
      /\ \A i \in 1..Len(s.out) : s.out[i] <= n
  BY <1>1, <1>4
<1> HIDE DEF n
<1>6. RenInv(t)
  BY <1>2, <1>5 DEF RenInv, Accounted
<1>7. CASE s.index >= QueueLength \/ ~s.udp
  BY <1>2, <1>3, <1>6, <1>7 DEF n
<1>8. CASE ~(s.index >= QueueLength \/ ~s.udp)
  <2> DEFINE top == s.index + 1
             list == [s.list EXCEPT ![top] = n]
             took == s.took \cup {n}
             u == [t EXCEPT !.list = list, !.index = top, !.took = took]
  <2>1. top \in 1..QueueLength /\ top \in 0..QueueLength /\ s.index \in Nat /\ top = s.index + 1
    BY <1>1, <1>8, QueueAssumption DEF RenState
  <2>2. [t EXCEPT !.list[s.index + 1] = t.n, !.index = @ + 1, !.took = @ \cup {t.n}] = u
    BY <1>2
  <2> HIDE DEF top
  <2>3. list \in [1..QueueLength -> Nat] /\ list[top] = n
        /\ \A i \in 1..QueueLength : i # top => list[i] = s.list[i]
    <3>1. s.list \in [1..QueueLength -> Nat] /\ n \in Nat
      BY <1>1 DEF RenState
    <3> QED BY ONLY Zenon, <3>1, <2>1
  <2>4. took \in SUBSET Nat
    BY <1>1 DEF RenState
  <2> HIDE DEF list, took
  <2>5. u \in RenState
    BY Zenon, <1>2, <2>1, <2>3, <2>4 DEF RenState
  <2>6. u.list = list /\ u.index = top /\ u.out = s.out /\ u.took = took /\ u.n = n
    BY <1>2 DEF RenState
  <2> HIDE DEF u
  <2>7. \A i \in 1..top : (i \in 1..s.index /\ i \in 1..QueueLength /\ list[i] = s.list[i]) \/ (i = top /\ list[i] = n)
    <3>1. \A i \in 1..top : (i \in 1..s.index /\ i \in 1..QueueLength /\ i # top) \/ i = top
      BY ONLY <2>1, QueueAssumption
    <3> QED BY ONLY <3>1, <2>3
  <2>8. \A i \in 1..s.index : i \in 1..top /\ i \in 1..QueueLength /\ list[i] = s.list[i]
    <3>1. \A i \in 1..s.index : i \in 1..top /\ i \in 1..QueueLength /\ i # top
      BY ONLY <2>1, QueueAssumption
    <3> QED BY ONLY <3>1, <2>3
  <2>9. \A i \in 1..QueueLength : s.list[i] # n
    BY <1>4, <1>1
  <2>10. \A i \in 1..Len(s.out) : s.out[i] # n
    BY <1>4, <1>1
  <2>11. \A i \in 1..QueueLength : list[i] <= n
    BY <2>3, <1>5, <1>1
  <2>12. \A i, j \in 1..top : list[i] = list[j] => i = j
    BY <2>7, <2>9 DEF RenInv, Accounted
  <2>13. \A i \in 1..top, j \in 1..Len(s.out) : list[i] # s.out[j]
    BY <2>7, <2>10 DEF RenInv, Accounted
  <2>14. top \in 1..top
    BY <2>1
  <2>15. \A x \in took : (\E i \in 1..top : list[i] = x) \/ (\E j \in 1..Len(s.out) : s.out[j] = x)
    <3> SUFFICES ASSUME NEW x \in took
                 PROVE  (\E i \in 1..top : list[i] = x) \/ (\E j \in 1..Len(s.out) : s.out[j] = x)
      OBVIOUS
    <3>1. CASE x = n
      BY <3>1, <2>14, <2>3
    <3>2. CASE x \in s.took
      <4>1. (\E i \in 1..s.index : s.list[i] = x) \/ (\E j \in 1..Len(s.out) : s.out[j] = x)
        BY <3>2 DEF RenInv, Accounted
      <4> QED BY <4>1, <2>8
    <3> QED BY <3>1, <3>2 DEF took
  <2>16. \A i \in 1..top : list[i] \in took
    BY <2>7 DEF RenInv, Accounted, took
  <2>17. \A j \in 1..Len(s.out) : s.out[j] \in took
    BY DEF RenInv, Accounted, took
  <2>18. \A i, j \in 1..Len(s.out) : s.out[i] = s.out[j] => i = j
    BY DEF RenInv, Accounted
  <2>19. Accounted(u)
    BY <2>5, <2>6, <2>11, <2>12, <2>13, <2>15, <2>16, <2>17, <2>18, <1>5 DEF Accounted
  <2>20. SendRendezvous(s) = SendDeviceRequest(u)
    BY <1>3, <1>8, <2>2
  <2> QED BY <2>19, <2>20, <2>6, SendDeviceRequestKeeps DEF n
<1> QED BY <1>7, <1>8

\* Whatever a client posts, packets stay accounted for (handle_rendezvous_payload).
LEMMA PayloadKeeps ==
    ASSUME NEW s, RenInv(s), NEW payload \in Payloads
    PROVE  RenInv(RendezvousPayload(s, payload)) /\ RendezvousPayload(s, payload).n <= s.n + 2
<1> DEFINE maps == {i \in 1..Len(payload) : \A j \in 1..i : payload[j] # "nomap"}
           element(t, i) == IF i \in maps /\ payload[i] \in {"ipv4", "ipv6"} THEN SendRendezvous(t) ELSE t
           a == element(s, 1)
           b == element(a, 2)
           code == IF maps = 1..Len(payload) THEN 204 ELSE 400
           c == [b EXCEPT !.code = code]
<1>1. RendezvousPayload(s, payload) = c
  BY DEF RendezvousPayload
<1> HIDE DEF maps
<1>2. \A t : RenInv(t) => t.n \in Nat
  BY DEF RenInv, Accounted, RenState
<1>3. RenInv(a) /\ (a.n = s.n \/ a.n = s.n + 1)
  BY SendRendezvousKeeps
<1> HIDE DEF a
<1>4. RenInv(b) /\ (b.n = a.n \/ b.n = a.n + 1)
  BY <1>3, SendRendezvousKeeps
<1> HIDE DEF b
<1>5. code \in {0, 204, 400}
  OBVIOUS
<1> HIDE DEF code
<1>6. b \in RenState
  BY <1>4 DEF RenInv, Accounted
<1>7. c \in RenState
  BY <1>5, <1>6 DEF RenState, RenCodes
<1>8. /\ c.list = b.list /\ c.index = b.index /\ c.sending = b.sending /\ c.udp = b.udp
      /\ c.out = b.out /\ c.took = b.took /\ c.n = b.n
  BY <1>6 DEF RenState
<1> HIDE DEF c
<1>9. RenInv(c)
  BY <1>4, <1>7, <1>8 DEF RenInv, Accounted
<1>10. c.n <= s.n + 2
  BY <1>2, <1>3, <1>4, <1>8
<1> QED BY <1>1, <1>9, <1>10

\* As many different elements as places.
LEMMA CountDistinct ==
    ASSUME NEW g, NEW m \in Nat, \A i, j \in 1..m : g[i] = g[j] => i = j
    PROVE  Cardinality({g[i] : i \in 1..m}) = m
<1> DEFINE S == {g[i] : i \in 1..m}
           f == [i \in 1..m |-> g[i]]
<1>1. f \in Surjection(1..m, S) /\ f \in Injection(1..m, S)
  BY DEF Surjection, Injection, IsInjective
<1>2. IsFiniteSet(1..m) /\ Cardinality(1..m) = m
  BY FS_Interval
<1> HIDE DEF f, S
<1>3. Cardinality(S) = Cardinality(1..m)
  BY <1>1, <1>2, FS_Surjection
<1> QED BY <1>2, <1>3 DEF S

\* In every state the account holds of the record, and packets are at most MaxPackets.
RenHolds == RenInv(ren) /\ ren.n <= MaxPackets

\* Every step preserves the account.
LEMMA RendezvousStep ==
    RenInv(ren) /\ ren.n <= MaxPackets /\ [RendezvousNext]_ren => RenInv(ren') /\ ren'.n <= MaxPackets
<1> SUFFICES ASSUME RenInv(ren), ren.n <= MaxPackets, [RendezvousNext]_ren
             PROVE  RenInv(ren') /\ ren'.n <= MaxPackets
  OBVIOUS
<1>1. ren \in RenState /\ ren.n \in Nat
  BY DEF RenInv, Accounted, RenState
<1>2. ASSUME NEW payload \in Payloads, HandleRendezvous(payload) PROVE RenInv(ren') /\ ren'.n <= MaxPackets
  <2>1. RenInv(ren') /\ ren'.n <= ren.n + 2
    BY <1>2, PayloadKeeps DEF HandleRendezvous
  <2>2. ren'.n \in Nat
    BY <2>1 DEF RenInv, Accounted, RenState
  <2> QED BY <1>1, <1>2, <2>1, <2>2, QueueAssumption DEF HandleRendezvous
<1>3. CASE HandleClientRequest
  <2>1. RenInv(ren') /\ ren'.n = ren.n + 1
    BY <1>3, SendRendezvousKeeps DEF HandleClientRequest
  <2> QED BY <1>1, <1>3, <2>1, QueueAssumption DEF HandleClientRequest
<1>4. CASE HandleRendezvousUnread
  <2>1. ren' \in RenState
    BY <1>1, <1>4 DEF HandleRendezvousUnread, RenState, RenCodes
  <2>2. /\ ren'.list = ren.list /\ ren'.index = ren.index /\ ren'.sending = ren.sending
        /\ ren'.udp = ren.udp /\ ren'.out = ren.out /\ ren'.took = ren.took /\ ren'.n = ren.n
    BY <1>1, <1>4 DEF HandleRendezvousUnread, RenState
  <2> QED BY <2>1, <2>2 DEF RenInv, Accounted
<1>5. CASE RendezvousSent
  <2>1. ren' \in RenState
    <3>1. ren' = [ren EXCEPT !.completed = TRUE]
      BY <1>5 DEF RendezvousSent
    <3> QED BY ONLY Zenon, <1>1, <3>1 DEF RenState
  <2>2. /\ ren'.list = ren.list /\ ren'.index = ren.index /\ ren'.sending = ren.sending
        /\ ren'.udp = ren.udp /\ ren'.out = ren.out /\ ren'.took = ren.took /\ ren'.n = ren.n
    BY Zenon, <1>1, <1>5 DEF RendezvousSent, RenState
  <2> QED BY <2>1, <2>2 DEF RenInv, Accounted
<1>6. CASE RendezvousPacketSent
  <2> DEFINE t == [ren EXCEPT !.completed = FALSE, !.sending = FALSE]
  <2>1. t \in RenState
    BY Zenon, <1>1 DEF RenState
  <2>2. /\ t.list = ren.list /\ t.index = ren.index
        /\ t.out = ren.out /\ t.took = ren.took /\ t.n = ren.n
    BY <1>1 DEF RenState
  <2>3. ren' = SendDeviceRequest(t)
    BY <1>6 DEF RendezvousPacketSent
  <2> HIDE DEF t
  <2>4. Accounted(t)
    BY <2>1, <2>2 DEF RenInv, Accounted
  <2> QED BY <2>2, <2>3, <2>4, SendDeviceRequestKeeps
<1>7. CASE SetUdpDispatch
  <2>1. ren' \in RenState
    <3>1. ren' = [ren EXCEPT !.udp = TRUE]
      BY <1>7 DEF SetUdpDispatch
    <3> QED BY ONLY Zenon, <1>1, <3>1 DEF RenState
  <2>2. /\ ren'.list = ren.list /\ ren'.index = ren.index /\ ren'.sending = ren.sending
        /\ ren'.out = ren.out /\ ren'.took = ren.took /\ ren'.n = ren.n
    BY <1>1, <1>7 DEF SetUdpDispatch, RenState
  <2>3. ~(ren.index > 0)
    <3> SUFFICES ASSUME ren.index > 0 PROVE FALSE
      OBVIOUS
    <3>1. 1 \in 1..ren.index
      BY <1>1, QueueAssumption DEF RenState
    <3>2. ren.list[1] \in ren.took
      BY <3>1 DEF RenInv, Accounted
    <3> QED BY <3>2, <1>7 DEF SetUdpDispatch
  <2> QED BY <2>1, <2>2, <2>3 DEF RenInv, Accounted
<1>8. CASE RemoveUdpDispatch
  <2>1. ren' \in RenState
    <3>1. ren' = [ren EXCEPT !.udp = FALSE]
      BY <1>8 DEF RemoveUdpDispatch
    <3> QED BY ONLY Zenon, <1>1, <3>1 DEF RenState
  <2>2. /\ ren'.list = ren.list /\ ren'.index = ren.index /\ ren'.sending = ren.sending
        /\ ren'.out = ren.out /\ ren'.took = ren.took /\ ren'.n = ren.n /\ ren'.udp = FALSE
    BY <1>1, <1>8 DEF RemoveUdpDispatch, RenState
  <2> QED BY <2>1, <2>2 DEF RenInv, Accounted
<1>9. CASE UNCHANGED ren
  BY <1>9
<1> QED BY <1>2, <1>3, <1>4, <1>5, <1>6, <1>7, <1>8, <1>9 DEF RendezvousNext

\* What the account says in the words of the property.
LEMMA AccountedAllSent == RenInv(ren) /\ ren.n <= MaxPackets => RendezvousAllSent
<1> SUFFICES ASSUME RenInv(ren), ren.n <= MaxPackets PROVE RendezvousAllSent
  OBVIOUS
<1> DEFINE waiting == {ren.list[i] : i \in 1..ren.index}
           gone == {ren.out[i] : i \in 1..Len(ren.out)}
<1>1. ren \in RenState /\ ren.n \in Nat /\ ren.index \in Nat
  BY QueueAssumption DEF RenInv, Accounted, RenState
<1>2. Range(ren.out) = gone /\ Len(ren.out) \in Nat
  <2>1. ren.out \in Seq(Nat)
    BY <1>1 DEF RenState
  <2>2. DOMAIN ren.out = 1..Len(ren.out) /\ Len(ren.out) \in Nat
    BY <2>1, LenProperties
  <2> QED BY <2>2 DEF Range
<1>3. ren.list \in [1..QueueLength -> 0..MaxPackets]
  <2>1. ren.list \in [1..QueueLength -> Nat]
    BY <1>1 DEF RenState
  <2>2. \A i \in 1..QueueLength : ren.list[i] <= ren.n
    BY DEF RenInv, Accounted
  <2>3. \A i \in 1..QueueLength : ren.list[i] \in 0..MaxPackets
    BY <1>1, <2>1, <2>2, QueueAssumption
  <2> QED BY Zenon, <2>1, <2>3
<1>4. RendezvousTypeOK
  BY <1>1, <1>3, QueueAssumption DEF RendezvousTypeOK, RenState, RenCodes
<1>5. Cardinality(waiting) = ren.index
  <2>1. \A i, j \in 1..ren.index : ren.list[i] = ren.list[j] => i = j
    BY DEF RenInv, Accounted
  <2> QED BY <1>1, <2>1, CountDistinct
<1>6. Cardinality(gone) = Len(ren.out)
  <2>1. \A i, j \in 1..Len(ren.out) : ren.out[i] = ren.out[j] => i = j
    BY DEF RenInv, Accounted
  <2> QED BY <1>2, <2>1, CountDistinct
<1>7. ren.took = waiting \cup gone /\ waiting \cap gone = {}
  BY DEF RenInv, Accounted
<1>8. ren.index > 0 /\ ren.udp => ren.sending
  BY DEF RenInv
<1> QED BY ZenonT(40), <1>2, <1>4, <1>5, <1>6, <1>7, <1>8 DEF RendezvousAllSent

\* A packet that found room is sent once, whatever the order of requests, packets of clients and
\* completed sends over the one array (nc_rendezvous_send_device_request).
THEOREM RendezvousSendsAll == RendezvousInit /\ [][RendezvousNext]_ren => []RendezvousAllSent
<1>1. RendezvousInit => RenInv(ren) /\ ren.n <= MaxPackets
  <2> SUFFICES ASSUME RendezvousInit PROVE RenInv(ren) /\ ren.n <= MaxPackets
    OBVIOUS
  <2> DEFINE list == [i \in 1..QueueLength |-> 0]
  <2>1. list \in [1..QueueLength -> Nat] /\ \A i \in 1..QueueLength : list[i] = 0
    OBVIOUS
  <2>2. << >> \in Seq(Nat) /\ Len(<< >>) = 0 /\ 0 \in 0..QueueLength
    BY QueueAssumption
  <2>3. ren = [list |-> list, index |-> 0, sending |-> FALSE, udp |-> FALSE,
               completed |-> FALSE, out |-> << >>, took |-> {}, n |-> 0, code |-> 0]
    BY DEF RendezvousInit
  <2> HIDE DEF list
  <2>4. ren \in RenState
    <3>1. 0 \in RenCodes
      BY DEF RenCodes
    <3>2. {} \in SUBSET Nat /\ 0 \in Nat
      OBVIOUS
    <3> QED BY ONLY <2>1, <2>2, <2>3, <3>1, <3>2 DEF RenState
  <2>5. ren.list = list /\ ren.index = 0 /\ ren.out = << >> /\ ren.took = {} /\ ren.n = 0
    BY <2>3
  <2> QED BY <2>1, <2>2, <2>4, <2>5, QueueAssumption DEF RenInv, Accounted
<1>2. RendezvousInit => RenHolds
  BY <1>1 DEF RenHolds
<1>3. RenHolds /\ [RendezvousNext]_ren => RenHolds'
  BY RendezvousStep DEF RenHolds
<1>4. RenHolds => RendezvousAllSent
  BY AccountedAllSent DEF RenHolds
<1> QED BY <1>2, <1>3, <1>4, PTL

-----------------------------------------------------------------------------
(* modules/select_unix *)

SelCodes == Codes \ {"none"}

SelPhases == {"none", "made", "open", "bad", "freed"}

SelState ==
    [use : SUBSET SelOps, held : {<< >>} \cup (SelOps \X SelCodes),
     pc : {"loop", "udpset", "tcpset", "select", "pipe", "end", "crashed"} \cup SelOps,
     stopped : BOOLEAN, fds : SUBSET {"pipe", "udp", "in", "out"}, pipe : 0..MaxPipe,
     udp : SelPhases, tcp : SelPhases, gone : SUBSET {"udp", "tcp"}, op : SUBSET SelOps,
     done : [SelOps -> Codes], left : 0..2, data : BOOLEAN,
     input : {"none", "data", "eof", "error"}, conn : {"no", "yes", "refused"}, badfd : BOOLEAN]

\* The operations of sockets that were aborted or destroyed, as Contract maps them.
SelGone(s) ==
    (IF "udp" \in s.gone \/ s.udp = "freed" THEN {"recv"} ELSE {})
      \cup (IF "tcp" \in s.gone \/ s.tcp = "freed" THEN TcpOps ELSE {})

\* An operation that the thread is about to resolve is under way, or aborted meanwhile; its socket
\* is there.
HeldSound(s) ==
    /\ s.held[1] \in s.op \/ (IF s.held[1] = "recv" THEN "udp" \in s.gone ELSE "tcp" \in s.gone)
    /\ IF s.held[1] = "recv" THEN s.udp \in {"open", "bad"} ELSE s.tcp = "open"
    /\ s.held = <<"write", "OK">> => s.left = 0

\* Beyond the types and HeldSound: an operation under way has no result yet; a TCP socket has
\* operations and results only once it is open, and none is under way after an abort; and while
\* the thread goes through the TCP socket with the mutex, the socket is open.
SInv ==
    /\ sel \in SelState
    /\ \A o \in sel.op : sel.done[o] = "none"
    /\ sel.tcp \in {"none", "made"} => \A o \in TcpOps : o \notin sel.op /\ sel.done[o] = "none"
    /\ "tcp" \in sel.gone => sel.op \subseteq {"recv"}
    /\ sel.pc \in {"connect", "write"} => sel.tcp = "open"
    /\ sel.held # << >> => HeldSound(sel)

\* What Contract sees of a state.
SelSeen == <<sel.op, sel.done, SelGone(sel)>>

\* The core's view of a step that the contract allows.
SelAllowed == Contract!ContractNext \/ UNCHANGED SelSeen

USE MaxPipeAssumption DEF SelOps, Codes, SelCodes, TcpOps

\* nm_select_unix_init: no socket has been made.
LEMMA SelStart == SelInit => SInv /\ Contract!ContractInit
<1> SUFFICES ASSUME SelInit PROVE SInv /\ Contract!ContractInit
  OBVIOUS
<1>1. PICK use \in Uses :
    sel = [use |-> use, pc |-> "loop", held |-> << >>, stopped |-> FALSE, fds |-> {}, pipe |-> 0, udp |-> "none", tcp |-> "none",
           gone |-> {}, op |-> {}, done |-> [o \in SelOps |-> "none"], left |-> 0, data |-> FALSE,
           input |-> "none", conn |-> "no", badfd |-> FALSE]
  BY Zenon DEF SelInit
<1>2. use \in SUBSET SelOps
  BY DEF Uses
<1>3. SInv
  BY <1>1, <1>2 DEF SInv, SelState, SelPhases
<1>4. Contract!ContractInit
  BY <1>1 DEF Contract!ContractInit
<1> QED BY <1>3, <1>4

\* A step that leaves the operations, their results, the sockets and what the thread holds alone.
LEMMA SelApart ==
    ASSUME SInv, sel' \in SelState, sel'.held = sel.held, sel'.op = sel.op, sel'.done = sel.done,
           sel'.gone = sel.gone, sel'.left = sel.left, sel'.tcp = sel.tcp,
           sel'.udp = sel.udp \/ (sel.udp \in {"none", "made"} /\ sel'.udp \in {"made", "open", "bad"}),
           sel'.pc \in {"connect", "write"} => sel.tcp = "open"
    PROVE  SInv' /\ UNCHANGED SelSeen
<1>1. SelGone(sel)' = SelGone(sel)
  BY DEF SelGone, SelState
<1>2. sel.held # << >> => HeldSound(sel)'
  BY DEF HeldSound, SInv
<1> QED BY <1>1, <1>2 DEF SInv, SelSeen

\* The network thread up to the sockets: it builds its sets, selects and reads the pipe.
LEMMA WaitingInvisible ==
    ASSUME SInv, NetworkThread \/ UdpBuildFdSets \/ TcpBuildFdSets \/ InfWait \/ SelectRead
    PROVE  SInv' /\ UNCHANGED SelSeen
<1>0. sel \in SelState
  BY DEF SInv
<1>1. /\ sel' \in SelState /\ sel'.held = sel.held /\ sel'.op = sel.op /\ sel'.done = sel.done
      /\ sel'.gone = sel.gone /\ sel'.left = sel.left /\ sel'.tcp = sel.tcp /\ sel'.udp = sel.udp
      /\ sel'.pc \notin {"connect", "write"}
  <2>1. CASE NetworkThread
    BY <1>0, <2>1 DEF NetworkThread, SelState
  <2>2. CASE UdpBuildFdSets
    <3>1. PICK fds \in SUBSET {"pipe", "udp", "in", "out"} : sel' = [sel EXCEPT !.pc = "tcpset", !.fds = fds]
      <4> DEFINE fds == {"pipe"} \cup IF "recv" \in sel.op /\ sel.udp \in {"open", "bad"} THEN {"udp"} ELSE {}
      <4>1. fds \in SUBSET {"pipe", "udp", "in", "out"}
        OBVIOUS
      <4>2. sel' = [sel EXCEPT !.pc = "tcpset", !.fds = fds]
        BY <2>2 DEF UdpBuildFdSets
      <4> QED BY Zenon, <4>1, <4>2
    <3> QED BY ZenonT(40), <1>0, <3>1 DEF SelState
  <2>3. CASE TcpBuildFdSets
    <3>1. PICK fds \in SUBSET {"pipe", "udp", "in", "out"} : sel' = [sel EXCEPT !.pc = "select", !.fds = fds]
      <4> DEFINE fds == sel.fds \cup (IF sel.tcp = "open" /\ "read" \in sel.op THEN {"in"} ELSE {})
                          \cup (IF sel.tcp = "open" /\ sel.op \cap {"write", "connect"} # {} THEN {"out"} ELSE {})
      <4>1. fds \in SUBSET {"pipe", "udp", "in", "out"}
        BY <1>0 DEF SelState
      <4>2. sel' = [sel EXCEPT !.pc = "select", !.fds = fds]
        BY <1>0, <2>3 DEF TcpBuildFdSets, SelState
      <4> QED BY Zenon, <4>1, <4>2
    <3> QED BY ZenonT(40), <1>0, <3>1 DEF SelState
  <2>4. CASE InfWait
    <3>1. CASE sel' = [sel EXCEPT !.pc = "pipe", !.badfd = TRUE]
      BY ZenonT(40), <1>0, <3>1 DEF SelState
    <3>2. CASE sel' = [sel EXCEPT !.pc = "pipe", !.fds = @ \cap Ready(sel)]
      <4> DEFINE fds == sel.fds \cap Ready(sel)
      <4>1. fds \in SUBSET {"pipe", "udp", "in", "out"}
        BY <1>0 DEF SelState
      <4>2. sel' = [sel EXCEPT !.pc = "pipe", !.fds = fds]
        BY <1>0, <3>2 DEF SelState
      <4> HIDE DEF fds
      <4> QED BY ZenonT(40), <1>0, <4>1, <4>2 DEF SelState
    <3> QED BY <2>4, <3>1, <3>2 DEF InfWait
  <2>5. CASE SelectRead
    <3> DEFINE pipe == IF "pipe" \in sel.fds THEN sel.pipe - 1 ELSE sel.pipe
    <3>0. sel.pipe \in 0..MaxPipe
      BY <1>0 DEF SelState
    <3>1. pipe \in 0..MaxPipe
      BY <3>0, <2>5 DEF SelectRead
    <3>2. sel' = [sel EXCEPT !.pc = "recv", !.pipe = pipe]
      BY <1>0, <2>5 DEF SelectRead, SelState
    <3> HIDE DEF pipe
    <3> QED BY ZenonT(40), <1>0, <3>1, <3>2 DEF SelState
  <2> QED BY <2>1, <2>2, <2>3, <2>4, <2>5
<1> QED BY <1>1, SelApart

\* The thread comes to one operation of a socket: it leaves it, or will resolve it.
LEMMA HandleInvisible ==
    ASSUME SInv, sel.held = << >>, NEW s \in SelState,
           s.held = << >>, s.op = sel.op, s.done = sel.done, s.gone = sel.gone, s.tcp = sel.tcp,
           s.udp = sel.udp, s.pc = sel.pc, NEW o \in SelOps, NEW ec \in SelCodes \cup {"AGAIN"},
           NEW next \in {"loop"} \cup SelOps, next \in {"connect", "write"} => sel.tcp = "open",
           IF o = "recv" THEN sel.udp \in {"open", "bad"} ELSE sel.tcp = "open",
           o = "write" /\ ec = "OK" => s.left = 0,
           sel' = Handle(s, o, ec, next)
    PROVE  SInv' /\ UNCHANGED SelSeen
<1>1. CASE o \in s.op /\ ec # "AGAIN"
  <2>1. sel' = [s EXCEPT !.held = <<o, ec>>]
    BY <1>1 DEF Handle
  <2>2. <<o, ec>> \in SelOps \X SelCodes /\ <<o, ec>>[1] = o /\ <<o, ec>>[2] = ec
    BY <1>1
  <2>3. sel' \in SelState /\ sel'.held = <<o, ec>>
    BY <2>1, <2>2 DEF SelState
  <2>4. /\ sel'.op = sel.op /\ sel'.done = sel.done /\ sel'.gone = sel.gone /\ sel'.tcp = sel.tcp
        /\ sel'.udp = sel.udp /\ sel'.pc = sel.pc /\ sel'.left = s.left
    BY <2>1 DEF SelState
  <2>5. HeldSound(sel)'
    BY <1>1, <2>2, <2>3, <2>4 DEF HeldSound
  <2> QED BY <2>3, <2>4, <2>5 DEF SInv, SelSeen, SelGone
<1>2. CASE ~(o \in s.op /\ ec # "AGAIN")
  <2>1. sel' = [s EXCEPT !.pc = next]
    BY <1>2 DEF Handle
  <2>2. /\ sel' \in SelState /\ sel'.held = << >> /\ sel'.op = sel.op /\ sel'.done = sel.done
        /\ sel'.gone = sel.gone /\ sel'.tcp = sel.tcp /\ sel'.udp = sel.udp /\ sel'.pc = next
    BY <2>1 DEF SelState
  <2> QED BY <2>2 DEF SInv, SelSeen, SelGone
<1> QED BY <1>1, <1>2

\* udp_handle_event, tcp_do_read, is_connected and tcp_do_write, up to the completion event.
LEMMA HandlersInvisible ==
    ASSUME SInv, UdpHandleSelect \/ TcpDoRead \/ IsConnected \/ TcpDoWrite
    PROVE  SInv' /\ UNCHANGED SelSeen
<1>0. sel \in SelState /\ sel.held = << >>
  BY DEF SInv, UdpHandleSelect, TcpDoRead, IsConnected, TcpDoWrite
<1>1. ASSUME NEW next \in {"loop"} \cup SelOps, next \in {"connect", "write"} => sel.tcp = "open",
             sel' = [sel EXCEPT !.pc = next]
      PROVE  SInv' /\ UNCHANGED SelSeen
  <2>1. /\ sel' \in SelState /\ sel'.held = sel.held /\ sel'.op = sel.op /\ sel'.done = sel.done
        /\ sel'.gone = sel.gone /\ sel'.left = sel.left /\ sel'.tcp = sel.tcp /\ sel'.udp = sel.udp
        /\ sel'.pc = next
    BY <1>0, <1>1 DEF SelState
  <2> QED BY <1>1, <2>1, SelApart
<1>2. CASE UdpHandleSelect
  <2>1. CASE sel' = [sel EXCEPT !.pc = "read"]
    BY <1>1, <2>1
  <2>2. CASE sel.udp \in {"open", "bad"} /\ sel' = Handle(sel, "recv", "OK", "read")
    BY <1>0, <2>2, HandleInvisible
  <2> QED BY <1>2, <2>1, <2>2 DEF UdpHandleSelect
<1>3. CASE TcpDoRead
  <2>1. CASE sel.tcp # "open" \/ "in" \notin sel.fds
    BY <1>1, <1>3, <2>1 DEF TcpDoRead
  <2>2. CASE sel.tcp = "open" /\ "in" \in sel.fds
    <3> DEFINE in == IF sel.input = "data" /\ "read" \in sel.op THEN "none" ELSE sel.input
               s == [sel EXCEPT !.input = in]
    <3>1. /\ s \in SelState /\ s.held = << >> /\ s.op = sel.op /\ s.done = sel.done
          /\ s.gone = sel.gone /\ s.tcp = sel.tcp /\ s.udp = sel.udp /\ s.pc = sel.pc
      BY <1>0 DEF SelState
    <3>2. TcpDoReadEc(sel) \in SelCodes \cup {"AGAIN"}
      BY <1>0 DEF TcpDoReadEc, SelState
    <3>3. sel' = Handle(s, "read", TcpDoReadEc(sel), "connect")
      <4> DEFINE ec == TcpDoReadEc(sel)
                 t == Handle(sel, "read", ec, "connect")
                 u == Handle(s, "read", ec, "connect")
      <4>1. sel' = [t EXCEPT !.input = IF @ = "data" /\ "read" \in sel.op THEN "none" ELSE @]
        BY <1>3, <2>2 DEF TcpDoRead
      <4> HIDE DEF ec
      <4>2. ASSUME NEW h
            PROVE  /\ [[sel EXCEPT !.held = h] EXCEPT !.input = IF @ = "data" /\ "read" \in sel.op THEN "none" ELSE @]
                        = [s EXCEPT !.held = h]
                   /\ [[sel EXCEPT !.pc = h] EXCEPT !.input = IF @ = "data" /\ "read" \in sel.op THEN "none" ELSE @]
                        = [s EXCEPT !.pc = h]
        BY ZenonT(40), <1>0 DEF SelState
      <4>3. s.op = sel.op
        BY <3>1
      <4> HIDE DEF s
      <4>4. ASSUME "read" \in sel.op /\ ec # "AGAIN" PROVE sel' = u
        <5>1. t = [sel EXCEPT !.held = <<"read", ec>>] /\ u = [s EXCEPT !.held = <<"read", ec>>]
          BY <4>3, <4>4 DEF Handle
        <5> HIDE DEF t, u
        <5>2. [t EXCEPT !.input = IF @ = "data" /\ "read" \in sel.op THEN "none" ELSE @] = u
          BY Zenon, <4>2, <5>1
        <5> QED BY <4>1, <5>2
      <4>5. ASSUME ~("read" \in sel.op /\ ec # "AGAIN") PROVE sel' = u
        <5>1. t = [sel EXCEPT !.pc = "connect"] /\ u = [s EXCEPT !.pc = "connect"]
          BY <4>3, <4>5 DEF Handle
        <5> HIDE DEF t, u
        <5>2. [t EXCEPT !.input = IF @ = "data" /\ "read" \in sel.op THEN "none" ELSE @] = u
          BY Zenon, <4>2, <5>1
        <5> QED BY <4>1, <5>2
      <4> QED BY <4>4, <4>5 DEF ec
    <3> HIDE DEF s
    <3> QED BY <1>0, <2>2, <3>1, <3>2, <3>3, HandleInvisible
  <2> QED BY <2>1, <2>2
<1>4. CASE IsConnected
  <2>0. sel.tcp = "open"
    BY <1>4 DEF IsConnected, SInv
  <2>1. IsConnectedEc(sel) \in SelCodes \cup {"AGAIN"}
    BY <1>0 DEF IsConnectedEc, SelState
  <2>2. CASE sel' = Handle(sel, "connect", IsConnectedEc(sel), "write")
    BY <1>0, <2>0, <2>1, <2>2, HandleInvisible
  <2> QED BY <1>1, <1>4, <2>0, <2>2 DEF IsConnected
<1>5. CASE TcpDoWrite
  <2>0. sel.tcp = "open"
    BY <1>5 DEF TcpDoWrite, SInv
  <2>1. ASSUME NEW n \in 0..sel.left, "write" \in sel.op,
               sel' = [Handle(sel, "write", TcpDoWriteEc(sel, n), "loop") EXCEPT !.left = @ - n]
        PROVE  SInv' /\ UNCHANGED SelSeen
    <3> DEFINE left == sel.left - n
               s == [sel EXCEPT !.left = left]
               ec == TcpDoWriteEc(sel, n)
    <3>0. sel.left \in 0..2
      BY <1>0 DEF SelState
    <3>1. left \in 0..2
      BY <2>1, <3>0
    <3>2. ec \in SelCodes \cup {"AGAIN"} /\ (ec = "OK" => left = 0)
      BY <2>1, <3>0 DEF TcpDoWriteEc
    <3>3. sel' = Handle(s, "write", ec, "loop")
      <4>1. sel' = [Handle(sel, "write", ec, "loop") EXCEPT !.left = @ - n]
        BY <2>1
      <4> HIDE DEF ec
      <4>2. ASSUME NEW h
            PROVE  /\ [[sel EXCEPT !.held = h] EXCEPT !.left = @ - n] = [s EXCEPT !.held = h]
                   /\ [[sel EXCEPT !.pc = h] EXCEPT !.left = @ - n] = [s EXCEPT !.pc = h]
        BY ZenonT(40), <1>0 DEF SelState
      <4>3. s.op = sel.op
        BY <1>0 DEF SelState
      <4> HIDE DEF s
      <4>4. CASE ec # "AGAIN"
        BY ZenonT(40), <2>1, <4>1, <4>2, <4>3, <4>4 DEF Handle
      <4>5. CASE ec = "AGAIN"
        BY ZenonT(40), <2>1, <4>1, <4>2, <4>3, <4>5 DEF Handle
      <4> QED BY <4>4, <4>5
    <3> HIDE DEF ec, left
    <3>4. /\ s \in SelState /\ s.held = << >> /\ s.op = sel.op /\ s.done = sel.done
          /\ s.gone = sel.gone /\ s.tcp = sel.tcp /\ s.udp = sel.udp /\ s.pc = sel.pc /\ s.left = left
      BY <1>0, <3>1 DEF SelState
    <3> HIDE DEF s
    <3> QED BY <1>0, <2>0, <3>2, <3>3, <3>4, HandleInvisible
  <2> QED BY <1>1, <1>5, <2>0, <2>1 DEF TcpDoWrite
<1> QED BY <1>2, <1>3, <1>4, <1>5

\* What arrives from the network, and the calls that start no operation.
LEMMA CallsInvisible ==
    ASSUME SInv, Arrives \/ UdpCreate \/ (\E bound \in BOOLEAN : UdpBindPort(bound)) \/ TcpCreate \/ SelStop
    PROVE  SInv' /\ UNCHANGED SelSeen
<1>0. sel \in SelState
  BY DEF SInv
<1>1. CASE Arrives
  <2>1. /\ sel' \in SelState /\ sel'.held = sel.held /\ sel'.op = sel.op /\ sel'.done = sel.done
        /\ sel'.gone = sel.gone /\ sel'.left = sel.left /\ sel'.tcp = sel.tcp /\ sel'.udp = sel.udp
        /\ sel'.pc = sel.pc
    <3>1. CASE sel' = [sel EXCEPT !.data = TRUE]
      BY ZenonT(40), <1>0, <3>1 DEF SelState
    <3>2. ASSUME NEW c \in {"yes", "refused"}, sel' = [sel EXCEPT !.conn = c] PROVE <2>1!:
      BY <1>0, <3>2 DEF SelState
    <3>3. ASSUME NEW i \in {"data", "eof", "error"}, sel' = [sel EXCEPT !.input = i] PROVE <2>1!:
      BY <1>0, <3>3 DEF SelState
    <3> QED BY <1>1, <3>1, <3>2, <3>3 DEF Arrives
  <2> QED BY <2>1, SelApart DEF SInv
<1>2. CASE UdpCreate \/ SelStop
  <2> DEFINE pipe == sel.pipe + 1
  <2>0. pipe \in 0..MaxPipe
    BY <1>0, <1>2 DEF UdpCreate, SelStop, CoreMay, SelState
  <2>1. \/ sel.udp = "none" /\ sel' = [sel EXCEPT !.udp = "made", !.pipe = pipe]
        \/ sel' = [sel EXCEPT !.stopped = TRUE, !.pipe = pipe]
    BY <1>0, <1>2 DEF UdpCreate, SelStop, SelNotify, SelState
  <2> HIDE DEF pipe
  <2>2. /\ sel' \in SelState /\ sel'.held = sel.held /\ sel'.op = sel.op /\ sel'.done = sel.done
        /\ sel'.gone = sel.gone /\ sel'.left = sel.left /\ sel'.tcp = sel.tcp
        /\ sel'.udp = sel.udp \/ (sel.udp = "none" /\ sel'.udp = "made")
        /\ sel'.pc = sel.pc
    <3>1. CASE sel.udp = "none" /\ sel' = [sel EXCEPT !.udp = "made", !.pipe = pipe]
      BY ZenonT(40), <1>0, <2>0, <3>1 DEF SelState, SelPhases
    <3>2. CASE sel' = [sel EXCEPT !.stopped = TRUE, !.pipe = pipe]
      BY ZenonT(40), <1>0, <2>0, <3>2 DEF SelState
    <3> QED BY <2>1, <3>1, <3>2
  <2> QED BY <2>2, SelApart DEF SInv
<1>3. ASSUME NEW bound \in BOOLEAN, UdpBindPort(bound) PROVE SInv' /\ UNCHANGED SelSeen
  <2>1. /\ sel' \in SelState /\ sel'.held = sel.held /\ sel'.op = sel.op /\ sel'.done = sel.done
        /\ sel'.gone = sel.gone /\ sel'.left = sel.left /\ sel'.tcp = sel.tcp
        /\ sel.udp = "made" /\ sel'.udp \in {"open", "bad"} /\ sel'.pc = sel.pc
    BY <1>0, <1>3 DEF UdpBindPort, SelState, SelPhases
  <2> QED BY <2>1, SelApart DEF SInv
<1>4. CASE TcpCreate
  <2>1. /\ sel' \in SelState /\ sel'.held = sel.held /\ sel'.op = sel.op /\ sel'.done = sel.done
        /\ sel'.gone = sel.gone /\ sel.tcp = "none" /\ sel'.tcp = "made" /\ sel'.udp = sel.udp
        /\ sel'.pc = sel.pc
    BY <1>0, <1>4 DEF TcpCreate, SelState, SelPhases
  <2>2. sel.held = << >> /\ sel.pc \notin {"connect", "write"}
    BY <1>4 DEF TcpCreate, Locked
  <2> QED BY <2>1, <2>2 DEF SInv, SelSeen, SelGone
<1> QED BY <1>1, <1>2, <1>3, <1>4

\* The thread resolves what it holds: the one completion of the operation, or after an abort a
\* late one, or it runs into the cleared pointer.
LEMMA SelHeldResolved ==
    ASSUME SInv, ResolveHeld
    PROVE  SInv' /\ SelAllowed
<1> DEFINE o == sel.held[1]
           ec == sel.held[2]
<1>0. sel \in SelState /\ sel.held # << >> /\ HeldSound(sel)
  BY DEF SInv, ResolveHeld
<1>1. o \in SelOps /\ ec \in SelCodes
  BY <1>0 DEF SelState
<1>2. o \in sel.op \/ o \in SelGone(sel)
  BY <1>0, <1>1 DEF HeldSound, SelGone
<1>3. o # "recv" => sel.tcp = "open"
  BY <1>0 DEF HeldSound
<1>4. After(o) \in SelOps \cup {"loop"} /\ (After(o) \in {"connect", "write"} => o # "recv")
  BY <1>1 DEF After
<1> HIDE DEF o, ec
<1> DEFINE after == After(o)
           s == [sel EXCEPT !.held = << >>, !.pc = after]
<1> HIDE DEF after
<1>5. /\ s \in SelState /\ s.held = << >> /\ s.op = sel.op /\ s.done = sel.done /\ s.gone = sel.gone
      /\ s.tcp = sel.tcp /\ s.udp = sel.udp /\ s.pc = after
  BY ZenonT(40), <1>0, <1>4 DEF SelState, after
<1>6. \/ sel' = SelResolve(s, o, ec)
      \/ sel' = [s EXCEPT !.pc = "crashed"]
  BY DEF ResolveHeld, o, ec, after
<1> HIDE DEF s
<1>7. CASE sel' = SelResolve(s, o, ec)
  <2>1. sel' = [s EXCEPT !.op = @ \ {o}, !.done[o] = ec]
    BY <1>7 DEF SelResolve
  <2>2. /\ sel' \in SelState /\ sel'.held = << >> /\ sel'.gone = sel.gone /\ sel'.tcp = sel.tcp
        /\ sel'.udp = sel.udp /\ sel'.pc = after
    BY ZenonT(40), <1>1, <1>5, <2>1 DEF SelState
  <2>3. sel'.op = sel.op \ {o} /\ sel'.done = [sel.done EXCEPT ![o] = ec]
    BY <1>1, <1>5, <2>1 DEF SelState
  <2>4. SelGone(sel)' = SelGone(sel)
    BY <2>2 DEF SelGone
  <2>5. SInv'
    BY <1>0, <1>1, <1>3, <1>4, <2>2, <2>3 DEF SInv, SelState, after
  <2>6. CASE o \in sel.op
    <3>1. sel.done[o] = "none"
      BY <2>6 DEF SInv
    <3>2. Contract!CompleteOps({o}, [x \in {o} |-> ec])
      BY <1>0, <1>1, <2>3, <2>4, <2>6, <3>1 DEF Contract!CompleteOps, SelState, SelGone
    <3>3. {o} \in SUBSET sel.op
      BY <2>6
    <3> QED BY ZenonT(40), <1>1, <2>5, <3>2, <3>3 DEF SelAllowed, Contract!ContractNext
  <2>7. CASE o \notin sel.op
    <3>1. Contract!LateOp(o, ec)
      BY <1>0, <1>1, <1>2, <2>3, <2>4, <2>7 DEF Contract!LateOp, SelGone, SelState
    <3> QED BY <1>1, <2>5, <3>1 DEF SelAllowed, Contract!ContractNext
  <2> QED BY <2>6, <2>7
<1>8. CASE sel' = [s EXCEPT !.pc = "crashed"]
  <2>1. /\ sel' \in SelState /\ sel'.held = << >> /\ sel'.op = sel.op /\ sel'.done = sel.done
        /\ sel'.gone = sel.gone /\ sel'.tcp = sel.tcp /\ sel'.udp = sel.udp /\ sel'.pc = "crashed"
    BY <1>5, <1>8 DEF SelState
  <2> QED BY <2>1 DEF SInv, SelSeen, SelGone, SelAllowed
<1> QED BY <1>6, <1>7, <1>8

\* async_recv_wait, async_connect, async_write and async_read: an operation begins, or completes at
\* once. A write sets what is left to send only on a socket that is not aborted, so that no write
\* of it is about to be resolved.
LEMMA SelOperationStarted ==
    ASSUME SInv, NEW o \in SelOps, NEW ec \in SelCodes, NEW s \in SelState,
           o \notin sel.op, sel.done[o] = "none", s.held = sel.held, s.op = sel.op, s.done = sel.done,
           s.gone = sel.gone, s.udp = sel.udp, s.pc = sel.pc,
           s.tcp = sel.tcp \/ (sel.tcp = "made" /\ s.tcp = "open"),
           o # "recv" => s.tcp = "open",
           s.left = sel.left \/ (o = "write" /\ "tcp" \notin sel.gone),
           \/ sel' = [s EXCEPT !.op = @ \cup {o}] /\ (o # "recv" => "tcp" \notin sel.gone)
           \/ sel' = SelResolve(s, o, ec)
    PROVE  SInv' /\ SelAllowed
<1>0. sel \in SelState
  BY DEF SInv
<1>1. s.held # << >> => HeldSound(s)
  BY <1>0 DEF SInv, HeldSound
<1>2. SelGone(s) = SelGone(sel)
  BY DEF SelGone
<1>3. CASE sel' = [s EXCEPT !.op = @ \cup {o}] /\ (o # "recv" => "tcp" \notin sel.gone)
  <2>1. /\ sel' \in SelState /\ sel'.held = s.held /\ sel'.op = sel.op \cup {o} /\ sel'.done = sel.done
        /\ sel'.gone = s.gone /\ sel'.tcp = s.tcp /\ sel'.udp = s.udp /\ sel'.pc = sel.pc
        /\ sel'.left = s.left
    BY <1>3 DEF SelState
  <2>2. sel'.held # << >> => HeldSound(sel)'
    BY <1>1, <2>1 DEF HeldSound
  <2>3. SelGone(sel)' = SelGone(sel)
    BY <1>2, <2>1 DEF SelGone
  <2>4. SInv'
    BY <1>3, <2>1, <2>2 DEF SInv
  <2>5. Contract!StartOp(o)
    BY <2>1, <2>3 DEF Contract!StartOp, SelGone
  <2> QED BY <2>4, <2>5 DEF SelAllowed, Contract!ContractNext
<1>4. CASE sel' = SelResolve(s, o, ec)
  <2>1. sel' = [s EXCEPT !.op = @ \ {o}, !.done[o] = ec]
    BY <1>4 DEF SelResolve
  <2>2. /\ sel' \in SelState /\ sel'.held = s.held /\ sel'.gone = s.gone /\ sel'.tcp = s.tcp
        /\ sel'.udp = s.udp /\ sel'.pc = sel.pc /\ sel'.left = s.left
    BY ZenonT(40), <2>1 DEF SelState
  <2>3. sel'.op = sel.op \ {o} /\ sel'.done = [sel.done EXCEPT ![o] = ec]
    BY <2>1 DEF SelState
  <2>4. sel'.op = sel.op
    BY <2>3
  <2>5. sel'.held # << >> => HeldSound(sel)'
    BY <1>1, <2>2, <2>4 DEF HeldSound
  <2>6. SelGone(sel)' = SelGone(sel)
    BY <1>2, <2>2 DEF SelGone
  <2>7. SInv'
    BY <1>0, <2>2, <2>3, <2>4, <2>5 DEF SInv, SelState
  <2>8. Contract!StartDone(o, ec)
    BY <2>3, <2>4, <2>6 DEF Contract!StartDone, SelGone
  <2> QED BY <2>7, <2>8 DEF SelAllowed, Contract!ContractNext
<1> QED BY <1>3, <1>4

\* The byte that wakes the thread fits into the pipe.
LEMMA Notified ==
    ASSUME SInv, CoreMay
    PROVE  sel.pipe + 1 \in 0..MaxPipe
BY DEF SInv, CoreMay, SelState

LEMMA SelStartsAllowed ==
    ASSUME SInv,
           \/ UdpRecvWait \/ (\E status \in {"no", "yes", "refused"} : TcpAsyncConnect(status))
           \/ TcpAsyncWrite \/ TcpAsyncRead
    PROVE  SInv' /\ SelAllowed
<1>0. sel \in SelState
  BY DEF SInv
<1> DEFINE pipe == sel.pipe + 1
<1>1. CASE UdpRecvWait
  <2>0. "recv" \notin sel.op /\ sel.done["recv"] = "none" /\ pipe \in 0..MaxPipe
    BY <1>1, Notified DEF UdpRecvWait
  <2> HIDE DEF pipe
  <2> DEFINE s == [sel EXCEPT !.pipe = pipe]
  <2>1. sel' = SelResolve(sel, "recv", "ABORTED") \/ sel' = [s EXCEPT !.op = @ \cup {"recv"}]
    BY ZenonT(40), <1>0, <1>1 DEF UdpRecvWait, SelNotify, SelState, pipe
  <2>2. /\ s \in SelState /\ s.held = sel.held /\ s.op = sel.op /\ s.done = sel.done /\ s.gone = sel.gone
        /\ s.tcp = sel.tcp /\ s.udp = sel.udp /\ s.pc = sel.pc /\ s.left = sel.left
    BY <1>0, <2>0 DEF SelState
  <2> HIDE DEF s
  <2>3. CASE sel' = SelResolve(sel, "recv", "ABORTED")
    BY <1>0, <2>0, <2>3, SelOperationStarted
  <2>4. CASE sel' = [s EXCEPT !.op = @ \cup {"recv"}]
    BY <2>0, <2>2, <2>4, SelOperationStarted
  <2> QED BY <2>1, <2>3, <2>4
<1>2. ASSUME NEW status \in {"no", "yes", "refused"}, TcpAsyncConnect(status) PROVE SInv' /\ SelAllowed
  <2>0. /\ "connect" \notin sel.op /\ sel.done["connect"] = "none" /\ pipe \in 0..MaxPipe
        /\ sel.tcp = "made" /\ "tcp" \notin sel.gone
    BY <1>2, Notified DEF TcpAsyncConnect, SInv
  <2> HIDE DEF pipe
  <2> DEFINE s == [sel EXCEPT !.tcp = "open", !.conn = status]
             t == [s EXCEPT !.pipe = pipe]
  <2>1. /\ s \in SelState /\ s.held = sel.held /\ s.op = sel.op /\ s.done = sel.done /\ s.gone = sel.gone
        /\ s.tcp = "open" /\ s.udp = sel.udp /\ s.pc = sel.pc /\ s.left = sel.left /\ s.conn = status
    <3>1. status \in {"no", "yes", "refused"} /\ "open" \in SelPhases
      BY <1>2 DEF SelPhases
    <3>2. s \in SelState
      BY ZenonT(40), <1>0, <3>1 DEF SelState
    <3> QED BY <1>0, <3>2 DEF SelState
  <2>2. IF status = "no" THEN sel' = [t EXCEPT !.op = @ \cup {"connect"}]
        ELSE sel' = SelResolve(s, "connect", IsConnectedEc(s))
    BY ZenonT(40), <1>0, <1>2 DEF TcpAsyncConnect, SelNotify, SelState, pipe
  <2> HIDE DEF s
  <2>3. /\ t \in SelState /\ t.held = sel.held /\ t.op = sel.op /\ t.done = sel.done /\ t.gone = sel.gone
        /\ t.tcp = "open" /\ t.udp = sel.udp /\ t.pc = sel.pc /\ t.left = sel.left
    BY <2>0, <2>1 DEF SelState
  <2> HIDE DEF t
  <2>4. CASE status = "no"
    BY <2>0, <2>2, <2>3, <2>4, SelOperationStarted
  <2>5. CASE status # "no"
    <3>1. IsConnectedEc(s) \in SelCodes
      BY <2>1, <2>5 DEF IsConnectedEc
    <3> QED BY <2>0, <2>1, <2>2, <2>5, <3>1, SelOperationStarted
  <2> QED BY <2>4, <2>5
<1>3. CASE TcpAsyncWrite
  <2>0. "write" \notin sel.op /\ sel.done["write"] = "none" /\ sel.tcp = "open" /\ pipe \in 0..MaxPipe
    BY <1>3, Notified DEF TcpAsyncWrite
  <2> HIDE DEF pipe
  <2> DEFINE s == [sel EXCEPT !.left = 2, !.pipe = pipe]
  <2>1. \/ sel' = SelResolve(sel, "write", "ABORTED")
        \/ sel' = [s EXCEPT !.op = @ \cup {"write"}] /\ "tcp" \notin sel.gone
    BY ZenonT(40), <1>0, <1>3 DEF TcpAsyncWrite, SelNotify, SelState, pipe
  <2>2. /\ s \in SelState /\ s.held = sel.held /\ s.op = sel.op /\ s.done = sel.done /\ s.gone = sel.gone
        /\ s.tcp = sel.tcp /\ s.udp = sel.udp /\ s.pc = sel.pc
    <3>1. 2 \in 0..2
      OBVIOUS
    <3>2. s \in SelState
      BY ZenonT(40), <1>0, <2>0, <3>1 DEF SelState
    <3> QED BY <1>0, <3>2 DEF SelState
  <2> HIDE DEF s
  <2>3. CASE sel' = SelResolve(sel, "write", "ABORTED")
    BY <1>0, <2>0, <2>3, SelOperationStarted
  <2>4. CASE sel' = [s EXCEPT !.op = @ \cup {"write"}] /\ "tcp" \notin sel.gone
    BY <2>0, <2>2, <2>4, SelOperationStarted
  <2> QED BY <2>1, <2>3, <2>4
<1>4. CASE TcpAsyncRead
  <2>0. "read" \notin sel.op /\ sel.done["read"] = "none" /\ sel.tcp = "open" /\ pipe \in 0..MaxPipe
    BY <1>4, Notified DEF TcpAsyncRead
  <2> HIDE DEF pipe
  <2> DEFINE s == [sel EXCEPT !.pipe = pipe]
  <2>1. \/ sel' = SelResolve(sel, "read", "ABORTED")
        \/ sel' = [s EXCEPT !.op = @ \cup {"read"}] /\ "tcp" \notin sel.gone
    BY ZenonT(40), <1>0, <1>4 DEF TcpAsyncRead, SelNotify, SelState, pipe
  <2>2. /\ s \in SelState /\ s.held = sel.held /\ s.op = sel.op /\ s.done = sel.done /\ s.gone = sel.gone
        /\ s.tcp = sel.tcp /\ s.udp = sel.udp /\ s.pc = sel.pc /\ s.left = sel.left
    BY <1>0, <2>0 DEF SelState
  <2> HIDE DEF s
  <2>3. CASE sel' = SelResolve(sel, "read", "ABORTED")
    BY <1>0, <2>0, <2>3, SelOperationStarted
  <2>4. CASE sel' = [s EXCEPT !.op = @ \cup {"read"}] /\ "tcp" \notin sel.gone
    BY <2>0, <2>2, <2>4, SelOperationStarted
  <2> QED BY <2>1, <2>3, <2>4
<1> QED BY <1>1, <1>2, <1>3, <1>4

\* nm_select_unix_udp_recv_from and the other callbacks of the core take a result, once.
LEMMA SelCallbacksAllowed ==
    ASSUME SInv, UdpRecvFrom \/ \E o \in SelOps : SelCallback(o)
    PROVE  SInv' /\ SelAllowed
<1>0. sel \in SelState
  BY DEF SInv
<1>1. PICK o \in SelOps :
        /\ sel.done[o] # "none"
        /\ sel' = [sel EXCEPT !.done[o] = "none"]
           \/ \E data \in BOOLEAN : sel' = [sel EXCEPT !.done[o] = "none", !.data = data]
  <2>1. CASE UdpRecvFrom
    <3>1. sel' = [sel EXCEPT !.done["recv"] = "none", !.data = @ /\ sel.done["recv"] # "OK"]
      BY <2>1 DEF UdpRecvFrom
    <3>2. sel' = [sel EXCEPT !.done["recv"] = "none", !.data = sel.data /\ sel.done["recv"] # "OK"]
      BY <1>0, <3>1 DEF SelState
    <3>3. (sel.data /\ sel.done["recv"] # "OK") \in BOOLEAN
      BY <1>0 DEF SelState
    <3> QED BY ZenonT(40), <2>1, <3>2, <3>3 DEF UdpRecvFrom
  <2>2. CASE \E o \in SelOps : SelCallback(o)
    BY Zenon, <2>2 DEF SelCallback
  <2> QED BY ZenonT(40), <2>1, <2>2
<1>2. /\ sel' \in SelState /\ sel'.held = sel.held /\ sel'.op = sel.op
      /\ sel'.done = [sel.done EXCEPT ![o] = "none"] /\ sel'.gone = sel.gone /\ sel'.tcp = sel.tcp
      /\ sel'.udp = sel.udp /\ sel'.pc = sel.pc /\ sel'.left = sel.left
  <2>1. CASE sel' = [sel EXCEPT !.done[o] = "none"]
    BY <1>0, <2>1 DEF SelState
  <2>2. ASSUME NEW data \in BOOLEAN, sel' = [sel EXCEPT !.done[o] = "none", !.data = data] PROVE <1>2!:
    BY ZenonT(40), <1>0, <2>2 DEF SelState
  <2> QED BY ZenonT(40), <1>1, <2>1, <2>2
<1>3. sel'.held # << >> => HeldSound(sel)'
  BY <1>2 DEF SInv, HeldSound
<1>4. SInv'
  BY <1>0, <1>2, <1>3 DEF SInv, SelState
<1>5. Contract!CallbackOp(o)
  BY Zenon, <1>1, <1>2 DEF Contract!CallbackOp
<1> QED BY <1>4, <1>5 DEF SelAllowed, Contract!ContractNext

\* nm_select_unix_udp_abort and tcp_abort complete what is under way with NABTO_EC_ABORTED, and
\* the thread may hold it.
LEMMA SelAbortsAllowed ==
    ASSUME SInv, UdpAbort \/ SelTcpAbort
    PROVE  SInv' /\ SelAllowed
<1>0. sel \in SelState
  BY DEF SInv
<1>1. CASE UdpAbort
  <2>1. /\ sel' \in SelState /\ sel'.held = sel.held /\ sel'.op = sel.op \ {"recv"}
        /\ sel'.done = [o \in SelOps |-> IF o \in {"recv"} \cap sel.op THEN "ABORTED" ELSE sel.done[o]]
        /\ sel'.gone = sel.gone \cup {"udp"} /\ sel'.tcp = sel.tcp /\ sel'.udp = sel.udp
        /\ sel'.pc = sel.pc /\ sel'.left = sel.left
    <3> DEFINE s == [sel EXCEPT !.gone = @ \cup {"udp"}]
    <3>0. /\ s \in SelState /\ s.held = sel.held /\ s.op = sel.op /\ s.done = sel.done
          /\ s.gone = sel.gone \cup {"udp"} /\ s.tcp = sel.tcp /\ s.udp = sel.udp /\ s.pc = sel.pc
          /\ s.left = sel.left
      BY <1>0 DEF SelState
    <3>1. sel' = IF "recv" \in s.op THEN [s EXCEPT !.op = @ \ {"recv"}, !.done["recv"] = "ABORTED"] ELSE s
      BY <1>1 DEF UdpAbort, SelResolve
    <3> HIDE DEF s
    <3>2. CASE "recv" \in sel.op
      <4>1. sel' = [s EXCEPT !.op = @ \ {"recv"}, !.done["recv"] = "ABORTED"]
        BY <3>0, <3>1, <3>2
      <4>2. /\ sel' \in SelState /\ sel'.held = sel.held /\ sel'.gone = sel.gone \cup {"udp"}
            /\ sel'.tcp = sel.tcp /\ sel'.udp = sel.udp /\ sel'.pc = sel.pc /\ sel'.left = sel.left
        BY ZenonT(40), <3>0, <4>1 DEF SelState
      <4>3. sel'.op = sel.op \ {"recv"} /\ sel'.done = [sel.done EXCEPT !["recv"] = "ABORTED"]
        BY <3>0, <4>1 DEF SelState
      <4>4. sel'.done = [o \in SelOps |-> IF o \in {"recv"} \cap sel.op THEN "ABORTED" ELSE sel.done[o]]
        BY <1>0, <3>2, <4>3 DEF SelState
      <4> QED BY <4>2, <4>3, <4>4
    <3>3. CASE "recv" \notin sel.op
      BY <3>0, <3>1, <3>3 DEF SelState
    <3> QED BY <3>2, <3>3
  <2>2. SelGone(sel)' = SelGone(sel) \cup {"recv"}
    BY <2>1 DEF SelGone
  <2>3. sel'.held # << >> => HeldSound(sel)'
    BY <1>0, <2>1 DEF SInv, HeldSound, SelState
  <2>4. SInv'
    BY <1>0, <2>1, <2>3 DEF SInv, SelState
  <2>5. Contract!AbortOps({"recv"})
    BY <2>1, <2>2 DEF Contract!AbortOps, SelGone
  <2> QED BY <2>4, <2>5 DEF SelAllowed, Contract!ContractNext
<1>2. CASE SelTcpAbort
  <2>1. /\ sel' \in SelState /\ sel'.held = sel.held /\ sel'.op = sel.op \ TcpOps
        /\ sel'.done = [o \in SelOps |-> IF o \in TcpOps \cap sel.op THEN "ABORTED" ELSE sel.done[o]]
        /\ sel'.gone = sel.gone \cup {"tcp"} /\ sel'.tcp = sel.tcp /\ sel'.udp = sel.udp
        /\ sel'.pc = sel.pc /\ sel'.left = sel.left
    <3> DEFINE done == [o \in SelOps |-> IF o # "recv" /\ o \in sel.op THEN "ABORTED" ELSE sel.done[o]]
    <3>1. done \in [SelOps -> Codes]
      BY <1>0 DEF SelState
    <3>2. sel' = [sel EXCEPT !.gone = @ \cup {"tcp"}, !.op = @ \ TcpOps, !.done = done]
      <4>1. {"connect", "write", "read"} = TcpOps
        OBVIOUS
      <4>2. sel' = [sel EXCEPT !.gone = @ \cup {"tcp"}, !.op = @ \ {"connect", "write", "read"},
                     !.done = [o \in SelOps |-> IF o # "recv" /\ o \in sel.op THEN "ABORTED" ELSE @[o]]]
        BY <1>2 DEF SelTcpAbort, TcpAbortOps
      <4> QED BY ZenonT(40), <1>0, <4>1, <4>2 DEF SelState
    <3>3. done = [o \in SelOps |-> IF o \in TcpOps \cap sel.op THEN "ABORTED" ELSE sel.done[o]]
      OBVIOUS
    <3> HIDE DEF done
    <3>4. sel' \in SelState
      BY ZenonT(40), <1>0, <3>1, <3>2 DEF SelState
    <3>5. /\ sel'.held = sel.held /\ sel'.op = sel.op \ TcpOps /\ sel'.done = done
          /\ sel'.gone = sel.gone \cup {"tcp"} /\ sel'.tcp = sel.tcp /\ sel'.udp = sel.udp
          /\ sel'.pc = sel.pc /\ sel'.left = sel.left
      BY <1>0, <3>2 DEF SelState
    <3> QED BY <3>3, <3>4, <3>5
  <2>2. SelGone(sel)' = SelGone(sel) \cup TcpOps
    BY <2>1 DEF SelGone
  <2>3. sel'.held # << >> => HeldSound(sel)'
    BY <1>0, <2>1 DEF SInv, HeldSound, SelState
  <2>4. SInv'
    BY <1>0, <2>1, <2>3 DEF SInv, SelState
  <2>5. Contract!AbortOps(TcpOps)
    BY <2>1, <2>2 DEF Contract!AbortOps, SelGone
  <2> QED BY <2>4, <2>5 DEF SelAllowed, Contract!ContractNext
<1> QED BY <1>1, <1>2

\* free_socket, under the mutex, leaves nothing of the socket: the thread holds none of it.
LEMMA SelDestroysAllowed ==
    ASSUME SInv, UdpDestroy \/ TcpDestroy
    PROVE  SInv' /\ SelAllowed
<1>0. sel \in SelState /\ sel.held = << >> /\ sel.pc \notin {"connect", "write"}
  BY DEF SInv, UdpDestroy, TcpDestroy, Locked
<1>1. CASE UdpDestroy
  <2>0. sel' = [sel EXCEPT !.udp = "freed", !.op = @ \ {"recv"}, !.done["recv"] = "none"]
    BY <1>1 DEF UdpDestroy
  <2>1. /\ sel' \in SelState /\ sel'.held = << >> /\ sel'.gone = sel.gone /\ sel'.tcp = sel.tcp
        /\ sel'.udp = "freed" /\ sel'.pc = sel.pc
    BY ZenonT(40), <1>0, <2>0 DEF SelState, SelPhases
  <2>2. /\ sel'.op = sel.op \ {"recv"}
        /\ sel'.done = [o \in SelOps |-> IF o \in {"recv"} THEN "none" ELSE sel.done[o]]
    <3>1. sel'.op = sel.op \ {"recv"} /\ sel'.done = [sel.done EXCEPT !["recv"] = "none"]
      BY <1>0, <2>0 DEF SelState
    <3> QED BY <1>0, <3>1 DEF SelState
  <2>3. SelGone(sel)' = SelGone(sel) \cup {"recv"}
    BY <2>1 DEF SelGone
  <2>4. SInv'
    BY <1>0, <2>1, <2>2 DEF SInv, SelState
  <2>5. Contract!DestroyOps({"recv"})
    BY <2>2, <2>3 DEF Contract!DestroyOps, SelGone
  <2> QED BY <2>4, <2>5 DEF SelAllowed, Contract!ContractNext
<1>2. CASE TcpDestroy
  <2> DEFINE s == TcpAbortOps(sel)
  <2>1. /\ s \in SelState /\ s.held = << >> /\ s.op = sel.op \ TcpOps /\ s.done["recv"] = sel.done["recv"]
        /\ s.gone = sel.gone \cup {"tcp"} /\ s.udp = sel.udp /\ s.pc = sel.pc
    <3>1. CASE "tcp" \in sel.gone
      BY <1>0, <3>1 DEF TcpAbortOps, SInv, SelState
    <3>2. CASE "tcp" \notin sel.gone
      <4> DEFINE gone == sel.gone \cup {"tcp"}
                 op == sel.op \ {"connect", "write", "read"}
                 done == [o \in SelOps |-> IF o # "recv" /\ o \in sel.op THEN "ABORTED" ELSE sel.done[o]]
                 t == [sel EXCEPT !.gone = gone, !.op = op, !.done = done]
      <4>1. s = t
        BY <3>2 DEF TcpAbortOps
      <4>2. gone \in SUBSET {"udp", "tcp"} /\ op \in SUBSET SelOps /\ op = sel.op \ TcpOps
        BY <1>0 DEF SelState, TcpOps
      <4>3. done \in [SelOps -> Codes] /\ done["recv"] = sel.done["recv"]
        BY <1>0 DEF SelState, SelOps, Codes
      <4> HIDE DEF gone, op, done
      <4>4. t \in SelState
        BY ZenonT(40), <1>0, <4>2, <4>3 DEF SelState
      <4>5. t.held = sel.held /\ t.op = op /\ t.done = done /\ t.gone = gone /\ t.udp = sel.udp /\ t.pc = sel.pc
        BY <1>0 DEF SelState
      <4> HIDE DEF s, t
      <4> QED BY <1>0, <4>1, <4>2, <4>3, <4>4, <4>5 DEF gone
    <3> QED BY <3>1, <3>2
  <2>2. sel' = [s EXCEPT !.tcp = "freed", !.done = [o \in SelOps |-> IF o = "recv" THEN @[o] ELSE "none"]]
    BY <1>2 DEF TcpDestroy
  <2> HIDE DEF s
  <2>3. /\ sel' \in SelState /\ sel'.held = << >> /\ sel'.gone = sel.gone \cup {"tcp"} /\ sel'.tcp = "freed"
        /\ sel'.udp = sel.udp /\ sel'.pc = sel.pc /\ sel'.op = sel.op \ TcpOps
    BY ZenonT(40), <2>1, <2>2 DEF SelState, SelPhases
  <2>4. sel'.done = [o \in SelOps |-> IF o = "recv" THEN s.done[o] ELSE "none"]
    BY <2>1, <2>2 DEF SelState
  <2>5. sel'.done = [o \in SelOps |-> IF o \in TcpOps THEN "none" ELSE sel.done[o]]
    BY <2>1, <2>4
  <2>6. SelGone(sel)' = SelGone(sel) \cup TcpOps
    BY <2>3 DEF SelGone
  <2>7. SInv'
    BY <1>0, <2>3, <2>5 DEF SInv, SelState
  <2>8. Contract!DestroyOps(TcpOps)
    BY <2>3, <2>5, <2>6 DEF Contract!DestroyOps, SelGone
  <2> QED BY <2>7, <2>8 DEF SelAllowed, Contract!ContractNext
<1> QED BY <1>1, <1>2

\* Every step keeps the invariant and is a step of the contract, or invisible.
LEMMA SelStep == SInv /\ [SelNext]_sel => SInv' /\ SelAllowed
<1> SUFFICES ASSUME SInv, [SelNext]_sel PROVE SInv' /\ SelAllowed
  OBVIOUS
<1>1. CASE UNCHANGED sel
  BY <1>1 DEF SInv, HeldSound, SelState, SelGone, SelSeen, SelAllowed
<1>2. CASE SelThread
  BY <1>2, WaitingInvisible, HandlersInvisible, SelHeldResolved DEF SelThread, SelAllowed
<1>3. CASE SelCore
  BY <1>3, CallsInvisible, SelStartsAllowed, SelCallbacksAllowed, SelAbortsAllowed, SelDestroysAllowed
     DEF SelCore, SelAllowed
<1> QED BY <1>1, <1>2, <1>3 DEF SelNext

\* The sockets of modules/select_unix implement SocketContract: an operation completes once, and
\* only a socket that was aborted can see a second completion.
THEOREM SelectKeepsContract == SelInit /\ [][SelNext]_sel => SelImplementsContract
<1>1. SInv /\ [SelNext]_sel =>
        SInv' /\ [Contract!ContractNext]_<<sel.op, sel.done,
                    (IF "udp" \in sel.gone \/ sel.udp = "freed" THEN {"recv"} ELSE {})
                      \cup (IF "tcp" \in sel.gone \/ sel.tcp = "freed" THEN TcpOps ELSE {})>>
  BY SelStep DEF SelAllowed, SelSeen, SelGone
<1> QED
  BY <1>1, SelStart, PTL DEF SelImplementsContract, Contract!ContractSpec

\* The network thread resolves only for sockets that are there, and a write that it reports done
\* is complete (nm_select_unix_udp_handle_select, nm_select_unix_tcp_handle_select).
THEOREM HeldAlwaysValid == SelInit /\ [][SelNext]_sel => []SelHeldValid
<1>1. SInv => SelHeldValid
  BY DEF SInv, SelHeldValid, SelTypeOK, HeldSound, SelState, SelPhases
<1> QED
  BY <1>1, SelStart, SelStep, PTL

-----------------------------------------------------------------------------
(* modules/libevent *)

LevPhases == {"none", "made", "open", "bad", "freed"}

LevState ==
    [use : SUBSET LevOps, held : {<< >>} \cup (LevOps \X LevCodes), crashed : BOOLEAN,
     udp : LevPhases, tcp : LevPhases, gone : SUBSET {"udp", "tcp"}, op : SUBSET LevOps,
     done : [LevOps -> LevCodes \cup {"none"}], added : BOOLEAN, data : BOOLEAN,
     enabled : SUBSET {"r", "w"}, connecting : BOOLEAN, inbuf : BOOLEAN, outbuf : BOOLEAN,
     broken : BOOLEAN, input : {"none", "data", "eof", "error"}, conn : {"no", "yes", "refused"}]

\* The operations of sockets that were aborted, as LevContract maps them.
Gone(s) ==
    (IF "udp" \in s.gone THEN {"recv"} ELSE {})
      \cup (IF "tcp" \in s.gone THEN LevOps \ {"recv"} ELSE {})

\* What the mapping needs beyond the types: an operation under way has no result yet; a TCP
\* socket has operations and results only once it is connecting; and what a callback
\* of libevent is about to resolve is still under way, or its socket has been aborted
\* meanwhile.
LInv ==
    /\ lev \in LevState
    /\ \A o \in lev.op : lev.done[o] = "none"
    /\ lev.tcp \in {"none", "made"} => \A o \in LevOps \ {"recv"} : o \notin lev.op /\ lev.done[o] = "none"
    /\ lev.held # << >> =>
         /\ lev.held[1] \in lev.op \/ lev.held[1] \in Gone(lev)
         /\ lev.held[1] # "recv" => lev.tcp = "open"

\* What LevContract sees of a state.
Seen == <<lev.op, lev.done, Gone(lev)>>

USE DEF LevOps, LevCodes

\* tcp_create and udp_create have not been called yet.
LEMMA LevStart == LevInit => LInv /\ LevContract!ContractInit
<1> SUFFICES ASSUME LevInit PROVE LInv /\ LevContract!ContractInit
  OBVIOUS
<1>1. PICK use \in LevUses :
    lev = [use |-> use, held |-> << >>, crashed |-> FALSE, udp |-> "none", tcp |-> "none", gone |-> {},
           op |-> {}, done |-> [o \in LevOps |-> "none"], added |-> FALSE, data |-> FALSE,
           enabled |-> {}, connecting |-> FALSE, inbuf |-> FALSE, outbuf |-> FALSE, broken |-> FALSE,
           input |-> "none", conn |-> "no"]
  BY Zenon DEF LevInit
<1>2. use \in SUBSET LevOps
  BY DEF LevUses
<1>3. LInv
  BY <1>1, <1>2 DEF LInv, LevState, LevPhases, Gone
<1>4. LevContract!ContractInit
  BY <1>1 DEF LevContract!ContractInit
<1> QED BY <1>3, <1>4

\* A callback of libevent changes nothing that the core sees until it resolves
\* (udp_ready_callback, tcp_bufferevent_event and its like).
LEMMA CallbackTaken ==
    ASSUME LInv, Idle,
           NEW s \in LevState, s.held = << >>, s.op = lev.op, s.done = lev.done, s.gone = lev.gone,
           s.tcp = lev.tcp, NEW o \in LevOps, NEW ec \in LevCodes,
           o # "recv" => lev.tcp = "open", lev' = Found(s, o, ec)
    PROVE  LInv' /\ UNCHANGED Seen
<1>1. CASE o \in s.op
  <2>1. lev' = [s EXCEPT !.held = <<o, ec>>]
    BY <1>1 DEF Found
  <2>2. <<o, ec>> \in LevOps \X LevCodes /\ <<o, ec>>[1] = o
    OBVIOUS
  <2>3. lev' \in LevState /\ lev'.held = <<o, ec>>
    BY <2>1, <2>2 DEF LevState
  <2>4. lev'.op = lev.op /\ lev'.done = lev.done /\ lev'.gone = lev.gone /\ lev'.tcp = lev.tcp
    BY <2>1 DEF LevState
  <2> QED BY <1>1, <2>2, <2>3, <2>4 DEF LInv, Seen, Gone
<1>2. CASE o \notin s.op
  <2>1. lev' = s
    BY <1>2 DEF Found
  <2> QED BY <2>1 DEF LInv, Seen, Gone
<1> QED BY <1>1, <1>2

\* tcp_eof is such a callback.
LEMMA EofTaken ==
    ASSUME LInv, Idle, lev.tcp = "open",
           NEW s \in LevState, s.held = << >>, s.op = lev.op, s.done = lev.done, s.gone = lev.gone,
           s.tcp = lev.tcp, lev' = TcpEof(s)
    PROVE  LInv' /\ UNCHANGED Seen
<1>1. CASE "connect" \in s.op
  BY <1>1, CallbackTaken DEF TcpEof
<1>2. CASE "connect" \notin s.op
  BY <1>2, CallbackTaken DEF TcpEof
<1> QED BY <1>1, <1>2

\* The four callbacks of libevent are invisible to the core.
LEMMA CallbacksInvisible ==
    ASSUME LInv,
           UdpReadyCallback \/ TcpBuffereventEvent \/ TcpBuffereventEventRead \/ TcpBuffereventEventWrite
    PROVE  LInv' /\ UNCHANGED Seen
<1>0. lev \in LevState
  BY DEF LInv
<1>1. CASE UdpReadyCallback
  <2> DEFINE s == [lev EXCEPT !.added = FALSE]
  <2>1. /\ s \in LevState /\ s.held = << >> /\ s.op = lev.op /\ s.done = lev.done /\ s.gone = lev.gone
        /\ s.tcp = lev.tcp
    BY ZenonT(40), <1>0, <1>1 DEF LevState, UdpReadyCallback, Idle
  <2>2. Idle /\ lev' = Found(s, "recv", "OK")
    BY <1>1 DEF UdpReadyCallback
  <2> HIDE DEF s
  <2> QED BY <2>1, <2>2, CallbackTaken
<1>2. CASE TcpBuffereventEvent
  <2> DEFINE s == [lev EXCEPT !.connecting = FALSE]
  <2>1. /\ s \in LevState /\ s.held = << >> /\ s.op = lev.op /\ s.done = lev.done /\ s.gone = lev.gone
        /\ s.tcp = lev.tcp
    BY ZenonT(40), <1>0, <1>2 DEF LevState, TcpBuffereventEvent, Idle
  <2>2. /\ Idle /\ lev.tcp = "open"
        /\ lev' = Found(s, "connect", "OK") \/ lev' = TcpEof(s)
    BY <1>2 DEF TcpBuffereventEvent
  <2> HIDE DEF s
  <2> QED BY <2>1, <2>2, CallbackTaken, EofTaken
<1>3. CASE TcpBuffereventEventRead
  <2>0. Idle /\ lev.tcp = "open"
    BY <1>3 DEF TcpBuffereventEventRead
  <2> DEFINE s == [lev EXCEPT !.input = "none"]
             t == [s EXCEPT !.enabled = @ \ {"r"}, !.inbuf = FALSE]
             e == [lev EXCEPT !.enabled = @ \ {"r"}]
             b == [s EXCEPT !.inbuf = TRUE]
  <2>1. lev' = Found(t, "read", "OK") \/ lev' = b \/ lev' = TcpEof(e)
    BY <1>3 DEF TcpBuffereventEventRead
  <2>2. /\ t \in LevState /\ t.held = << >> /\ t.op = lev.op /\ t.done = lev.done /\ t.gone = lev.gone
        /\ t.tcp = lev.tcp
    BY ZenonT(40), <1>0, <2>0 DEF LevState, Idle
  <2>3. /\ e \in LevState /\ e.held = << >> /\ e.op = lev.op /\ e.done = lev.done /\ e.gone = lev.gone
        /\ e.tcp = lev.tcp
    BY <1>0, <2>0 DEF LevState, Idle
  <2>4. /\ b \in LevState /\ b.held = << >> /\ b.op = lev.op /\ b.done = lev.done /\ b.gone = lev.gone
        /\ b.tcp = lev.tcp
    BY ZenonT(40), <1>0, <2>0 DEF LevState, Idle
  <2> HIDE DEF s, t, e, b
  <2>5. CASE lev' = b
    BY <2>4, <2>5 DEF LInv, Seen, Gone
  <2> QED BY <2>0, <2>1, <2>2, <2>3, <2>5, CallbackTaken, EofTaken
<1>4. CASE TcpBuffereventEventWrite
  <2>0. Idle /\ lev.tcp = "open"
    BY <1>4 DEF TcpBuffereventEventWrite
  <2> DEFINE s == [lev EXCEPT !.outbuf = FALSE]
             e == [lev EXCEPT !.enabled = @ \ {"w"}, !.broken = TRUE]
  <2>1. lev' = Found(s, "write", "OK") \/ lev' = TcpEof(e)
    BY <1>4 DEF TcpBuffereventEventWrite
  <2>2. /\ s \in LevState /\ s.held = << >> /\ s.op = lev.op /\ s.done = lev.done /\ s.gone = lev.gone
        /\ s.tcp = lev.tcp
    BY ZenonT(40), <1>0, <2>0 DEF LevState, Idle
  <2>3. /\ e \in LevState /\ e.held = << >> /\ e.op = lev.op /\ e.done = lev.done /\ e.gone = lev.gone
        /\ e.tcp = lev.tcp
    BY ZenonT(40), <1>0, <2>0 DEF LevState, Idle
  <2> HIDE DEF s, e
  <2> QED BY <2>0, <2>1, <2>2, <2>3, CallbackTaken, EofTaken
<1> QED BY <1>1, <1>2, <1>3, <1>4

\* So are the network and the calls that start no operation.
LEMMA OthersInvisible ==
    ASSUME LInv,
           LevArrives \/ LevUdpCreate \/ (\E bound \in BOOLEAN : LevUdpBindPort(bound)) \/ LevTcpCreate
    PROVE  LInv' /\ UNCHANGED Seen
<1>0. lev \in LevState
  BY DEF LInv
<1>1. CASE LevArrives
  <2>1. /\ lev' \in LevState /\ lev'.held = lev.held /\ lev'.op = lev.op /\ lev'.done = lev.done
        /\ lev'.gone = lev.gone /\ lev'.tcp = lev.tcp
    <3>1. CASE lev' = [lev EXCEPT !.data = TRUE]
      BY ZenonT(40), <1>0, <3>1 DEF LevState
    <3>2. ASSUME NEW c \in {"yes", "refused"}, lev' = [lev EXCEPT !.conn = c] PROVE <2>1!:
      BY <1>0, <3>2 DEF LevState
    <3>3. ASSUME NEW i \in {"data", "eof", "error"}, lev' = [lev EXCEPT !.input = i] PROVE <2>1!:
      BY <1>0, <3>3 DEF LevState
    <3> QED BY <1>1, <3>1, <3>2, <3>3 DEF LevArrives
  <2> QED BY <2>1 DEF LInv, Seen, Gone
<1>2. CASE LevUdpCreate \/ (\E bound \in BOOLEAN : LevUdpBindPort(bound))
  <2>1. /\ lev' \in LevState /\ lev'.held = lev.held /\ lev'.op = lev.op /\ lev'.done = lev.done
        /\ lev'.gone = lev.gone /\ lev'.tcp = lev.tcp
    BY <1>0, <1>2 DEF LevState, LevUdpCreate, LevUdpBindPort, LevPhases
  <2> QED BY <2>1 DEF LInv, Seen, Gone
<1>3. CASE LevTcpCreate
  <2>1. /\ lev' \in LevState /\ lev'.held = << >> /\ lev'.op = lev.op /\ lev'.done = lev.done
        /\ lev'.gone = lev.gone /\ lev.tcp = "none"
    BY <1>0, <1>3 DEF LevState, LevTcpCreate, LevPhases, Idle
  <2> QED BY <2>1 DEF LInv, Seen, Gone
<1> QED BY <1>1, <1>2, <1>3

\* The core's view of a step that the contract allows.
Allowed == LevContract!ContractNext \/ UNCHANGED Seen

\* A callback resolves what it found: the one completion of the operation, or after an abort
\* a late one.
LEMMA HeldResolved ==
    ASSUME LInv, LevResolveHeld
    PROVE  LInv' /\ Allowed
<1> DEFINE o == lev.held[1]
           ec == lev.held[2]
<1>0. lev \in LevState /\ lev.held # << >>
  BY DEF LInv, LevResolveHeld
<1>1. o \in LevOps /\ ec \in LevCodes
  BY <1>0 DEF LevState
<1>2. o \in lev.op \/ o \in Gone(lev)
  BY <1>0 DEF LInv
<1>3. o # "recv" => lev.tcp = "open"
  BY <1>0 DEF LInv
<1> HIDE DEF o, ec
<1>4. CASE lev' = LevResolve([lev EXCEPT !.held = << >>], o, ec)
  <2>1. /\ lev' \in LevState /\ lev'.held = << >> /\ lev'.op = lev.op \ {o}
        /\ lev'.done = [lev.done EXCEPT ![o] = ec] /\ lev'.gone = lev.gone /\ lev'.tcp = lev.tcp
    BY ZenonT(40), <1>0, <1>1, <1>4 DEF LevResolve, LevState
  <2>2. LInv'
    BY <1>0, <1>1, <1>3, <2>1 DEF LInv, LevState
  <2>3. CASE o \in lev.op
    <3>1. lev.done[o] = "none"
      BY <2>3 DEF LInv
    <3>2. LevContract!CompleteOps({o}, [x \in {o} |-> ec])
      BY <1>0, <1>1, <2>1, <2>3, <3>1 DEF LevContract!CompleteOps, LevState
    <3>3. {o} \in SUBSET lev.op
      BY <2>3
    <3> QED BY ZenonT(40), <1>1, <2>2, <3>2, <3>3 DEF Allowed, LevContract!ContractNext
  <2>4. CASE o \notin lev.op
    <3>1. LevContract!LateOp(o, ec)
      BY <1>0, <1>1, <1>2, <2>1, <2>4 DEF LevContract!LateOp, Gone, LevState
    <3> QED BY <1>1, <2>2, <3>1 DEF Allowed, LevContract!ContractNext
  <2> QED BY <2>3, <2>4
<1>5. CASE lev' = [[lev EXCEPT !.held = << >>] EXCEPT !.crashed = TRUE]
  <2>1. /\ lev' \in LevState /\ lev'.held = << >> /\ lev'.op = lev.op /\ lev'.done = lev.done
        /\ lev'.gone = lev.gone /\ lev'.tcp = lev.tcp
    BY ZenonT(40), <1>0, <1>5 DEF LevState
  <2> QED BY <2>1 DEF LInv, Seen, Gone, Allowed
<1> QED BY <1>4, <1>5 DEF LevResolveHeld, o, ec

\* udp_async_recv_wait, tcp_async_connect, tcp_async_write, tcp_async_read: an operation begins,
\* or completes at once.
LEMMA OperationStarted ==
    ASSUME LInv, Idle, NEW o \in LevOps, NEW ec \in LevCodes, NEW s \in LevState,
           o \notin lev.op, lev.done[o] = "none", s.held = << >>, s.op = lev.op, s.done = lev.done,
           s.gone = lev.gone, s.tcp \in {lev.tcp, "open"}, o # "recv" => s.tcp = "open",
           lev' = [s EXCEPT !.op = @ \cup {o}] \/ lev' = LevResolve(s, o, ec)
    PROVE  LInv' /\ Allowed
<1>0. lev \in LevState
  BY DEF LInv
<1>1. CASE lev' = [s EXCEPT !.op = @ \cup {o}]
  <2>1. /\ lev' \in LevState /\ lev'.held = << >> /\ lev'.op = lev.op \cup {o} /\ lev'.done = lev.done
        /\ lev'.gone = lev.gone /\ lev'.tcp = s.tcp
    BY <1>1 DEF LevState
  <2>2. LInv'
    BY <2>1 DEF LInv
  <2>3. LevContract!StartOp(o)
    BY <2>1 DEF LevContract!StartOp
  <2> QED BY <2>2, <2>3 DEF Allowed, LevContract!ContractNext
<1>2. CASE lev' = LevResolve(s, o, ec)
  <2>1. /\ lev' \in LevState /\ lev'.held = << >> /\ lev'.op = lev.op
        /\ lev'.done = [lev.done EXCEPT ![o] = ec] /\ lev'.gone = lev.gone /\ lev'.tcp = s.tcp
    <3>1. lev' = [s EXCEPT !.op = @ \ {o}, !.done[o] = ec]
      BY <1>2 DEF LevResolve
    <3>2. lev' \in LevState /\ lev'.held = << >> /\ lev'.gone = lev.gone /\ lev'.tcp = s.tcp
      BY ZenonT(40), <3>1 DEF LevState
    <3>3. lev'.op = lev.op \ {o} /\ lev'.done = [lev.done EXCEPT ![o] = ec]
      BY <3>1 DEF LevState
    <3>4. lev.op \ {o} = lev.op
      OBVIOUS
    <3> QED BY <3>2, <3>3, <3>4
  <2>2. LInv'
    BY <1>0, <2>1 DEF LInv, LevState
  <2>3. LevContract!StartDone(o, ec)
    BY <2>1 DEF LevContract!StartDone
  <2> QED BY <2>2, <2>3 DEF Allowed, LevContract!ContractNext
<1> QED BY <1>1, <1>2

LEMMA StartsAllowed ==
    ASSUME LInv,
           LevUdpRecvWait \/ LevTcpConnect \/ (\E fails \in BOOLEAN : LevTcpWrite(fails)) \/ LevTcpRead
    PROVE  LInv' /\ Allowed
<1>0. lev \in LevState
  BY DEF LInv
<1>1. CASE LevUdpRecvWait
  <2>0. Idle /\ "recv" \notin lev.op /\ lev.done["recv"] = "none"
    BY <1>1 DEF LevUdpRecvWait
  <2> DEFINE s == [lev EXCEPT !.added = lev.udp = "open"]
  <2>1. lev' = LevResolve(lev, "recv", "ABORTED") \/ lev' = [s EXCEPT !.op = @ \cup {"recv"}]
    BY ZenonT(40), <1>0, <1>1 DEF LevUdpRecvWait, LevState
  <2>2. /\ s \in LevState /\ s.held = << >> /\ s.op = lev.op /\ s.done = lev.done /\ s.gone = lev.gone
        /\ s.tcp = lev.tcp
    BY ZenonT(40), <1>0, <2>0 DEF LevState, Idle
  <2>3. lev.held = << >>
    BY <2>0 DEF Idle
  <2> HIDE DEF s
  <2>4. CASE lev' = LevResolve(lev, "recv", "ABORTED")
    BY <1>0, <2>0, <2>3, <2>4, OperationStarted
  <2>5. CASE lev' = [s EXCEPT !.op = @ \cup {"recv"}]
    BY <2>0, <2>2, <2>5, OperationStarted
  <2> QED BY <2>1, <2>4, <2>5
<1>2. CASE LevTcpConnect
  <2>0. Idle /\ "connect" \notin lev.op /\ lev.done["connect"] = "none"
    BY <1>2 DEF LevTcpConnect, LInv
  <2> DEFINE s == [lev EXCEPT !.tcp = "open", !.enabled = {"r", "w"}, !.connecting = TRUE]
  <2>1. lev' = [s EXCEPT !.op = @ \cup {"connect"}]
    BY Zenon, <1>0, <1>2 DEF LevTcpConnect, LevState
  <2>2. /\ s \in LevState /\ s.held = << >> /\ s.op = lev.op /\ s.done = lev.done /\ s.gone = lev.gone
        /\ s.tcp = "open"
    BY ZenonT(40), <1>0, <2>0 DEF LevState, Idle, LevPhases
  <2> HIDE DEF s
  <2> QED BY <2>0, <2>1, <2>2, OperationStarted
<1>3. ASSUME NEW fails \in BOOLEAN, LevTcpWrite(fails) PROVE LInv' /\ Allowed
  <2>0. Idle /\ "write" \notin lev.op /\ lev.done["write"] = "none" /\ lev.tcp = "open"
    BY <1>3 DEF LevTcpWrite, MayStart
  <2> DEFINE s == [lev EXCEPT !.enabled = @ \cup {"w"}]
             t == [s EXCEPT !.outbuf = TRUE]
  <2>1. lev' = LevResolve(s, "write", "UNKNOWN") \/ lev' = [t EXCEPT !.op = @ \cup {"write"}]
    BY ZenonT(40), <1>0, <1>3 DEF LevTcpWrite, LevState
  <2>2. /\ s \in LevState /\ s.held = << >> /\ s.op = lev.op /\ s.done = lev.done /\ s.gone = lev.gone
        /\ s.tcp = lev.tcp
    BY <1>0, <2>0 DEF LevState, Idle
  <2>3. /\ t \in LevState /\ t.held = << >> /\ t.op = lev.op /\ t.done = lev.done /\ t.gone = lev.gone
        /\ t.tcp = lev.tcp
    BY ZenonT(40), <1>0, <2>0 DEF LevState, Idle
  <2> HIDE DEF s, t
  <2>4. CASE lev' = LevResolve(s, "write", "UNKNOWN")
    BY <2>0, <2>2, <2>4, OperationStarted
  <2>5. CASE lev' = [t EXCEPT !.op = @ \cup {"write"}]
    BY <2>0, <2>3, <2>5, OperationStarted
  <2> QED BY <2>1, <2>4, <2>5
<1>4. CASE LevTcpRead
  <2>0. Idle /\ "read" \notin lev.op /\ lev.done["read"] = "none" /\ lev.tcp = "open"
    BY <1>4 DEF LevTcpRead, MayStart
  <2> DEFINE s == [lev EXCEPT !.inbuf = FALSE, !.enabled = @ \ {"r"}]
             t == [lev EXCEPT !.enabled = @ \cup {"r"}]
  <2>1. lev' = LevResolve(s, "read", "OK") \/ lev' = [t EXCEPT !.op = @ \cup {"read"}]
    BY Zenon, <1>0, <1>4 DEF LevTcpRead, LevState
  <2>2. /\ s \in LevState /\ s.held = << >> /\ s.op = lev.op /\ s.done = lev.done /\ s.gone = lev.gone
        /\ s.tcp = lev.tcp
    BY ZenonT(40), <1>0, <2>0 DEF LevState, Idle
  <2>3. /\ t \in LevState /\ t.held = << >> /\ t.op = lev.op /\ t.done = lev.done /\ t.gone = lev.gone
        /\ t.tcp = lev.tcp
    BY <1>0, <2>0 DEF LevState, Idle
  <2> HIDE DEF s, t
  <2>4. CASE lev' = LevResolve(s, "read", "OK")
    BY <2>0, <2>2, <2>4, OperationStarted
  <2>5. CASE lev' = [t EXCEPT !.op = @ \cup {"read"}]
    BY <2>0, <2>3, <2>5, OperationStarted
  <2> QED BY <2>1, <2>4, <2>5
<1> QED BY <1>1, <1>2, <1>3, <1>4

\* udp_recv_from and the other callbacks of the core take a result, once.
LEMMA CallbacksAllowed ==
    ASSUME LInv, LevUdpRecvFrom \/ \E o \in LevOps : LevCallback(o)
    PROVE  LInv' /\ Allowed
<1>0. lev \in LevState
  BY DEF LInv
<1>1. PICK o \in LevOps :
        /\ Idle /\ lev.done[o] # "none"
        /\ lev' = [lev EXCEPT !.done[o] = "none"]
           \/ \E data \in BOOLEAN : lev' = [lev EXCEPT !.done[o] = "none", !.data = data]
  <2>1. CASE LevUdpRecvFrom
    <3>1. lev' = [lev EXCEPT !.done["recv"] = "none", !.data = @ /\ lev.done["recv"] # "OK"]
      BY <2>1 DEF LevUdpRecvFrom
    <3>2. lev' = [lev EXCEPT !.done["recv"] = "none", !.data = lev.data /\ lev.done["recv"] # "OK"]
      BY <1>0, <3>1 DEF LevState
    <3>3. (lev.data /\ lev.done["recv"] # "OK") \in BOOLEAN
      BY <1>0 DEF LevState
    <3> QED BY ZenonT(40), <2>1, <3>2, <3>3 DEF LevUdpRecvFrom
  <2>2. CASE \E o \in LevOps : LevCallback(o)
    BY Zenon, <2>2 DEF LevCallback
  <2> QED BY Zenon, <2>1, <2>2
<1>2. /\ lev' \in LevState /\ lev'.held = << >> /\ lev'.op = lev.op
      /\ lev'.done = [lev.done EXCEPT ![o] = "none"] /\ lev'.gone = lev.gone /\ lev'.tcp = lev.tcp
  <2>0. lev.held = << >>
    BY Zenon, <1>1 DEF Idle
  <2>1. CASE lev' = [lev EXCEPT !.done[o] = "none"]
    BY <1>0, <2>0, <2>1 DEF LevState
  <2>2. ASSUME NEW data \in BOOLEAN, lev' = [lev EXCEPT !.done[o] = "none", !.data = data] PROVE <1>2!:
    BY ZenonT(40), <1>0, <2>0, <2>2 DEF LevState
  <2> QED BY ZenonT(40), <1>1, <2>1, <2>2
<1>3. LInv'
  BY <1>0, <1>2 DEF LInv, LevState
<1>4. LevContract!CallbackOp(o)
  BY ZenonT(40), <1>1, <1>2 DEF LevContract!CallbackOp
<1> QED BY <1>3, <1>4 DEF Allowed, LevContract!ContractNext

\* udp_abort and tcp_abort complete what is under way with NABTO_EC_ABORTED; udp_destroy and
\* tcp_destroy leave nothing.
LEMMA EndsAllowed ==
    ASSUME LInv, LevUdpAbort \/ LevUdpDestroy \/ LevTcpAbort \/ LevTcpDestroy
    PROVE  LInv' /\ Allowed
<1>0. lev \in LevState
  BY DEF LInv
<1> DEFINE tcp == LevOps \ {"recv"}
<1>1. CASE LevUdpAbort
  <2>1. /\ lev' \in LevState /\ lev'.held = lev.held /\ lev'.op = lev.op \ {"recv"}
        /\ lev'.done = [o \in LevOps |-> IF o \in {"recv"} \cap lev.op THEN "ABORTED" ELSE lev.done[o]]
        /\ lev'.gone = lev.gone \cup {"udp"} /\ lev'.tcp = lev.tcp
    <3> DEFINE s == [lev EXCEPT !.gone = @ \cup {"udp"}]
    <3>0. /\ s \in LevState /\ s.held = lev.held /\ s.op = lev.op /\ s.done = lev.done
          /\ s.gone = lev.gone \cup {"udp"} /\ s.tcp = lev.tcp
      BY <1>0 DEF LevState
    <3>1. lev' = IF "recv" \in s.op THEN [s EXCEPT !.op = @ \ {"recv"}, !.done["recv"] = "ABORTED"] ELSE s
      BY <1>1 DEF LevUdpAbort, LevResolve
    <3> HIDE DEF s
    <3>2. CASE "recv" \in lev.op
      <4>1. lev' = [s EXCEPT !.op = @ \ {"recv"}, !.done["recv"] = "ABORTED"]
        BY <3>0, <3>1, <3>2
      <4>2. lev' \in LevState /\ lev'.held = lev.held /\ lev'.gone = lev.gone \cup {"udp"} /\ lev'.tcp = lev.tcp
        BY ZenonT(40), <3>0, <4>1 DEF LevState
      <4>3. lev'.op = lev.op \ {"recv"} /\ lev'.done = [lev.done EXCEPT !["recv"] = "ABORTED"]
        BY <3>0, <4>1 DEF LevState
      <4>4. lev'.done = [o \in LevOps |-> IF o \in {"recv"} \cap lev.op THEN "ABORTED" ELSE lev.done[o]]
        BY <1>0, <3>2, <4>3 DEF LevState
      <4> QED BY <4>2, <4>3, <4>4
    <3>3. CASE "recv" \notin lev.op
      BY <3>0, <3>1, <3>3 DEF LevState
    <3> QED BY <3>2, <3>3
  <2>2. Gone(lev)' = Gone(lev) \cup {"recv"}
    BY <2>1 DEF Gone
  <2>3. LInv'
    BY <1>0, <2>1, <2>2 DEF LInv, LevState
  <2>4. LevContract!AbortOps({"recv"})
    BY <2>1, <2>2 DEF LevContract!AbortOps, Gone
  <2> QED BY <2>3, <2>4 DEF Allowed, LevContract!ContractNext
<1>2. CASE LevUdpDestroy
  <2>1. /\ lev' \in LevState /\ lev'.held = << >> /\ lev'.op = lev.op \ {"recv"}
        /\ lev'.done = [o \in LevOps |-> IF o \in {"recv"} THEN "none" ELSE lev.done[o]]
        /\ lev'.gone = lev.gone \cup {"udp"} /\ lev'.tcp = lev.tcp
    BY ZenonT(40), <1>0, <1>2 DEF LevUdpDestroy, LevState, Idle, LevPhases
  <2>2. Gone(lev)' = Gone(lev) \cup {"recv"}
    BY <2>1 DEF Gone
  <2>3. LInv'
    BY <1>0, <2>1 DEF LInv, LevState
  <2>4. LevContract!DestroyOps({"recv"})
    BY <2>1, <2>2 DEF LevContract!DestroyOps, Gone
  <2> QED BY <2>3, <2>4 DEF Allowed, LevContract!ContractNext
<1>3. CASE LevTcpAbort
  <2>1. /\ lev' \in LevState /\ lev'.held = lev.held /\ lev'.op = lev.op \ tcp
        /\ lev'.done = [o \in LevOps |-> IF o \in tcp \cap lev.op THEN "ABORTED" ELSE lev.done[o]]
        /\ lev'.gone = lev.gone \cup {"tcp"} /\ lev'.tcp = lev.tcp
    BY ZenonT(40), <1>0, <1>3 DEF LevTcpAbort, LevTcpAbortOps, LevState
  <2>2. Gone(lev)' = Gone(lev) \cup tcp
    BY <2>1 DEF Gone
  <2>3. LInv'
    BY <1>0, <2>1, <2>2 DEF LInv, LevState
  <2>4. LevContract!AbortOps(tcp)
    BY <2>1, <2>2 DEF LevContract!AbortOps, Gone
  <2> QED BY <2>3, <2>4 DEF Allowed, LevContract!ContractNext
<1>4. CASE LevTcpDestroy
  <2>1. /\ lev' \in LevState /\ lev'.held = << >> /\ lev'.op = lev.op \ tcp
        /\ lev'.done = [o \in LevOps |-> IF o \in tcp THEN "none" ELSE lev.done[o]]
        /\ lev'.gone = lev.gone \cup {"tcp"} /\ lev'.tcp = "freed"
    <3> DEFINE s == LevTcpAbortOps(lev)
    <3>0. lev.held = << >>
      BY <1>4 DEF LevTcpDestroy, Idle
    <3>1. /\ s \in LevState /\ s.held = << >> /\ s.op \cap {"recv"} = lev.op \ tcp
          /\ s.done["recv"] = lev.done["recv"] /\ s.gone = lev.gone \cup {"tcp"}
      <4>1. CASE "tcp" \in lev.gone
        BY <1>0, <3>0, <4>1 DEF LevTcpAbortOps, LevState
      <4>2. CASE "tcp" \notin lev.gone
        BY ZenonT(40), <1>0, <3>0, <4>2 DEF LevTcpAbortOps, LevState
      <4> QED BY <4>1, <4>2
    <3>2. lev' = [s EXCEPT !.tcp = "freed", !.enabled = {}, !.connecting = FALSE, !.op = @ \cap {"recv"},
                           !.done = [o \in LevOps |-> IF o = "recv" THEN @[o] ELSE "none"]]
      BY <1>4 DEF LevTcpDestroy
    <3> HIDE DEF s
    <3>3. lev' \in LevState /\ lev'.held = << >> /\ lev'.op = s.op \cap {"recv"} /\ lev'.gone = s.gone
            /\ lev'.tcp = "freed"
      BY ZenonT(40), <3>1, <3>2 DEF LevState, LevPhases
    <3>4. lev'.done = [o \in LevOps |-> IF o = "recv" THEN s.done[o] ELSE "none"]
      BY <3>1, <3>2 DEF LevState
    <3> QED BY <3>1, <3>3, <3>4
  <2>2. Gone(lev)' = Gone(lev) \cup tcp
    BY <2>1 DEF Gone
  <2>3. LInv'
    BY <1>0, <2>1 DEF LInv, LevState
  <2>4. LevContract!DestroyOps(tcp)
    BY <2>1, <2>2 DEF LevContract!DestroyOps, Gone
  <2> QED BY <2>3, <2>4 DEF Allowed, LevContract!ContractNext
<1> QED BY <1>1, <1>2, <1>3, <1>4

\* Every step keeps the invariant and is a step of the contract, or invisible.
LEMMA LevStep == LInv /\ [LevNext]_lev => LInv' /\ Allowed
<1> SUFFICES ASSUME LInv, [LevNext]_lev PROVE LInv' /\ Allowed
  OBVIOUS
<1>1. CASE UNCHANGED lev
  BY <1>1 DEF LInv, LevState, Gone, Seen, Allowed
<1>2. ASSUME LInv' /\ UNCHANGED Seen PROVE LInv' /\ Allowed
  BY <1>2 DEF Allowed
<1> QED
  BY <1>1, <1>2, CallbacksInvisible, OthersInvisible, HeldResolved, StartsAllowed, CallbacksAllowed,
     EndsAllowed DEF LevNext, LevEventBase

\* The sockets of modules/libevent implement SocketContract: an operation completes once, and
\* only a socket that was aborted can see a second completion.
THEOREM LibeventKeepsContract == LevInit /\ [][LevNext]_lev => LevImplementsContract
<1>1. LInv /\ [LevNext]_lev =>
        LInv' /\ [LevContract!ContractNext]_<<lev.op, lev.done,
                    (IF "udp" \in lev.gone THEN {"recv"} ELSE {})
                      \cup (IF "tcp" \in lev.gone THEN LevOps \ {"recv"} ELSE {})>>
  BY LevStep DEF Allowed, Seen, Gone
<1> QED
  BY <1>1, LevStart, PTL DEF LevImplementsContract, LevContract!ContractSpec

-----------------------------------------------------------------------------
(* Network *)

\* Every behaviour of Network is, for each of the five, one of the component.
LEMMA ComponentsRun ==
    Init /\ [][Next]_vars =>
      /\ SelInit /\ [][SelNext]_sel
      /\ LevInit /\ [][LevNext]_lev
      /\ PortsInit /\ [][PortsNext]_spo
      /\ UskInit /\ [][UskNext]_usk
      /\ RendezvousInit /\ [][RendezvousNext]_ren
<1>1. Init => SelInit /\ LevInit /\ PortsInit /\ UskInit /\ RendezvousInit
  BY DEF Init
<1>2. [Next]_vars => [SelNext]_sel /\ [LevNext]_lev /\ [PortsNext]_spo
  BY DEF Next, vars
<1>3. [Next]_vars => [UskNext]_usk /\ [RendezvousNext]_ren
  BY DEF Next, vars
<1> QED BY <1>1, <1>2, <1>3, PTL

\* Both implementations of the platform's sockets keep SocketContract, and the network thread of
\* select_unix never resolves for a socket that is gone.
THEOREM SocketsAlwaysKeepContract == Spec => SocketsKeepContract
BY ComponentsRun, SelectKeepsContract, HeldAlwaysValid, LibeventKeepsContract, PTL
   DEF Spec, SocketsKeepContract

\* A port leads to one listener, and the count of segments is that of the segments the streams hold
\* (nc_stream_manager_ready_for_accept, nc_stream_manager_alloc_send_segment).
THEOREM PortsAlwaysHold == Spec => []PortsAndSegments
BY ComponentsRun, PortsAndSegmentsHold, PTL DEF Spec

\* What is written into a kernel address leads where the core meant, and what is read from one
\* leads back (nm_select_unix_udp_async_send_to, nm_select_unix_udp_recv_from).
THEOREM EndpointsLeadInNetwork == Spec => []EndpointsLead
BY ComponentsRun, EndpointsAlwaysLead, PTL DEF Spec

\* Rendezvous packets are sent once each.
THEOREM RendezvousAllSentInNetwork == Spec => []RendezvousAllSent
BY ComponentsRun, RendezvousSendsAll, PTL DEF Spec
=============================================================================
