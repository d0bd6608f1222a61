----------------------------- MODULE UdpSockets -----------------------------
(*****************************************************************************************)
(* Addresses on the UDP sockets of modules/select_unix and modules/libevent: the kind of *)
(* socket that is opened, and the conversions between IPv4 and IPv4-mapped IPv6          *)
(* addresses (platform/np_ip_address.c) when a datagram is sent and received.            *)
(*                                                                                       *)
(* An address in the program is [type, prefix, host]: prefix stands for the first 12     *)
(* bytes of an IPv6 address, host for the rest. On the wire a datagram goes to or comes  *)
(* from <<4, host>> or <<6, prefix, host>>.                                              *)
(*                                                                                       *)
(* The record usk:                                                                       *)
(*   impl    "select" or "libevent"                                                      *)
(*   type    NABTO_IPV4, NABTO_IPV6, 0 before the socket is open, or -1 after an error   *)
(*   known   endpoints the program has, each with the host it stands for                 *)
(*   receives   nc_udp_dispatch waits for a datagram                                     *)
(*   sent    the code of the last send and where the datagram went                       *)
(*****************************************************************************************)
EXTENDS Integers, FiniteSets

CONSTANT HostBytes

VARIABLE usk

AddressPrefixes == {"global", "link", "mapped"}

Wire == ({4} \X HostBytes) \cup ({6} \X {"global", "link"} \X HostBytes)

V4(h) == [type |-> 4, prefix |-> "", host |-> h]
V6(p, h) == [type |-> 6, prefix |-> p, host |-> h]

Addresses == {V4(h) : h \in HostBytes} \cup {V6(p, h) : p \in AddressPrefixes, h \in HostBytes}

UskTypeOK ==
    /\ usk.type \in {-1, 0, 4, 6} /\ usk.known \subseteq Addresses \X Wire
    /\ usk.sent.ec \in {"none", "OK", "FAILED_TO_SEND_PACKET"} /\ usk.sent.to \subseteq Wire

UskInit ==
    \E impl \in {"select", "libevent"} :
      usk = [impl |-> impl, type |-> 0, known |-> {}, receives |-> FALSE,
             sent |-> [ec |-> "none", to |-> {}]]

(***************************************************************************)
(* platform/np_ip_address.c                                                *)
(***************************************************************************)
\* np_ip_is_v4_mapped.
IsV4Mapped(ip) == ip.type = 6 /\ ip.prefix = "mapped"

\* np_ip_convert_v4_to_v4_mapped.
ConvertV4ToV4Mapped(ip) == V6("mapped", ip.host)

\* Mutant of ConvertV4MappedToV4: the first bytes of the address are taken.
ConvertV4MappedToV4Head(ip) == V4(ip.prefix)

\* np_ip_convert_v4_mapped_to_v4.
ConvertV4MappedToV4(ip) == V4(ip.host)

(***************************************************************************)
(* The sockets.                                                            *)
(***************************************************************************)
\* The type create_socket_any of select_unix and udp_create_socket_any of libevent leave in the
\* socket, when the system opens sockets of the families fs and v6only says that IPV6_V6ONLY
\* cannot be switched off. Both look at the old descriptor, not at the new one, after the second
\* try: it is -1 in a socket of select_unix, which then fails, and 0 in one of libevent.
CreateSocketAny(fs, v6only) ==
    IF 6 \in fs THEN (IF v6only THEN -1 ELSE 6) ELSE -1

LevCreateSocketAny(fs, v6only) ==
    IF 6 \in fs THEN (IF v6only THEN -1 ELSE 6) ELSE 4

\* The address udp_send_to gives to sendto(), or none.
SendIp(type, ip) ==
    IF type = ip.type THEN {ip}
    ELSE IF type = 6 /\ ip.type = 4 THEN {ConvertV4ToV4Mapped(ip)}
    ELSE IF type = 4 /\ IsV4Mapped(ip) THEN {ConvertV4MappedToV4(ip)}
    ELSE {}

\* sendto() and recvfrom() of the system: where a datagram goes, and the address a datagram has.
\* sin6_scope_id is 0, so a link-local destination has no interface.
KernelTo(ip) == IF ip.type = 4 \/ IsV4Mapped(ip) THEN <<4, ip.host>> ELSE <<6, ip.prefix, ip.host>>

KernelFrom(type, w) ==
    IF type = 4 THEN V4(w[2]) ELSE IF w[1] = 4 THEN V6("mapped", w[2]) ELSE V6(w[2], w[3])

\* udp_send_to: the code and where the datagram went. A full buffer drops the datagram and is no
\* error, other errors are. The status of sendto() is "sent", "again", or an error, expected or not.
Result(ec, to) == [ec |-> ec, to |-> to]

UdpSendTo(type, ip, status) ==
    IF SendIp(type, ip) = {} THEN Result("FAILED_TO_SEND_PACKET", {})
    ELSE IF status = "sent" THEN Result("OK", {KernelTo(a) : a \in SendIp(type, ip)})
    ELSE Result(IF status = "again" THEN "OK" ELSE "FAILED_TO_SEND_PACKET", {})

LevUdpSendTo(type, ip, status) ==
    CASE SendIp(type, ip) = {} \/ status \in {"expected", "error"} -> Result("FAILED_TO_SEND_PACKET", {})
      [] OTHER -> Result("OK", IF status = "again" THEN {} ELSE {KernelTo(a) : a \in SendIp(type, ip)})

\* udp_recv_from: the code, given the status of recvfrom(). libevent's takes more errors for
\* ones after which the socket goes on.
UdpRecvFromEc(status) ==
    CASE status = "sent" -> "OK" [] status = "again" -> "AGAIN" [] OTHER -> "UDP_SOCKET_ERROR"

LevUdpRecvFromEc(status) ==
    CASE status = "sent" -> "OK" [] status \in {"again", "expected"} -> "AGAIN" [] OTHER -> "UDP_SOCKET_ERROR"

Statuses == {"sent", "again", "expected", "error"}

\* async_bind_port_ec, bind_port and start_recv of nc_udp_dispatch.
UskBind(fs, v6only) ==
    /\ usk.type = 0
    /\ LET t == IF usk.impl = "select" THEN CreateSocketAny(fs, v6only) ELSE LevCreateSocketAny(fs, v6only) IN
       usk' = [usk EXCEPT !.type = t, !.receives = t > 0]

\* nc_udp_dispatch_recv_callback with udp_recv_from: a host sends; the program keeps the endpoint
\* to answer to. The loop ends on an error.
UskReceive(w, status) ==
    /\ usk.receives /\ (usk.type = 4 => w[1] = 4)
    /\ LET ec == IF usk.impl = "select" THEN UdpRecvFromEc(status) ELSE LevUdpRecvFromEc(status) IN
       usk' = [usk EXCEPT !.receives = ec \in {"OK", "AGAIN"},
                 !.known = IF ec = "OK" THEN @ \cup {<<KernelFrom(usk.type, w), w>>} ELSE @]

\* An endpoint from a rendezvous, a STUN answer or the DNS, in any form that stands for a host.
UskLearn(w, ip) ==
    /\ KernelTo(ip) = w
    /\ usk' = [usk EXCEPT !.known = @ \cup {<<ip, w>>}]

\* udp_async_send_to_ec.
UskSend(k, status) ==
    /\ usk.type > 0 /\ k \in usk.known
    /\ usk' = [usk EXCEPT !.sent = IF usk.impl = "select" THEN UdpSendTo(usk.type, k[1], status)
                                   ELSE LevUdpSendTo(usk.type, k[1], status)]

UskNext ==
    \/ \E fs \in {{4}, {6}, {4, 6}}, v6only \in BOOLEAN : UskBind(fs, v6only)
    \/ \E w \in Wire, status \in Statuses : UskReceive(w, status)
    \/ \E w \in Wire, ip \in Addresses : UskLearn(w, ip)
    \/ \E k \in usk.known, status \in Statuses : UskSend(k, status)

\* An endpoint leads back to the host it was learnt from, whatever form its address has and
\* whichever kind of socket was opened: udp_send_to either sends to that host or, for an IPv6
\* host on an IPv4 socket, refuses; so an answer to a received datagram reaches its sender.
EndpointsLead ==
    /\ UskTypeOK
    /\ usk.type > 0 =>
      \A k \in usk.known :
        LET to == SendIp(usk.type, k[1]) IN
        IF to = {} THEN usk.type = 4 /\ k[2][1] = 6 ELSE \A a \in to : KernelTo(a) = k[2]
=============================================================================
