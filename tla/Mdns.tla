-------------------------------- MODULE Mdns --------------------------------
(****************************************************************************************)
(* The mDNS responder: nm_mdns_server.c, with the sockets that                          *)
(* nm_select_unix_mdns_udp_bind.c binds to port 5353. For each family a chain of        *)
(* operations, each started by the callback of the one before: bind, send, and then     *)
(* receive, or receive and send. libnabto_mdns, which reads queries and builds answers, *)
(* is external.                                                                         *)
(*                                                                                      *)
(* The record mdn:                                                                      *)
(*   running, stopped   of struct nm_mdns_server; port: published, 0 if there is none   *)
(*   ops[f]  the operations of family f that are outstanding, done[f]: v4Done, v6Done   *)
(*   ec[f]   the code of each completion event that is posted, or "none"                *)
(*   sock[f] "made", "open" or "closed"; gone: aborted                                  *)
(*   data[f] what has arrived on the socket: nothing, a "query" or another packet       *)
(*   clash   a send buffer was written during a send (history)                          *)
(****************************************************************************************)
EXTENDS Integers, FiniteSets

VARIABLE mdn

MdnsFamilies == {"v4", "v6"}
MdnsOps == {"bind", "send", "recv"}

MdnsTypeOK ==
    /\ mdn.ops \in [MdnsFamilies -> SUBSET MdnsOps] /\ mdn.done \in [MdnsFamilies -> BOOLEAN]
    /\ \A f \in MdnsFamilies : mdn.ec[f] \in [MdnsOps -> {"none", "OK", "ERROR", "ABORTED"}]
    /\ mdn.sock \in [MdnsFamilies -> {"made", "open", "closed"}]
    /\ mdn.data \in [MdnsFamilies -> {"none", "query", "other"}]

\* nm_mdns_server_init.
MdnsInit ==
    mdn = [running |-> FALSE, stopped |-> FALSE, port |-> 0, gone |-> FALSE, clash |-> FALSE,
           ops |-> [f \in MdnsFamilies |-> {}], done |-> [f \in MdnsFamilies |-> FALSE],
           ec |-> [f \in MdnsFamilies |-> [o \in MdnsOps |-> "none"]],
           sock |-> [f \in MdnsFamilies |-> "made"], data |-> [f \in MdnsFamilies |-> "none"]]

\* np_completion_event_resolve, and the start of an operation that waits.
MdnsResolve(s, f, o, ec) == [s EXCEPT !.ops[f] = @ \cup {o}, !.ec[f][o] = ec]

\* create_socket_ipv4, create_socket_ipv6: the descriptor, or none. fails names the call of the bind that fails.
CreateSocketIpv4(s, fails) == IF fails = "socket" THEN s ELSE [s EXCEPT !.sock["v4"] = "open"]
CreateSocketIpv6(s, fails) == IF fails = "socket" THEN s ELSE [s EXCEPT !.sock["v6"] = "open"]

\* init_mdns_ipv4_socket, init_mdns_ipv6_socket: the address is shared and bound to; that a group could not be
\* joined is not an error.
InitMdnsIpv4Socket(fails) == fails \notin {"reuse", "bind"}
InitMdnsIpv6Socket(fails) == fails \notin {"reuse", "bind"}

\* nm_select_unix_async_bind_mdns_ipv4: refused after an abort.
BindMdnsIpv4(s, fails) ==
    LET t == CreateSocketIpv4(s, fails) IN
    IF s.gone THEN MdnsResolve(s, "v4", "bind", "ABORTED")
    ELSE IF t = s THEN MdnsResolve(s, "v4", "bind", "ERROR")
    ELSE IF ~InitMdnsIpv4Socket(fails) THEN MdnsResolve([t EXCEPT !.sock["v4"] = "closed"], "v4", "bind", "ERROR")
    ELSE MdnsResolve(t, "v4", "bind", "OK")

\* nm_select_unix_async_bind_mdns_ipv6.
BindMdnsIpv6(s, fails) ==
    LET t == CreateSocketIpv6(s, fails) IN
    IF s.gone THEN MdnsResolve(s, "v6", "bind", "ABORTED")
    ELSE IF t = s THEN MdnsResolve(s, "v6", "bind", "ERROR")
    ELSE IF ~InitMdnsIpv6Socket(fails) THEN MdnsResolve([t EXCEPT !.sock["v6"] = "closed"], "v6", "bind", "ERROR")
    ELSE MdnsResolve(t, "v6", "bind", "OK")

\* publish_service: once.
PublishService(port, fails4, fails6) ==
    /\ mdn' = IF mdn.running THEN mdn
              ELSE BindMdnsIpv6(BindMdnsIpv4([mdn EXCEPT !.running = TRUE, !.port = port], fails4), fails6)

\* nm_mdns_recv_packet_v4, nm_mdns_recv_packet_v6: np_udp_async_recv_wait.
RecvPacket(s, f) ==
    IF s.gone THEN MdnsResolve(s, f, "recv", "ABORTED") ELSE [s EXCEPT !.ops[f] = @ \cup {"recv"}]

\* nm_mdns_send_packet_v4: a packet is built into sendBufferV4 and sent, if there is a port.
SendPacketV4(s, built) ==
    IF s.port > 0 /\ built
    THEN [s EXCEPT !.ops["v4"] = @ \cup {"send"}, !.clash = @ \/ "send" \in s.ops["v4"]]
    ELSE RecvPacket(s, "v4")

\* nm_mdns_send_packet_v6.
SendPacketV6(s, built) ==
    IF s.port > 0 /\ built
    THEN [s EXCEPT !.ops["v6"] = @ \cup {"send"}, !.clash = @ \/ "send" \in s.ops["v6"]]
    ELSE RecvPacket(s, "v6")

\* The sockets complete what is outstanding (np_udp): a datagram has been sent or not, and one may
\* have arrived.
MdnsSent(f, ec) ==
    /\ "send" \in mdn.ops[f] /\ mdn.ec[f]["send"] = "none"
    /\ mdn' = [mdn EXCEPT !.ec[f]["send"] = IF mdn.gone THEN "ABORTED" ELSE ec]

MdnsReadable(f) ==
    /\ "recv" \in mdn.ops[f] /\ mdn.ec[f]["recv"] = "none" /\ mdn.data[f] # "none" /\ mdn.sock[f] = "open"
    /\ mdn' = [mdn EXCEPT !.ec[f]["recv"] = "OK"]

MdnsArrives(f, p) ==
    /\ mdn.sock[f] = "open" /\ mdn.data[f] = "none" /\ ~mdn.gone
    /\ mdn' = [mdn EXCEPT !.data[f] = p]

\* A callback runs: its operation is over.
MdnsCalled(f, o) == [mdn EXCEPT !.ops[f] = @ \ {o}, !.ec[f][o] = "none"]
MdnsPosted(f, o) == mdn.ec[f][o] # "none"

\* nm_mdns_socket_opened_v4.
SocketOpenedV4(built) ==
    /\ MdnsPosted("v4", "bind")
    /\ LET s == MdnsCalled("v4", "bind") IN
       mdn' = IF s.stopped \/ mdn.ec["v4"]["bind"] # "OK" THEN [s EXCEPT !.done["v4"] = TRUE]
              ELSE SendPacketV4(s, built)

\* nm_mdns_socket_opened_v6.
SocketOpenedV6(built) ==
    /\ MdnsPosted("v6", "bind")
    /\ LET s == MdnsCalled("v6", "bind") IN
       mdn' = IF s.stopped \/ mdn.ec["v6"]["bind"] # "OK" THEN [s EXCEPT !.done["v6"] = TRUE]
              ELSE SendPacketV6(s, built)

\* nm_mdns_packet_recv_wait_completed_v4: a query is answered, and the answer's callback receives on.
\* NABTO_EC_AGAIN ends the chain as an error does.
RecvWaitCompletedV4(read, built) ==
    /\ MdnsPosted("v4", "recv")
    /\ LET s == MdnsCalled("v4", "recv") t == [s EXCEPT !.data["v4"] = "none"] IN
       mdn' = IF mdn.ec["v4"]["recv"] # "OK" \/ read # "OK" THEN [s EXCEPT !.done["v4"] = TRUE]
              ELSE IF mdn.data["v4"] = "query" THEN SendPacketV4(t, built)
              ELSE RecvPacket(t, "v4")

\* nm_mdns_packet_recv_wait_completed_v6: NABTO_EC_AGAIN receives on.
RecvWaitCompletedV6(read, built) ==
    /\ MdnsPosted("v6", "recv")
    /\ LET s == MdnsCalled("v6", "recv") t == [s EXCEPT !.data["v6"] = "none"] IN
       mdn' = IF mdn.ec["v6"]["recv"] # "OK" \/ read = "ERROR" THEN [s EXCEPT !.done["v6"] = TRUE]
              ELSE IF read = "OK" /\ mdn.data["v6"] = "query" THEN SendPacketV6(t, built)
              ELSE RecvPacket(IF read = "OK" THEN t ELSE s, "v6")

\* nm_mdns_packet_sent_v4.
PacketSentV4 ==
    /\ MdnsPosted("v4", "send")
    /\ LET s == MdnsCalled("v4", "send") IN
       mdn' = IF s.stopped THEN [s EXCEPT !.done["v4"] = TRUE] ELSE RecvPacket(s, "v4")

\* nm_mdns_packet_sent_v6.
PacketSentV6 ==
    /\ MdnsPosted("v6", "send")
    /\ LET s == MdnsCalled("v6", "send") IN
       mdn' = IF s.stopped THEN [s EXCEPT !.done["v6"] = TRUE] ELSE RecvPacket(s, "v6")

\* Mutant of MdnsServerStop: the IPv6 socket is forgotten.
MdnsServerStopOne ==
    /\ ~mdn.stopped
    /\ mdn' = [mdn EXCEPT !.stopped = TRUE, !.gone = TRUE,
                 !.ec["v4"]["recv"] = IF "recv" \in mdn.ops["v4"] /\ @ = "none" THEN "ABORTED" ELSE @]

\* nm_mdns_server_stop: both sockets are aborted, which ends a receive (np_udp_abort).
MdnsServerStop ==
    /\ ~mdn.stopped
    /\ mdn' = [mdn EXCEPT !.stopped = TRUE, !.gone = TRUE,
                 !.ec = [f \in MdnsFamilies |->
                           IF "recv" \in mdn.ops[f] /\ @[f]["recv"] = "none" THEN [@[f] EXCEPT !["recv"] = "ABORTED"]
                           ELSE @[f]]]

MdnsCallbacks ==
    \/ \E b \in BOOLEAN : SocketOpenedV4(b) \/ SocketOpenedV6(b)
    \/ \E r \in {"OK", "AGAIN", "ERROR"}, b \in BOOLEAN : RecvWaitCompletedV4(r, b) \/ RecvWaitCompletedV6(r, b)
    \/ PacketSentV4 \/ PacketSentV6

MdnsSockets == \E f \in MdnsFamilies : (\E ec \in {"OK", "ERROR"} : MdnsSent(f, ec)) \/ MdnsReadable(f)

MdnsNext ==
    \/ MdnsCallbacks \/ MdnsSockets \/ MdnsServerStop
    \/ \E port \in {0, 1}, f4, f6 \in {"socket", "reuse", "bind", "group", "none"} : PublishService(port, f4, f6)
    \/ \E f \in MdnsFamilies, p \in {"query", "other"} : MdnsArrives(f, p)

\* "dont start receiving until send callback returns to ensure send buffer is not overwritten":
\* once the service is published each family has exactly one operation under way, whatever
\* fails, or is done; so no chain of callbacks is broken or doubled, and no buffer is written
\* during a send.
MdnsOneOperation ==
    /\ MdnsTypeOK /\ ~mdn.clash
    /\ mdn.running => \A f \in MdnsFamilies : Cardinality(mdn.ops[f]) = IF mdn.done[f] THEN 0 ELSE 1

\* A responder that is stopped comes to rest: both families are done, wherever their chains were
\* when nm_mdns_server_stop aborted the sockets; until then no chain breaks (MdnsOneOperation).
MdnsStops == []MdnsOneOperation /\ ((mdn.running /\ mdn.stopped) ~> (mdn.done["v4"] /\ mdn.done["v6"]))
=============================================================================
