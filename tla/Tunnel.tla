------------------------------- MODULE Tunnel -------------------------------
(*****************************************************************************)
(* The TCP tunnel module: the services of nm_tcp_tunnel, a tunnel connection *)
(* (nm_tcp_tunnel_connection) between a stream and a TCP socket, and the     *)
(* CoAP resources of nm_tcp_tunnel_coap. The completion of a socket          *)
(* operation is an event in the event queue: what the network thread has     *)
(* found out may wait there while another handler, or the application that   *)
(* removes the service, aborts the connection.                               *)
(*****************************************************************************)
EXTENDS Naturals

CONSTANT MaxServices \* services created, one after the other, all with one id

ASSUME ServicesAssumption == MaxServices \in Nat

VARIABLE tun

Completion == {"none", "pending", "ok", "eof", "err"}

(***************************************************************************)
(* struct nm_tcp_tunnels, nm_tcp_tunnel_service, nm_tcp_tunnel_connection.   *)
(*   service   the weak pointer of the service, 0 when there is none         *)
(*   counter   weakPtrCounter                                               *)
(*   auth      the weak pointer an authorization request is pending for, or 0 *)
(*   conn      "none", "alive", "freed", or "crashed" (stream is NULL)       *)
(*   of        the service of the connection                                *)
(*   listed    it is in the list of the service                             *)
(*   stream    connection->stream is set                                    *)
(*   connect, read, write     the three operations of the socket             *)
(*   length    readLength is not 0                                          *)
(*   sRead, sWrite, sClose    an operation of the stream is outstanding      *)
(*   aborted   np_tcp_abort was called                                      *)
(*   request   a CoAP request whose authorization is pending, and its answer *)
(* granted is history: the services that access was granted to.              *)
(***************************************************************************)
TunnelTypeOK ==
    tun \in [service: 0..MaxServices, counter: 0..MaxServices, auth: 0..MaxServices,
             conn: {"none", "alive", "freed", "crashed"}, of: 0..MaxServices,
             listed: BOOLEAN, stream: BOOLEAN, connect: Completion, read: Completion,
             write: Completion, length: BOOLEAN, sRead: BOOLEAN, sWrite: BOOLEAN,
             sClose: BOOLEAN, tcpReadEnded: BOOLEAN, streamReadEnded: BOOLEAN,
             aborted: BOOLEAN, request: {"none", "list", "get", "2.05", "4.03", "4.04"},
             granted: SUBSET (1..MaxServices)]

\* nm_tcp_tunnels_init.
TunnelInit ==
    tun = [service |-> 0, counter |-> 0, auth |-> 0, conn |-> "none", of |-> 0,
           listed |-> FALSE, stream |-> FALSE, connect |-> "none", read |-> "none",
           write |-> "none", length |-> FALSE, sRead |-> FALSE, sWrite |-> FALSE,
           sClose |-> FALSE, tcpReadEnded |-> FALSE, streamReadEnded |-> FALSE,
           aborted |-> FALSE, request |-> "none", granted |-> {}]

\* np_tcp_abort: what is outstanding completes with ABORTED; what has completed
\* stays in the event queue.
TcpAbort(t) ==
    LET Cut(c) == IF c = "pending" THEN "err" ELSE c IN
    [t EXCEPT !.aborted = TRUE, !.connect = Cut(@), !.read = Cut(@), !.write = Cut(@)]

\* abort_connection.
AbortConnection(t) == [TcpAbort(t) EXCEPT !.stream = FALSE]

\* nm_tcp_tunnel_connection_free: the events of the socket are destroyed, the
\* stream is released.
FreeConnection(t) ==
    [t EXCEPT !.conn = "freed", !.connect = "none", !.read = "none", !.write = "none",
              !.stream = FALSE]

\* the_end.
TheEnd(t) == FreeConnection([t EXCEPT !.listed = FALSE])

\* is_ended.
IsEnded(t) == IF t.tcpReadEnded /\ t.streamReadEnded THEN TheEnd(t) ELSE t

\* start_tcp_read, start_tcp_write: an aborted socket refuses.
StartTcpRead(t) == [t EXCEPT !.read = IF t.aborted THEN "err" ELSE "pending"]
StartTcpWrite(t) == [t EXCEPT !.write = IF t.aborted THEN "err" ELSE "pending"]

\* start_stream_read, start_stream_write: the stream must not be NULL.
StartStreamRead(t) == IF t.stream THEN [t EXCEPT !.sRead = TRUE] ELSE [t EXCEPT !.conn = "crashed"]
StartStreamWrite(t) == IF t.stream THEN [t EXCEPT !.sWrite = TRUE] ELSE [t EXCEPT !.conn = "crashed"]

\* close_stream.
CloseTunnelStream(t) ==
    IF t.stream THEN [t EXCEPT !.sClose = TRUE] ELSE IsEnded([t EXCEPT !.tcpReadEnded = TRUE])

\* stream_closed.
StreamClosed(t) == IsEnded([t EXCEPT !.sClose = FALSE, !.tcpReadEnded = TRUE])

\* stream_written.
StreamWritten(t, ok) ==
    LET w == [t EXCEPT !.sWrite = FALSE] IN
    IF ok THEN StartTcpRead(w) ELSE IsEnded(AbortConnection([w EXCEPT !.tcpReadEnded = TRUE]))

\* close_tcp.
CloseTcp(t) == IsEnded([t EXCEPT !.streamReadEnded = TRUE])

\* stream_readen: no error comes with data, so that an error is an end of file.
StreamReaden(t, data) ==
    LET r == [t EXCEPT !.sRead = FALSE] IN IF data THEN StartTcpWrite(r) ELSE CloseTcp(r)

\* nm_tcp_tunnel_service_create, nm_tcp_tunnel_service_init.
ServiceInit ==
    /\ tun.service = 0 /\ tun.counter < MaxServices
    /\ tun' = [tun EXCEPT !.counter = @ + 1, !.service = tun.counter + 1]

\* nm_tcp_tunnel_service_destroy_by_id, nm_tcp_tunnel_service_deinit,
\* nm_tcp_tunnel_connection_stop_from_manager.
ServiceDestroy ==
    /\ tun.service # 0
    /\ LET t == [tun EXCEPT !.service = 0] IN
       tun' = IF tun.listed /\ tun.of = tun.service
              THEN AbortConnection([t EXCEPT !.listed = FALSE]) ELSE t

\* nm_tcp_tunnel_service_stream_listener_callback: access is asked for.
StreamArrives ==
    /\ tun.service # 0 /\ tun.auth = 0 /\ tun.conn = "none"
    /\ tun' = [tun EXCEPT !.auth = tun.service]

\* Mutant of FindByWeakPtr: any service with the id will do.
FindById(t, weakPtr) == t.service # 0

\* nm_tcp_tunnels_find_service_by_weak_ptr.
FindByWeakPtr(t, weakPtr) == t.service = weakPtr

\* nm_tcp_tunnel_connection_new, _init and _start: the socket connects.
StartConnection(t) ==
    [t EXCEPT !.conn = "alive", !.of = t.service, !.listed = TRUE, !.stream = TRUE,
              !.connect = "pending"]

\* service_stream_iam_callback.
StreamIam(allow) ==
    /\ tun.auth # 0
    /\ LET t == [tun EXCEPT !.auth = 0, !.granted = IF allow THEN @ \cup {tun.auth} ELSE @] IN
       tun' = IF FindByWeakPtr(t, tun.auth) /\ allow THEN StartConnection(t) ELSE t

Alive == tun.conn = "alive"

\* The network thread completes an operation of the socket.
Complete ==
    /\ Alive
    /\ \/ \E ec \in {"ok", "err"} :
            tun.connect = "pending" /\ tun' = [tun EXCEPT !.connect = ec]
       \/ \E ec \in {"ok", "eof", "err"} :
            tun.read = "pending" /\ tun' = [tun EXCEPT !.read = ec, !.length = @ \/ ec = "ok"]
       \/ \E ec \in {"ok", "err"} :
            tun.write = "pending" /\ tun' = [tun EXCEPT !.write = ec]

\* connect_callback, connected.
ConnectCallback ==
    /\ Alive /\ tun.connect \in {"ok", "err"}
    /\ tun' = IF tun.connect = "err" THEN TheEnd(tun)
              ELSE StartStreamRead(StartTcpRead([tun EXCEPT !.connect = "none"]))

\* tcp_readen: an error of the first read counts as end of file, for readLength
\* is 0; after an error is_ended is not called.
TcpReaden ==
    /\ Alive /\ tun.read \in {"ok", "eof", "err"}
    /\ LET t == [tun EXCEPT !.read = "none"] IN
       tun' = IF ~tun.length \/ tun.read = "eof" THEN CloseTunnelStream(t)
              ELSE IF tun.read = "err" THEN AbortConnection([t EXCEPT !.tcpReadEnded = TRUE])
              ELSE StartStreamWrite(t)

\* tcp_written.
TcpWritten ==
    /\ Alive /\ tun.write \in {"ok", "err"}
    /\ LET t == [tun EXCEPT !.write = "none"] IN
       tun' = IF tun.write = "ok" THEN StartStreamRead(t)
              ELSE IsEnded(AbortConnection([t EXCEPT !.streamReadEnded = TRUE]))

\* The stream completes an operation: data, or the end of the stream.
StreamCompletes ==
    /\ Alive /\ tun.stream
    /\ \/ \E data \in BOOLEAN : tun.sRead /\ tun' = StreamReaden(tun, data)
       \/ \E ok \in BOOLEAN : tun.sWrite /\ tun' = StreamWritten(tun, ok)
       \/ tun.sClose /\ tun' = StreamClosed(tun)

\* nc_stream_destroy of the stream that was aborted: what is outstanding
\* completes with ABORTED, reads first, then writes, then the close.
StreamDestroyed ==
    /\ ~tun.stream /\ (tun.sRead \/ tun.sWrite \/ tun.sClose)
    /\ LET r == IF tun.sRead THEN StreamReaden(tun, FALSE) ELSE tun
           w == IF r.sWrite THEN StreamWritten(r, FALSE) ELSE r
       IN  tun' = IF w.sClose THEN StreamClosed(w) ELSE w

\* list_services.
ListServices ==
    /\ tun.request = "none"
    /\ tun' = [tun EXCEPT !.request = "list"]

\* get_service, get_connect: get_service_action.
GetService ==
    /\ tun.request = "none"
    /\ tun' = [tun EXCEPT !.request = IF tun.service = 0 THEN "4.04" ELSE "get"]

\* list_services_iam, encode_services_list.
ListServicesIam(allow) ==
    /\ tun.request = "list"
    /\ tun' = [tun EXCEPT !.request = IF allow THEN "2.05" ELSE "4.03"]

\* get_service_iam, encode_service: the service is looked up again.
GetServiceIam(allow) ==
    /\ tun.request = "get"
    /\ tun' = [tun EXCEPT !.request =
                IF ~allow THEN "4.03" ELSE IF tun.service = 0 THEN "4.04" ELSE "2.05"]

TunnelNext ==
    \/ ServiceInit \/ ServiceDestroy \/ StreamArrives
    \/ \E allow \in BOOLEAN : StreamIam(allow) \/ ListServicesIam(allow) \/ GetServiceIam(allow)
    \/ Complete \/ ConnectCallback \/ TcpReaden \/ TcpWritten \/ StreamCompletes \/ StreamDestroyed
    \/ ListServices \/ GetService

\* No callback of the stream is outstanding when the connection is freed, for the
\* callbacks hold a pointer to it: the two flags tcpReadEnded and streamReadEnded are set
\* only when their half of the connection is at rest. And a connection belongs to the very
\* service that access was granted to, not to one of the same id that replaced it while the
\* request was pending.
TunnelSafe ==
    /\ TunnelTypeOK
    /\ tun.conn = "freed" => ~tun.sRead /\ ~tun.sWrite /\ ~tun.sClose
    /\ tun.of # 0 => tun.of \in tun.granted
=============================================================================
