----------------------------- MODULE CoapServer -----------------------------
(***************************************************************************)
(* The CoAP server of the device: nc_coap_server, which moves datagrams    *)
(* between the library nabto_coap_server and the DTLS connections of the   *)
(* clients, and nabto_device_coap, which hands requests to the application *)
(* through a listener. There is one send context for all connections.      *)
(***************************************************************************)
EXTENDS Naturals, Sequences

CONSTANTS
    Peers,          \* client connections
    Requests,       \* requests the library has room for
    MaxTransmits    \* transmissions of one response

ASSUME TransmitsAssumption == MaxTransmits \in Nat \ {0}

VARIABLE srv

NoPeer == "none"

(***************************************************************************)
(* struct nc_coap_server_context, the listener and the library.              *)
(*   peer      the DTLS connection of a client                              *)
(*   req       a request of the library: its connection (none once that is   *)
(*             removed), how far it is, how often its response was sent, and *)
(*             who holds a reference to it: the application, or nobody who   *)
(*             will ever free it                                            *)
(*   queue     the requests in the queue of the listener                     *)
(*   future    a future of the application waits for a request              *)
(*   sendOf    the connection whose sendList holds the send context          *)
(*   ev, timer the events of the server are in the event queue              *)
(***************************************************************************)
CoapServerTypeOK ==
    /\ srv.peer \in [Peers -> {"none", "open", "closing"}]
    /\ srv.req \in [Requests -> [of: Peers \cup {NoPeer},
                                 st: {"none", "listed", "user", "ready", "sent", "done"},
                                 times: 0..MaxTransmits, held: {"nobody", "app", "lost"}]]
    /\ srv.queue \in Seq(Requests) /\ srv.listener \in {"open", "stopped"}
    /\ {srv.future, srv.isSending, srv.ev, srv.timer} \subseteq BOOLEAN
    /\ srv.sendOf \in Peers \cup {NoPeer}

FreeRequest == [of |-> NoPeer, st |-> "none", times |-> 0, held |-> "nobody"]

\* nc_coap_server_init, nabto_device_coap_init_listener.
CoapServerInit ==
    srv = [peer |-> [p \in Peers |-> "none"], req |-> [r \in Requests |-> FreeRequest],
           queue |-> << >>, listener |-> "open", future |-> FALSE, isSending |-> FALSE,
           sendOf |-> NoPeer, ev |-> FALSE, timer |-> FALSE]

Step(s, F(_)) == CHOOSE t \in {F(u) : u \in {s}} : TRUE

\* The library forgets a request that is done and that nobody holds.
Reaped(s) ==
    [s EXCEPT !.req = [r \in Requests |->
        IF s.req[r].st = "done" /\ s.req[r].held = "nobody" THEN FreeRequest ELSE s.req[r]]]

In(s, st) == {r \in Requests : s.req[r].st = st}

\* nm_mbedtls_srv_async_send_data: refused once the connection is closing; the
\* caller does not look at the result.
CoapSendData(s, p) == IF s.peer[p] = "open" THEN [s EXCEPT !.sendOf = p] ELSE s

\* nc_coap_server_handle_send: the library makes a datagram of a response.
HandleSend(s) ==
    IF s.isSending THEN s
    ELSE LET r == CHOOSE r \in In(s, "ready") : TRUE IN
         CoapSendData([s EXCEPT !.isSending = TRUE, !.req[r].st = "sent", !.req[r].times = @ + 1],
                      s.req[r].of)

\* nc_coap_server_handle_wait.
HandleWaitTimer(s) == [s EXCEPT !.timer = TRUE]

\* nc_coap_server_event.
ServerEvent(s) ==
    IF In(s, "ready") # {} THEN HandleSend(s)
    ELSE IF In(s, "sent") # {} THEN HandleWaitTimer(s) ELSE s

\* nc_coap_server_notify_event: the library has something to do.
Notify(s) == [s EXCEPT !.ev = TRUE]

\* nabto_coap_server_response_ready, nabto_coap_server_send_error_response: an
\* error when the connection is gone.
Respond(s, r) ==
    IF s.req[r].of = NoPeer THEN [s EXCEPT !.req[r].st = "done"]
    ELSE Notify([s EXCEPT !.req[r].st = "ready"])

\* nabto_device_coap_listener_callback with NABTO_EC_OK, as
\* nabto_device_listener_try_resolve calls it.
ListenerCallback(s) ==
    IF ~s.future \/ s.queue = << >> THEN s
    ELSE [s EXCEPT !.future = FALSE, !.queue = Tail(@), !.req[Head(s.queue)].st = "user"]

\* nabto_device_coap_resource_handler. The resource of a stopped listener is
\* removed, and the library answers that there is none.
ResourceHandler(s, r) ==
    IF s.listener = "open" THEN ListenerCallback([s EXCEPT !.queue = Append(@, r)])
    ELSE Respond([s EXCEPT !.req[r].held = "nobody"], r)

\* nc_coap_server_handle_packet: a new request, or the acknowledgement of a
\* response.
RequestArrives(p) ==
    /\ srv.peer[p] = "open" /\ In(srv, "none") # {}
    /\ LET r == CHOOSE r \in In(srv, "none") : TRUE
           s == [srv EXCEPT !.req[r] = [of |-> p, st |-> "listed", times |-> 0, held |-> "app"]]
       IN  srv' = ServerEvent(ResourceHandler(s, r))

AckArrives(p) ==
    /\ srv.peer[p] = "open"
    /\ \E r \in In(srv, "sent") :
         srv.req[r].of = p /\ srv' = Step(Reaped([srv EXCEPT !.req[r].st = "done"]), ServerEvent)

\* nabto_device_listener_new_coap_request.
NewCoapRequest ==
    /\ srv.listener = "open" /\ ~srv.future
    /\ srv' = ListenerCallback([srv EXCEPT !.future = TRUE])

\* nabto_device_coap_response_ready or nabto_device_coap_error_response.
ResponseReady(r) ==
    /\ srv.req[r].st = "user"
    /\ srv' = Respond(srv, r)

\* nabto_device_coap_request_free: without a response, an error is sent.
RequestFree(r) ==
    /\ srv.req[r].st \in {"user", "ready", "sent", "done"} /\ srv.req[r].held = "app"
    /\ LET s == [srv EXCEPT !.req[r].held = "nobody"] IN
       srv' = Reaped(IF srv.req[r].st = "user" THEN Respond(s, r) ELSE s)

\* nabto_device_listener_stop: nabto_device_coap_listener_callback with an error
\* answers the requests in the queue and frees its own part of them, but not the
\* library's; then it removes the resource.
StopCoapListener ==
    /\ srv.listener = "open"
    /\ LET queued == {srv.queue[i] : i \in 1..Len(srv.queue)}
           s == [srv EXCEPT !.listener = "stopped", !.future = FALSE, !.queue = << >>]
           live == {r \in queued : srv.req[r].of # NoPeer}
       IN  srv' = [s EXCEPT !.ev = @ \/ live # {},
                            !.req = [r \in Requests |->
                                CASE r \in live -> [s.req[r] EXCEPT !.st = "ready", !.held = "lost"]
                                  [] r \in queued \ live -> [s.req[r] EXCEPT !.st = "done", !.held = "lost"]
                                  [] OTHER -> s.req[r]]]

\* Mutant of SendToCallback: the next response is left to the timer.
SendToCallbackIdle(s) == [s EXCEPT !.isSending = FALSE, !.sendOf = NoPeer]

\* nc_coap_server_send_to_callback.
SendToCallback(s) == ServerEvent([s EXCEPT !.isSending = FALSE, !.sendOf = NoPeer])

\* The DTLS server has written the datagram.
DatagramSent ==
    /\ srv.sendOf # NoPeer
    /\ srv' = Step(srv, SendToCallback)

\* nc_coap_server_notify_event_callback.
NotifyEventCallback ==
    /\ srv.ev
    /\ srv' = Step([srv EXCEPT !.ev = FALSE], ServerEvent)

\* nc_coap_server_handle_timeout: what was not acknowledged is sent again, or
\* given up.
CoapServerTimeout ==
    /\ srv.timer
    /\ LET s == [srv EXCEPT !.timer = FALSE, !.req = [r \in Requests |->
                    IF srv.req[r].st # "sent" THEN srv.req[r]
                    ELSE [srv.req[r] EXCEPT !.st =
                            IF srv.req[r].times < MaxTransmits THEN "ready" ELSE "done"]]]
       IN  srv' = Step(Reaped(s), ServerEvent)

\* A client connects; its connection starts to close; and it is destroyed.
PeerOpens(p) == srv.peer[p] = "none" /\ srv' = [srv EXCEPT !.peer[p] = "open"]
PeerCloses(p) == srv.peer[p] = "open" /\ srv' = [srv EXCEPT !.peer[p] = "closing"]

\* nc_coap_server_remove_connection, then nm_mbedtls_srv_destroy_connection, which
\* calls back for what is in its sendList.
PeerDestroyed(p) ==
    /\ srv.peer[p] = "closing"
    /\ LET s == [srv EXCEPT !.peer[p] = "none", !.req = [r \in Requests |->
                    IF srv.req[r].of # p THEN srv.req[r]
                    ELSE [srv.req[r] EXCEPT !.of = NoPeer,
                            !.st = IF srv.req[r].st \in {"ready", "sent"} THEN "done" ELSE srv.req[r].st]]]
       IN  srv' = IF srv.sendOf = p THEN Step(Reaped(s), SendToCallback) ELSE Reaped(s)

CoapServerNext ==
    \/ \E p \in Peers : \/ RequestArrives(p) \/ AckArrives(p)
                        \/ PeerOpens(p) \/ PeerCloses(p) \/ PeerDestroyed(p)
    \/ \E r \in Requests : ResponseReady(r) \/ RequestFree(r)
    \/ NewCoapRequest \/ StopCoapListener
    \/ DatagramSent \/ NotifyEventCallback \/ CoapServerTimeout

\* A response that is ready is on somebody's mind: the server is waiting for a
\* send to complete, or its event is posted. The notification of the library, the
\* one send context and the callback of the DTLS server together lose nothing. Nor does
\* the listener: nobody waits for a request while one waits to be taken, and each
\* request in its queue is there once.
CoapWakeup ==
    /\ CoapServerTypeOK
    /\ In(srv, "ready") # {} => srv.isSending \/ srv.ev
    /\ srv.future => srv.queue = << >>
    /\ \A i, j \in 1..Len(srv.queue) : srv.queue[i] = srv.queue[j] => i = j
=============================================================================
