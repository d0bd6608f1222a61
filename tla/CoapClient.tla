----------------------------- MODULE CoapClient -----------------------------
(***************************************************************************)
(* The CoAP client of the device and the send list of the DTLS client      *)
(* connection to the basestation: nc_coap_client and the data phase of     *)
(* nm_mbedtls_cli. The events of both are in the one event queue, first in *)
(* first out; a UDP send posts its completion at once, as the select_unix  *)
(* and libevent sockets do.                                                *)
(***************************************************************************)
EXTENDS Naturals, Sequences, Functions

CONSTANT MaxTransmissions \* transmissions of one request

VARIABLE cli

Events == {"udpCb", "startSend", "notify"}

(***************************************************************************)
(* struct nc_coap_client_context, struct np_dtls_cli_context.                *)
(*   queue      the event queue                                             *)
(*   dtls       the state of the DTLS client                                *)
(*   sending    a datagram of it is being sent                              *)
(*   list       sendList: packets of the CoAP client and keep alive packets  *)
(*   request    the request of the attacher in the library                  *)
(*   times      how often it was transmitted                                *)
(* refused is history: a packet of the CoAP client was not taken, and the    *)
(* callback that the client waits for will not come.                        *)
(***************************************************************************)
CoapClientTypeOK ==
    cli \in [queue: UNION {[1..n -> Events] : n \in 0..3},
             dtls: {"none", "DATA", "CLOSING", "closed"}, sending: BOOLEAN,
             list: UNION {[1..n -> {"coap", "ka"}] : n \in 0..2},
             request: {"none", "new", "sent", "answered"}, times: 0..MaxTransmissions,
             isSending: BOOLEAN, timer: BOOLEAN, refused: BOOLEAN]

\* nc_coap_client_init, nm_mbedtls_cli_create.
CoapClientInit ==
    cli = [queue |-> << >>, dtls |-> "none", sending |-> FALSE, list |-> << >>,
           request |-> "none", times |-> 0, isSending |-> FALSE, timer |-> FALSE,
           refused |-> FALSE]

Seq1(c, F(_)) == CHOOSE t \in {F(u) : u \in {c}} : TRUE

\* np_event_queue_post_maybe_double.
PostOnce(c, e) == IF e \in Range(c.queue) THEN c ELSE [c EXCEPT !.queue = Append(@, e)]

\* nc_coap_client_notify_event.
NotifyEvent(c) == PostOnce(c, "notify")

\* nm_dtls_mbedtls_send: one datagram at a time.
MbedtlsSend(c) ==
    IF c.sending THEN c ELSE [c EXCEPT !.sending = TRUE, !.queue = Append(@, "udpCb")]

\* async_send_data of nm_mbedtls_cli.
ClientSendData(c, who) ==
    IF c.dtls = "CLOSING" THEN [c EXCEPT !.refused = @ \/ who = "coap"]
    ELSE PostOnce([c EXCEPT !.list = Append(@, who)], "startSend")

\* nc_coap_client_handle_send.
ClientHandleSend(c) ==
    IF c.isSending THEN c
    ELSE ClientSendData([c EXCEPT !.isSending = TRUE, !.request = "sent", !.times = @ + 1], "coap")

\* nc_coap_client_handle_wait.
ClientHandleWait(c) == [c EXCEPT !.timer = TRUE]

\* nc_coap_client_handle_callback: the event first, then the callback of the
\* request, which frees it.
ClientHandleCallback(c) == [NotifyEvent(c) EXCEPT !.request = "none", !.times = 0]

\* nc_coap_client_event.
ClientEvent(c) ==
    CASE c.request = "answered" -> ClientHandleCallback(c)
      [] c.request = "new" -> ClientHandleSend(c)
      [] c.request = "sent" -> ClientHandleWait(c)
      [] c.request = "none" -> c

\* nc_coap_client_send_to_callback.
ClientSendToCallback(c) == ClientEvent([c EXCEPT !.isSending = FALSE])

\* Mutant of StartSendDeferredCli: the next packet waits for the next send.
StartSendDeferredCliOnce(c) ==
    IF c.dtls = "CLOSING" \/ c.sending \/ c.list = << >> THEN c
    ELSE LET w == MbedtlsSend([c EXCEPT !.list = Tail(@)]) IN
         IF Head(c.list) = "coap" THEN Seq1(w, ClientSendToCallback) ELSE w

\* nm_mbedtls_cli_start_send_deferred.
StartSendDeferredCli(c) ==
    IF c.dtls = "CLOSING" \/ c.sending \/ c.list = << >> THEN c
    ELSE LET w == MbedtlsSend([c EXCEPT !.list = Tail(@)])
             d == IF Head(c.list) = "coap" THEN Seq1(w, ClientSendToCallback) ELSE w
         IN  PostOnce(d, "startSend")

\* NP_DTLS_CLI_EVENT_CLOSED: the attacher takes the connection out of the CoAP
\* client (nabto_coap_client_remove_connection).
CliClosed(c) ==
    LET d == [c EXCEPT !.dtls = "closed"] IN
    IF c.request \in {"new", "sent"} THEN NotifyEvent([d EXCEPT !.request = "answered"]) ELSE d

\* nm_dtls_udp_send_callback.
CliUdpSendCallback(c) ==
    LET d == [c EXCEPT !.sending = FALSE] IN IF c.dtls = "CLOSING" THEN CliClosed(d) ELSE d

\* The event queue runs its first event.
CliEvent ==
    /\ cli.queue # << >>
    /\ LET c == [cli EXCEPT !.queue = Tail(@)] IN
       cli' = CASE Head(cli.queue) = "udpCb" -> CliUdpSendCallback(c)
                [] Head(cli.queue) = "startSend" -> StartSendDeferredCli(c)
                [] Head(cli.queue) = "notify" -> ClientEvent(c)

\* nm_mbedtls_cli_reset and nm_dtls_connect, up to the end of the handshake, whose
\* last datagram may still be under way.
CliFlushed(c) ==
    LET d == [c EXCEPT !.list = << >>, !.queue = SelectSeq(@, LAMBDA e : e # "startSend")] IN
    IF "coap" \in Range(c.list) THEN Seq1(d, ClientSendToCallback) ELSE d

CliConnect(last) ==
    /\ cli.dtls \in {"none", "closed"} /\ cli.request # "answered" /\ ~cli.sending
    /\ LET c == [CliFlushed(cli) EXCEPT !.dtls = "DATA"] IN
       cli' = IF last THEN MbedtlsSend(c) ELSE c

\* nabto_coap_client_request_send.
RequestSend ==
    /\ cli.dtls = "DATA" /\ cli.request = "none"
    /\ cli' = NotifyEvent([cli EXCEPT !.request = "new"])

\* The keep alive sends a request or a response; it has one buffer.
KeepAliveSend ==
    /\ cli.dtls = "DATA" /\ "ka" \notin Range(cli.list)
    /\ cli' = ClientSendData(cli, "ka")

\* nc_coap_client_handle_packet.
CliHandlePacket ==
    /\ cli.dtls = "DATA" /\ cli.request = "sent"
    /\ cli' = Seq1([cli EXCEPT !.request = "answered"], ClientEvent)

\* nc_coap_client_handle_timeout.
ClientTimeout ==
    /\ cli.timer
    /\ cli' = Seq1([cli EXCEPT !.timer = FALSE, !.request =
                      IF cli.request # "sent" THEN @
                      ELSE IF cli.times < MaxTransmissions THEN "new" ELSE "answered"], ClientEvent)

\* dtls_cli_close: a close notify is sent, and the connection is closed when that
\* has gone out.
CliClose ==
    /\ cli.dtls = "DATA"
    /\ cli' = MbedtlsSend([cli EXCEPT !.dtls = "CLOSING"])

\* nm_dtls_event_do_one reads a close notify of the peer, or an error.
CliPeerCloses ==
    /\ cli.dtls = "DATA"
    /\ cli' = Seq1(cli, CliClosed)

CoapClientNext ==
    \/ CliEvent \/ \E last \in BOOLEAN : CliConnect(last)
    \/ RequestSend \/ KeepAliveSend \/ CliHandlePacket \/ ClientTimeout
    \/ CliClose \/ CliPeerCloses

\* A packet in the send list is sent without a further packet to push it: the
\* start event is in the queue, behind the completion of the datagram that is
\* being sent. nm_dtls_udp_send_callback itself does not look at the list.
SendListServed ==
    cli.dtls = "DATA" /\ cli.list # << >> =>
        \E i \in 1..Len(cli.queue) :
            /\ cli.queue[i] = "startSend"
            /\ cli.sending => \E j \in 1..(i - 1) : cli.queue[j] = "udpCb"

\* A request ends, with a response or without, whatever happens to the
\* connection, unless a packet of the client has been refused; on the way every packet
\* in the send list is served (SendListServed).
RequestEnds ==
    /\ [](CoapClientTypeOK /\ SendListServed)
    /\ cli.request \in {"new", "sent"} ~> cli.request = "none" \/ cli.refused
=============================================================================
