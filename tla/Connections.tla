---------------------------- MODULE Connections ----------------------------
(***************************************************************************)
(* A client connection of the device: nc_client_connection on top of a     *)
(* connection of the DTLS server nm_mbedtls_srv, as operators on a record. *)
(* An operator takes the connection before a call and gives it after the   *)
(* call; where mbedtls or the client decides, it takes the decision.       *)
(* Module Device holds the connections in the slots of the dispatcher.     *)
(*                                                                         *)
(* The events of the connection (startSendEvent, deferredEventEvent,       *)
(* closeEv, the mbedtls timer, the keep alive event) are flags: is the     *)
(* event in the event queue?                                               *)
(***************************************************************************)
EXTENDS Naturals, Sequences

CONSTANTS
    Channels,       \* channel ids a client uses
    Seqs,           \* DTLS record sequence numbers of a client
    Base,           \* values of one digit (a byte) of a sequence number
    FlightSize,     \* datagrams of one handshake flight of the server
    MaxTries,       \* retransmissions of a flight before mbedtls gives up
    KaN,            \* keepAlive.n, kaInterval / kaRetryInterval
    KaMaxRetries,   \* keepAlive.kaMaxRetries
    MaxQueued,      \* bound of this model: entries of sendList
    Eof             \* may mbedtls_ssl_read return 0?

ASSUME ConnectionAssumption ==
    /\ Base \in Nat \ {0} /\ Seqs \subseteq 0..(Base * Base - 1)
    /\ FlightSize \in Nat \ {0} /\ MaxTries \in Nat
    /\ Channels # {} /\ KaN \in Nat /\ KaMaxRetries \in Nat /\ MaxQueued \in Nat /\ Eof \in BOOLEAN

Default == "DEFAULT"        \* NP_DTLS_SRV_DEFAULT_CHANNEL_ID
Rounds == 2                 \* flights of the server; with the last it is done

\* A flight read from the peer that no longer needs an answer is "old".
Input == {"none", "timeout", "next", "old", "bad", "app", "ka", "kaResponse",
          "closeNotify", "error"} \cup (IF Eof THEN {"eof"} ELSE {})

(***************************************************************************)
(* struct nc_client_connection and struct np_dtls_srv_connection.           *)
(*   sending         ctx->sending and conn->sentCb: both are set and cleared *)
(*                   together                                               *)
(*   udp             is a UDP send of the connection under way?             *)
(*   flight, round, tries   what mbedtls has left to write of its flight,    *)
(*                   which flight it is, how often it was written again      *)
(*   recvd, sent     did recvCount, sentCount grow since the keep alive last *)
(*                   copied them?                                           *)
(* and history fields: lostSend, a UDP send of the handshake failed; stray,  *)
(* data was to be sent on a channel the connection had left.                 *)
(***************************************************************************)
Connection ==
    [active: BOOLEAN, state: {"CONNECTING", "DATA", "CLOSING"},
     flight: 0..FlightSize, round: 0..Rounds, tries: 0..MaxTries, timer: BOOLEAN,
     sending: BOOLEAN, udp: BOOLEAN,
     list: UNION {[1..n -> [owner: {"ka", "app"}, ch: Channels \cup {Default}]] :
                    n \in 0..(MaxQueued + 1)},
     startSend: BOOLEAN, deferred: BOOLEAN, event: {"HANDSHAKE_COMPLETE", "CLOSED"},
     closeEv: BOOLEAN, cur: Channels, alt: Channels, max: Nat,
     ka: BOOLEAN, kaBusy: BOOLEAN, lostKeepAlives: 0..(KaMaxRetries + KaN + 1),
     recvd: BOOLEAN, sent: BOOLEAN, lostSend: BOOLEAN, stray: BOOLEAN]

\* A slot and its nm_mbedtls_srv_create_connection: nothing has happened yet.
CreateConnection(active, ch) ==
    [active |-> active, state |-> "CONNECTING", flight |-> 0, round |-> 0, tries |-> 0,
     timer |-> FALSE, sending |-> FALSE, udp |-> FALSE, list |-> << >>,
     startSend |-> FALSE, deferred |-> FALSE, event |-> "HANDSHAKE_COMPLETE",
     closeEv |-> FALSE, cur |-> ch, alt |-> ch, max |-> 0, ka |-> FALSE,
     kaBusy |-> FALSE, lostKeepAlives |-> 0, recvd |-> FALSE, sent |-> FALSE,
     lostSend |-> FALSE, stray |-> FALSE]

\* nc_client_connection_open up to the call of handle_packet.
Opened(ch) == CreateConnection(TRUE, ch)

\* The slot after nc_client_connection_destroy_connection.
Idle == CreateConnection(FALSE, CHOOSE ch \in Channels : TRUE)

\* nc_client_connection_async_send_to_udp: a channel that is neither the current
\* nor the alternative one gets no UDP send, and no completion.
AsyncSendToUdp(k, ch) ==
    LET known == ch \in {k.cur, k.alt, Default} IN
    [k EXCEPT !.udp = known, !.stray = ~known]

\* nm_mbedtls_srv_mbedtls_send: one datagram at a time.
Send(k, ch) ==
    IF k.sending THEN k ELSE AsyncSendToUdp([k EXCEPT !.sending = TRUE], ch)

\* nm_mbedtls_timer_set_delay and nm_mbedtls_timer_cancel.
SetTimer(k) == [k EXCEPT !.timer = TRUE]
CancelTimer(k) == [k EXCEPT !.timer = FALSE]

\* deferred_event_callback: the event is replaced, the post happens once.
Defer(k, event) == [k EXCEPT !.deferred = TRUE, !.event = event]

\* Leave for CLOSING after the handshake failed, or the peer has gone.
Failed(k) == Defer([CancelTimer(k) EXCEPT !.state = "CLOSING"], "CLOSED")

\* Nothing is read any more, so the sequence number seen is of no use.
Unread(k) == [k EXCEPT !.state = "CLOSING", !.max = 0]

\* Mutant of Write: the timer of the handshake is not started.
WriteUntimed(k, ch) ==
    LET d == [Send(k, ch) EXCEPT !.flight = k.flight - 1] IN
    IF k.flight = 0 \/ k.sending \/ d.flight > 0 THEN IF k.flight = 0 \/ k.sending THEN k ELSE d
    ELSE IF k.round < Rounds THEN d
    ELSE Defer([d EXCEPT !.state = "DATA", !.lostSend = FALSE], "HANDSHAKE_COMPLETE")

\* mbedtls_ssl_handshake writes its flight, one datagram while nothing is being
\* sent; when the flight is out it starts the timer, or is done.
Write(k, ch) ==
    LET d == [Send(k, ch) EXCEPT !.flight = k.flight - 1] IN
    IF k.flight = 0 \/ k.sending THEN k
    ELSE IF d.flight > 0 THEN d
    ELSE IF k.round < Rounds THEN SetTimer(d)
    ELSE Defer([d EXCEPT !.state = "DATA", !.lostSend = FALSE], "HANDSHAKE_COMPLETE")

\* nm_mbedtls_srv_do_one in state CONNECTING, with the input in and the result
\* of mbedtls_ssl_handshake.
Handshake(k, in, ch) ==
    LET d == Write(k, ch) IN
    IF d.flight > 0 \/ d.state = "DATA" THEN d
    ELSE CASE in = "next" ->
                Write([CancelTimer(d) EXCEPT !.flight = FlightSize,
                                             !.round = d.round + 1, !.tries = 0], ch)
           [] in = "timeout" /\ d.tries < MaxTries ->
                Write([d EXCEPT !.flight = FlightSize, !.tries = d.tries + 1], ch)
           [] in = "bad" \/ (in = "timeout" /\ d.tries = MaxTries) -> Failed(d)
           [] OTHER -> d

\* nm_mbedtls_srv_async_send_data: the data is refused once closing.
AsyncSendData(k, owner, ch) ==
    IF k.state = "CLOSING" THEN k
    ELSE [k EXCEPT !.list = Append(k.list, [owner |-> owner, ch |-> ch]),
                   !.startSend = TRUE]

\* nm_mbedtls_srv_do_one reads the counter of the record, which has its most
\* significant byte first, as an integer of the machine, which has it last.
ReadCounter(seq) == (seq % Base) * Base + seq \div Base

\* nc_client_connection_handle_data: data that is not a keep alive may switch the
\* channel.
HandleData(k, ch, seq) ==
    LET s == ReadCounter(seq) IN
    IF s <= k.max THEN k
    ELSE [k EXCEPT !.max = s, !.cur = IF k.alt = ch THEN ch ELSE @]

\* nc_client_connection_keep_alive_send_response.
SendResponse(k, ch) == AsyncSendData([k EXCEPT !.kaBusy = TRUE], "ka", ch)

\* Mutant of HandleKeepAlive: a buffer that is in use is used again.
HandleKeepAliveAnyway(k, ch) == SendResponse(k, ch)

\* nc_keep_alive_handle_request: a request is answered unless the one buffer of
\* the keep alive is in use.
HandleKeepAlive(k, ch) == IF k.kaBusy THEN k ELSE SendResponse(k, ch)

\* nm_mbedtls_srv_do_one in state DATA, with the result of mbedtls_ssl_read.
Read(k, in, ch, seq) ==
    CASE in = "app" -> HandleData([k EXCEPT !.recvd = TRUE], ch, seq)
      [] in = "ka" -> HandleKeepAlive([k EXCEPT !.recvd = TRUE], ch)
      [] in = "kaResponse" -> [k EXCEPT !.recvd = TRUE]
      [] in \in {"closeNotify", "error"} ->
            Defer(Unread(k), "CLOSED")
      [] in = "eof" -> Unread(k)
      [] in = "old" -> Send(k, ch)
      [] OTHER -> k

\* nm_mbedtls_srv_do_one.
DoOne(k, in, ch, seq) ==
    CASE k.state = "CONNECTING" -> Handshake(k, in, ch)
      [] k.state = "DATA" -> Read(k, in, ch, seq)
      [] k.state = "CLOSING" -> k

\* nc_client_connection_handle_packet, with nm_mbedtls_srv_handle_packet.
HandlePacket(k, in, ch, seq) ==
    DoOne([k EXCEPT !.alt = IF ch # k.cur THEN ch ELSE @], in, ch, seq)

\* nm_mbedtls_srv_connection_send_callback.
SendCallback(k, ok) ==
    LET d == [k EXCEPT !.sending = FALSE,
                       !.lostSend = @ \/ (~ok /\ k.state = "CONNECTING")]
    IN  IF ~ok \/ k.state = "CLOSING" THEN d
        ELSE [DoOne(d, "none", Default, 0) EXCEPT !.startSend = TRUE]

\* nc_client_connection_send_to_udp_cb.
SendToUdpCb(k, ok) == SendCallback([k EXCEPT !.udp = FALSE], ok)

\* nm_mbedtls_srv_start_send_deferred; ok is the result of mbedtls_ssl_write. The
\* callback of a keep alive is nc_keep_alive_packet_sent.
StartSendDeferred(k, ok) ==
    LET d == [k EXCEPT !.startSend = FALSE]
        next == Head(k.list)
        e == [d EXCEPT !.list = Tail(k.list), !.kaBusy = @ /\ next.owner # "ka"]
    IN  IF k.sending \/ k.list = << >> THEN d
        ELSE IF ok THEN [Send(e, next.ch) EXCEPT !.sent = TRUE]
        ELSE e

\* nm_mbedtls_srv_async_close: the close notify goes out if nothing else does.
AsyncClose(k) ==
    LET d == [Unread(k) EXCEPT !.closeEv = TRUE] IN
    IF k.state = "CLOSING" THEN k
    ELSE IF k.state = "DATA" THEN Send(d, Default) ELSE d

\* nc_client_connection_handle_event for HANDSHAKE_COMPLETE.
HandshakeComplete(k, alpn) ==
    IF alpn THEN [k EXCEPT !.ka = TRUE] ELSE AsyncClose(k)

\* nc_keep_alive_should_send: the action and the counters after it.
ShouldSend(k) ==
    IF k.recvd /\ k.sent
    THEN [action |-> "DO_NOTHING",
          conn |-> [k EXCEPT !.lostKeepAlives = 0, !.recvd = FALSE, !.sent = FALSE]]
    ELSE IF k.lostKeepAlives > KaMaxRetries + KaN
    THEN [action |-> "KA_TIMEOUT", conn |-> k]
    ELSE [action |-> IF ~k.kaBusy /\ k.lostKeepAlives + 1 > KaN THEN "SEND_KA"
                     ELSE "DO_NOTHING",
          conn |-> [k EXCEPT !.lostKeepAlives = @ + 1]]

\* nc_client_connection_keep_alive_send_req, nc_keep_alive_create_request.
SendRequest(k) == AsyncSendData([k EXCEPT !.kaBusy = TRUE], "ka", k.cur)

\* Mutant of KeepAliveEvent: no event is posted after a keep alive is sent.
KeepAliveEventOnce(k) ==
    LET s == ShouldSend([k EXCEPT !.ka = FALSE]) IN
    CASE s.action = "DO_NOTHING" -> [s.conn EXCEPT !.ka = TRUE]
      [] s.action = "SEND_KA" -> SendRequest(s.conn)
      [] s.action = "KA_TIMEOUT" -> AsyncClose(s.conn)

\* nc_client_connection_keep_alive_event.
KeepAliveEvent(k) ==
    LET s == ShouldSend([k EXCEPT !.ka = FALSE]) IN
    CASE s.action = "DO_NOTHING" -> [s.conn EXCEPT !.ka = TRUE]
      [] s.action = "SEND_KA" -> [SendRequest(s.conn) EXCEPT !.ka = TRUE]
      [] s.action = "KA_TIMEOUT" -> AsyncClose(s.conn)
=============================================================================
