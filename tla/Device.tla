------------------------------- MODULE Device -------------------------------
(****************************************************************************)
(* The device core: nc_device with its three sockets (nc_udp_dispatch), the *)
(* slots of nc_client_connection_dispatch, and start, close, stop and free  *)
(* of nabto_device. The attacher is here only what nc_device sees of it: it *)
(* is started, and a close of it is answered some time later (module        *)
(* Attacher, property CloseCompletes). All handlers run in the event queue  *)
(* thread or under its mutex, so each is one action.                        *)
(****************************************************************************)
EXTENDS Connections

CONSTANTS
    NumSlots,     \* NABTO_MAX_CLIENT_CONNECTIONS
    FailingSockets, \* sockets whose receive may fail
    CloseFutures  \* futures the application passes to nabto_device_close

Slots == 1..NumSlots
Sockets == {"udp", "localUdp", "secondaryUdp"}

ASSUME DeviceAssumption == NumSlots \in Nat /\ FailingSockets \subseteq Sockets

VARIABLE d

vars == <<d>>

(***************************************************************************)
(* struct nc_device_context and struct nabto_device_context.                *)
(*   bind        the socket whose bind has not completed, or "none"          *)
(*   sock        "created", "bound", "receiving" (a receive is outstanding), *)
(*               "deaf" (the receive failed) or "aborted"                    *)
(*   attacher    "setup", "started", "closing" (closedCb set), "closed",     *)
(*               "stopped"                                                  *)
(*   elm, closing, dispatchCb   nc_client_connection_dispatch_context        *)
(*   closeCb, closeFut, fut     the callback of nc_device_close, the future  *)
(*               it resolves, and how often each future was resolved         *)
(*   stopped, freed             nabto_device_stop, nabto_device_free         *)
(* started (history) says whether a future was passed to nabto_device_close. *)
(***************************************************************************)
TypeOK ==
    d \in [state: {"SETUP", "RUNNING", "STOPPED"}, bind: Sockets \cup {"none"},
           sock: [Sockets -> {"created", "bound", "receiving", "deaf", "aborted"}],
           attacher: {"setup", "started", "closing", "closed", "stopped"},
           elm: [Slots -> Connection], closing: BOOLEAN, dispatchCb: BOOLEAN,
           closeCb: BOOLEAN, closeFut: CloseFutures \cup {"none"},
           fut: [CloseFutures -> 0..2], started: SUBSET CloseFutures,
           stopped: BOOLEAN, freed: BOOLEAN]

\* nc_device_init, nabto_device_new.
Init ==
    d = [state |-> "SETUP", bind |-> "none", sock |-> [s \in Sockets |-> "created"],
         attacher |-> "setup", elm |-> [i \in Slots |-> Idle], closing |-> FALSE,
         dispatchCb |-> FALSE, closeCb |-> FALSE, closeFut |-> "none",
         fut |-> [f \in CloseFutures |-> 0], started |-> {}, stopped |-> FALSE,
         freed |-> FALSE]

Active(c) == {i \in Slots : c.elm[i].active}

\* nc_device_start.
Start ==
    /\ d.state = "SETUP" /\ ~d.stopped
    /\ d' = [d EXCEPT !.state = "RUNNING", !.bind = "udp"]

\* A socket is bound and its receive loop starts, unless the socket is aborted.
Receiving(c, s) == [c EXCEPT !.sock[s] = IF @ = "aborted" THEN @ ELSE "receiving"]

\* nc_device_udp_bound_cb.
UdpBound(ok) ==
    /\ d.bind = "udp" /\ ~d.stopped
    /\ d' = IF d.state = "STOPPED" THEN [d EXCEPT !.bind = "none"]
            ELSE IF ~ok THEN [d EXCEPT !.bind = "none", !.state = "STOPPED"]
            ELSE [Receiving(d, "udp") EXCEPT !.attacher = "started", !.bind = "localUdp"]

\* nc_device_local_udp_bound_cb: without the local socket the secondary socket is
\* not bound either.
LocalUdpBound(ok) ==
    /\ d.bind = "localUdp" /\ ~d.stopped
    /\ d' = IF d.state = "STOPPED" \/ ~ok THEN [d EXCEPT !.bind = "none"]
            ELSE [Receiving(d, "localUdp") EXCEPT !.bind = "secondaryUdp"]

\* nc_device_secondary_udp_bound_cb.
SecondaryUdpBound(ok) ==
    /\ d.bind = "secondaryUdp" /\ ~d.stopped
    /\ d' = IF d.state = "STOPPED" \/ ~ok THEN [d EXCEPT !.bind = "none"]
            ELSE [Receiving(d, "secondaryUdp") EXCEPT !.bind = "none"]

\* async_recv_wait_complete with an error of recv_from other than AGAIN: the
\* receive is not started again.
ReceiveFails(s) ==
    /\ d.sock[s] = "receiving" /\ ~d.stopped
    /\ d' = [d EXCEPT !.sock[s] = "deaf"]

\* The first free slot, the one nc_client_connection_dispatch_handle_packet takes.
FirstFree == CHOOSE i \in Slots \ Active(d) : \A j \in Slots \ Active(d) : i <= j

Clients == ~d.stopped /\ \E s \in {"udp", "localUdp"} : d.sock[s] = "receiving"

\* nc_client_connection_dispatch_handle_packet for a packet of a connection.
Packet(i, in, ch, seq) ==
    /\ Clients /\ d.elm[i].active
    /\ seq > 0 => in = "app"
    /\ d' = [d EXCEPT !.elm[i] = HandlePacket(@, in, ch, seq)]

\* The same for a handshake packet of no connection: it opens one, also while
\* the dispatcher is closing. bad: the packet is not a client hello. (The channels
\* differ in nothing, so that it may come on any one of them.)
NewConnection(in) ==
    LET ch == CHOOSE ch \in Channels : TRUE IN
    /\ Clients /\ Active(d) # Slots
    /\ d' = [d EXCEPT !.elm[FirstFree] = HandlePacket(Opened(ch), in, ch, 0)]

\* nc_device_client_connections_closed_cb: the attacher is closed.
ConnectionsClosed(c) ==
    [c EXCEPT !.attacher = IF c.attacher = "stopped" THEN @ ELSE "closing"]

\* Mutant of CloseConnection: the dispatcher does not see that all are closed.
CloseConnectionSilent(c, i) == [c EXCEPT !.elm[i].active = FALSE]

\* nc_client_connection_dispatch_try_close.
TryClose(c) ==
    IF Active(c) = {} /\ c.dispatchCb THEN ConnectionsClosed(c) ELSE c

\* nc_client_connection_dispatch_close_connection.
CloseConnection(c, i) ==
    LET e == [c EXCEPT !.elm[i].active = FALSE] IN
    IF c.closing THEN TryClose(e) ELSE e

\* nc_client_connection_destroy_connection, nm_mbedtls_srv_destroy_connection.
Destroy(c, i) == [CloseConnection(c, i) EXCEPT !.elm[i] = Idle]

\* nc_client_connection_handle_event.
HandleEvent(c, i, alpn) ==
    IF c.elm[i].event = "CLOSED" THEN Destroy(c, i)
    ELSE [c EXCEPT !.elm[i] = HandshakeComplete(@, alpn)]

\* nm_mbedtls_srv_do_event_callback: wait for the send, then tell the connection.
DoEventCallback(i, alpn) ==
    /\ d.elm[i].deferred /\ ~d.stopped
    /\ d' = IF d.elm[i].state = "CLOSING" /\ d.elm[i].sending THEN d
            ELSE HandleEvent([d EXCEPT !.elm[i].deferred = FALSE], i, alpn)

\* Mutant of EventClose: the event is not posted again while data is being sent.
EventCloseLost(i) ==
    /\ d.elm[i].closeEv /\ ~d.stopped
    /\ d' = IF d.elm[i].sending THEN [d EXCEPT !.elm[i].closeEv = FALSE] ELSE Destroy(d, i)

\* nm_mbedtls_srv_event_close: wait for the send, then call closeCb, which is
\* nc_client_connection_dtls_closed_cb.
EventClose(i) ==
    /\ d.elm[i].closeEv /\ ~d.stopped
    /\ d' = IF d.elm[i].sending THEN d ELSE Destroy(d, i)

Step(i, guard, after) ==
    /\ guard /\ d.elm[i].active /\ ~d.stopped
    /\ d' = [d EXCEPT !.elm[i] = after]

SendStarts(i, ok) == Step(i, d.elm[i].startSend, StartSendDeferred(d.elm[i], ok))
SendCompletes(i, ok) == Step(i, d.elm[i].udp, SendToUdpCb(d.elm[i], ok))
KeepAliveFires(i) == Step(i, d.elm[i].ka, KeepAliveEvent(d.elm[i]))

\* nm_mbedtls_srv_timed_event_do_one, when the timer of mbedtls has expired.
TimerFires(i) ==
    Step(i, d.elm[i].timer, DoOne([d.elm[i] EXCEPT !.timer = FALSE], "timeout", Default, 0))

\* A stream or a CoAP response of the connection sends data.
ApplicationSends(i) ==
    Step(i, d.elm[i].state = "DATA" /\ Len(d.elm[i].list) < MaxQueued,
         AsyncSendData(d.elm[i], "app", Default))

\* nc_client_connection_dispatch_async_close.
AsyncCloseAll(c) ==
    [c EXCEPT !.closing = TRUE, !.dispatchCb = @ \/ Active(c) # {},
              !.elm = [i \in Slots |-> IF @[i].active THEN AsyncClose(@[i]) ELSE @[i]]]

\* nc_device_close.
CloseDevice(c) ==
    LET e == AsyncCloseAll([c EXCEPT !.closeCb = TRUE, !.state = "STOPPED"]) IN
    IF Active(c) = {} THEN ConnectionsClosed(e) ELSE e

Resolved(c, f) == [c EXCEPT !.fut[f] = @ + 1]

\* nabto_device_close.
Close(f) ==
    /\ f \notin d.started /\ ~d.stopped
    /\ LET e == [d EXCEPT !.closeFut = f, !.started = @ \cup {f}] IN
       d' = IF d.state # "RUNNING" THEN Resolved(e, f)
            ELSE CloseDevice(e)

Aborted(c, ss) == [c EXCEPT !.sock = [s \in Sockets |-> IF s \in ss THEN "aborted" ELSE @[s]]]

\* nabto_device_close_cb.
CloseCb(c) == Resolved(c, c.closeFut)

\* nc_device_attach_closed_cb.
AttacherClosed ==
    /\ d.attacher = "closing" /\ ~d.stopped
    /\ LET e == [Aborted(d, Sockets) EXCEPT !.attacher = "closed", !.closeCb = FALSE] IN
       d' = IF d.closeCb THEN CloseCb(e) ELSE e

\* nabto_device_stop: nc_device_stop, and the event queue thread ends. Of the
\* connections only what nabto_device_free looks at is kept.
Stop ==
    /\ ~d.stopped
    /\ d' = [Aborted(d, {"udp", "secondaryUdp"}) EXCEPT
                !.state = "STOPPED", !.attacher = "stopped", !.stopped = TRUE,
                !.elm = [i \in Slots |-> [Idle EXCEPT !.active = d.elm[i].active]]]

\* nabto_device_free: nc_client_connection_dispatch_deinit destroys what is left.
Free ==
    /\ d.stopped /\ ~d.freed
    /\ d' = [d EXCEPT !.freed = TRUE, !.elm = [i \in Slots |-> Idle]]

Bound == \E ok \in BOOLEAN : UdpBound(ok) \/ LocalUdpBound(ok) \/ SecondaryUdpBound(ok)

Events(i) ==
    \/ \E ok \in BOOLEAN : SendStarts(i, ok) \/ SendCompletes(i, ok)
    \/ \E alpn \in BOOLEAN : DoEventCallback(i, alpn)
    \/ EventClose(i) \/ KeepAliveFires(i) \/ TimerFires(i)

Client ==
    \/ \E i \in Slots, in \in Input \ {"none", "timeout"}, ch \in Channels, seq \in Seqs :
            Packet(i, in, ch, seq)
    \/ \E in \in {"next", "bad"} : NewConnection(in)
    \/ \E s \in FailingSockets : ReceiveFails(s)

Application ==
    \/ Start \/ Stop \/ Free
    \/ \E f \in CloseFutures : Close(f)
    \/ \E i \in Slots : ApplicationSends(i)

Done == d.freed /\ UNCHANGED d

Next == Bound \/ AttacherClosed \/ Client \/ Application \/ Done \/ \E i \in Slots : Events(i)

\* The event queue runs every posted event and every timed event that is due, a
\* UDP send completes, and the attacher answers a close.
Fairness ==
    /\ WF_vars(Bound) /\ WF_vars(AttacherClosed)
    /\ \A i \in Slots :
        /\ WF_vars(\E ok \in BOOLEAN : SendStarts(i, ok))
        /\ WF_vars(\E ok \in BOOLEAN : SendCompletes(i, ok))
        /\ WF_vars(\E alpn \in BOOLEAN : DoEventCallback(i, alpn))
        /\ WF_vars(EventClose(i)) /\ WF_vars(KeepAliveFires(i)) /\ WF_vars(TimerFires(i))

Spec == Init /\ [][Next]_vars /\ Fairness

\* What a connection waits for is on its way, in each of its states: a closing
\* connection has an event that destroys it (unless mbedtls_ssl_read returned 0);
\* a handshake has its timer or a datagram under way (unless a datagram was lost);
\* an open connection has its keep alive event, or the event that starts it; and
\* the send that nm_mbedtls_srv waits for is one the socket completes (unless its
\* channel was left).
Awaited(k) ==
    /\ k.state = "CLOSING" => Eof \/ k.closeEv \/ (k.deferred /\ k.event = "CLOSED")
    /\ k.state = "CONNECTING" => k.timer \/ k.sending \/ k.lostSend
    /\ k.state = "DATA" => k.ka \/ (k.deferred /\ k.event = "HANDSHAKE_COMPLETE")
    /\ k.sending <=> k.udp \/ k.stray

KeepAlives(k) == {p \in DOMAIN k.list : k.list[p].owner = "ka"}

\* The one send context of the keep alive is never put in sendList twice, which
\* would break the list, and is free again when it has left the list.
BufferOnce(k) ==
    /\ \A p, q \in KeepAlives(k) : p = q
    /\ KeepAlives(k) # {} => k.kaBusy
    /\ k.kaBusy => KeepAlives(k) # {} \/ k.state = "CLOSING"

\* The device forgets nothing it has promised. Each connection awaits something
\* that comes (Awaited) and uses the buffer of its keep alive once (BufferOnce).
\* A close that is not answered yet waits for the attacher, or for a connection
\* whose end the dispatcher reports (nc_client_connection_dispatch_try_close). The
\* future of the only nabto_device_close is resolved at most once. The types hold.
NothingForgotten ==
    /\ TypeOK
    /\ ~d.stopped => \A i \in Active(d) : Awaited(d.elm[i]) /\ BufferOnce(d.elm[i])
    /\ d.closeCb /\ ~d.stopped =>
         d.attacher = "closing" \/ (d.closing /\ d.dispatchCb /\ Active(d) # {})
    /\ \A f \in CloseFutures : d.started = {f} => d.fut[f] <= 1

\* A connection is not freed while the socket has a send of it: the completion
\* of the send, nc_client_connection_send_to_udp_cb, uses the connection.
KeptWhileSending ==
    [][\A i \in Slots : d.elm[i].active /\ d.elm[i].udp /\ ~d'.stopped => d'.elm[i].active]_vars

\* A connection that is closing, for whatever reason, gives its slot back: the
\* CLOSED event of a handshake that failed or of a peer that left, the close of
\* a connection that was silent for too long, and the close of the device all
\* end in nc_client_connection_destroy_connection, also while data is being
\* sent. The one exception is a keep alive that waited for a channel while the
\* connection left that channel: nc_client_connection_async_send_to_udp then
\* sends nothing and completes nothing (run device_close). And it does so only
\* when the socket is done with it (KeptWhileSending).
ConnectionEnds ==
    /\ KeptWhileSending
    /\ \A i \in Slots :
         (d.elm[i].active /\ d.elm[i].state = "CLOSING") ~>
             (~d.elm[i].active \/ d.elm[i].stray \/ d.stopped)

\* A handshake ends, whatever the client does not send: the timer of mbedtls is
\* running, or a datagram whose completion goes on with the flight. (When the
\* UDP send of a datagram fails, nothing goes on with the flight until the
\* client sends again.)
HandshakeEnds ==
    \A i \in Slots :
        (d.elm[i].active /\ d.elm[i].state = "CONNECTING") ~>
            (d.elm[i].state # "CONNECTING" \/ ~d.elm[i].active \/ d.elm[i].lostSend \/ d.stopped)

\* Data in sendList is handed to the network, or the connection closes: after a
\* send that failed nothing sends the next entry, but the keep alive does, or it
\* finds the connection dead.
QueuedServed ==
    \A i \in Slots :
        (d.elm[i].list # << >>) ~>
            (d.elm[i].sending \/ d.elm[i].state = "CLOSING" \/ d.elm[i].list = << >> \/ d.stopped)

\* The future of a nabto_device_close is resolved, whatever the state of the
\* sockets, of the connections and of the attacher: the chain dispatcher, last
\* connection, attacher, close callback does not lose the callback, unless a
\* connection never ends (ConnectionEnds).
CloseResolvesUnlessStray ==
    \A f \in CloseFutures :
        (f \in d.started) ~>
            (d.fut[f] > 0 \/ d.stopped \/ \E i \in Slots : d.elm[i].stray)

\* The future of a nabto_device_close is resolved ("Future to resolve once the
\* device is closed"), or the device is stopped.
CloseResolves ==
    \A f \in CloseFutures : (f \in d.started) ~> (d.fut[f] > 0 \/ d.stopped)

=============================================================================
