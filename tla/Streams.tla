------------------------------ MODULE Streams ------------------------------
(****************************************************************************)
(* The stream layer: one slot of nc_stream_manager with its nc_stream, the  *)
(* stream listener of the application (nabto_device_event_handler), and the *)
(* operations of nabto_device_stream. The slots do not interact, so one is  *)
(* enough; a SYN that finds it in use is answered with a RST. The protocol  *)
(* state machine of nabto_stream is a library: it is modelled by the events *)
(* and the results that nc_stream.c sees of it.                             *)
(****************************************************************************)
EXTENDS Naturals, Sequences, FiniteSets

CONSTANT MaxHandles \* streams that are handed to the application

ASSUME HandlesAssumption == MaxHandles \in Nat

Handles == 1..MaxHandles
Ops == {"accept", "read", "write", "close"}
AppEvents == {"OPENED", "DATA_READY", "DATA_WRITE", "READ_CLOSED", "WRITE_CLOSED", "CLOSED"}

VARIABLE str

(***************************************************************************)
(* struct nc_stream_context, struct nc_stream_manager_context, and of the   *)
(* application's side struct nabto_device_stream and nabto_device_listener.  *)
(*   conn      the client connection: "open", "closing" (DTLS refuses data)  *)
(*             or "gone"                                                    *)
(*   bound     streamConns of the slot is the connection                    *)
(*   proto     nabto_stream: SYN_RCVD, WAIT_ACCEPT, ACCEPTED, SYN_SENT       *)
(*             (SYN|ACK is out), OPEN, CLOSED; with released, the pending    *)
(*             application events app, data and eof to read, and out and fin *)
(*             (data and FIN: "none", "unsent", "sent", "acked")             *)
(*   ev, timer, isSending, sendType, inList    nc_stream: its two events,    *)
(*             and its entry in sendList of the DTLS connection              *)
(*   left      what the read still wants: 1 for read some, 2 for read all    *)
(*   cb        the handle whose callback is set, or 0                       *)
(*   rst       rstBuf is in use                                             *)
(*   listener  "none", "ok", "stopped"; queue and fut of the listener        *)
(*   life, futs, aborted   the application's handles                        *)
(* owner and foreign are history: the handle of the stream in the slot, and  *)
(* that a release or a callback met a stream that is not the handle's.       *)
(***************************************************************************)
StreamTypeOK ==
    str \in [conn: {"open", "closing", "gone"}, active: BOOLEAN, bound: BOOLEAN, dtls: BOOLEAN,
             proto: {"SYN_RCVD", "WAIT_ACCEPT", "ACCEPTED", "SYN_SENT", "OPEN", "CLOSED"},
             released: BOOLEAN, app: SUBSET AppEvents, data: BOOLEAN, eof: BOOLEAN,
             out: {"none", "unsent", "sent"}, fin: {"none", "unsent", "sent", "acked"},
             ev: BOOLEAN, timer: BOOLEAN, isSending: BOOLEAN,
             sendType: {"none", "SYN_ACK", "DATA", "RST"},
             inList: BOOLEAN, left: 0..2, cb: [Ops -> 0..MaxHandles], rst: BOOLEAN,
             listener: {"none", "ok", "stopped"}, queue: Seq(Handles), fut: BOOLEAN,
             life: [Handles -> {"none", "queued", "held", "freed"}],
             futs: [Handles -> [Ops -> {"none", "pending", "done"}]],
             aborted: [Handles -> BOOLEAN],
             owner: 0..MaxHandles, foreign: BOOLEAN]

\* nc_stream_manager_init, and a client that is connected.
StreamInit ==
    str = [conn |-> "open", active |-> FALSE, bound |-> FALSE, dtls |-> FALSE,
           proto |-> "CLOSED", released |-> TRUE, app |-> {}, data |-> FALSE, eof |-> FALSE,
           out |-> "none", fin |-> "none", ev |-> FALSE, timer |-> FALSE,
           isSending |-> FALSE, sendType |-> "none", inList |-> FALSE, left |-> 0,
           cb |-> [o \in Ops |-> 0], rst |-> FALSE, listener |-> "none",
           queue |-> << >>, fut |-> FALSE, life |-> [h \in Handles |-> "none"],
           futs |-> [h \in Handles |-> [o \in Ops |-> "none"]],
           aborted |-> [h \in Handles |-> FALSE], owner |-> 0, foreign |-> FALSE]

\* One step of a handler after another: F of the state s.
Then(s, F(_)) == CHOOSE t \in {F(u) : u \in {s}} : TRUE

\* A callback of nabto_device_stream resolves the future of its handle.
Resolve(s, h, o) ==
    [s EXCEPT !.futs[h][o] = "done",
              !.foreign = @ \/ s.owner # h \/ s.life[h] = "freed"]

\* A callback that is set is taken and called.
Call(s, o) == IF s.cb[o] = 0 THEN s ELSE Resolve([s EXCEPT !.cb[o] = 0], s.cb[o], o)

\* nabto_stream_release: what is under way ends with a RST; notify_event posts.
NabtoRelease(s) == [s EXCEPT !.released = TRUE, !.app = {}, !.ev = s.active]

\* nc_stream_release and nc_stream_abort for the stream of a handle.
Release(s, h) == NabtoRelease([s EXCEPT !.foreign = @ \/ s.owner # h])

\* nabto_stream_connection_died, and a RST of the client.
NabtoClosed(s) ==
    [s EXCEPT !.proto = "CLOSED", !.out = "none", !.fin = "none",
              !.app = IF s.released \/ s.proto = "CLOSED" THEN @ ELSE {"CLOSED"}]

\* nabto_stream_next_event_to_handle.
NextEvent(s) ==
    CASE s.released /\ s.proto = "CLOSED" -> "RELEASED"
      [] s.released /\ s.proto # "CLOSED" -> "RST"
      [] ~s.released /\ s.proto = "SYN_RCVD" -> "ACCEPT"
      [] ~s.released /\ s.proto # "SYN_RCVD" /\ s.app # {} -> "APPLICATION_EVENT"
      [] ~s.released /\ s.app = {} /\ s.proto = "ACCEPTED" -> "SYN_ACK"
      [] ~s.released /\ s.app = {} /\ s.proto = "OPEN" /\ "unsent" \in {s.out, s.fin} -> "DATA"
      [] ~s.released /\ s.app = {} /\ s.proto = "CLOSED" -> "CLOSED"
      [] OTHER -> "WAIT"

Sent(field) == IF field = "unsent" THEN "sent" ELSE field

\* nabto_stream_event_handled.
Handled(s, type) ==
    CASE type = "ACCEPT" /\ s.proto = "SYN_RCVD" -> [s EXCEPT !.proto = "WAIT_ACCEPT"]
      [] type = "SYN_ACK" /\ s.proto = "ACCEPTED" -> [s EXCEPT !.proto = "SYN_SENT"]
      [] type = "DATA" -> [s EXCEPT !.out = Sent(@), !.fin = Sent(@)]
      [] type = "RST" -> [s EXCEPT !.proto = "CLOSED"]
      [] OTHER -> s

\* np_event_queue_post_maybe_double(ev).
Post(s) == [s EXCEPT !.ev = TRUE]

\* nc_stream_do_read with nabto_stream_read_buffer: data, end of file, an error of
\* a stream that is closed, or nothing yet. Read all goes on until all is read.
DoRead(s) ==
    LET r == IF s.data THEN [s EXCEPT !.data = FALSE, !.left = @ - 1] ELSE s IN
    IF s.cb["read"] = 0 THEN s
    ELSE IF r.left = 0 \/ s.eof \/ s.proto = "CLOSED" THEN Call([r EXCEPT !.left = 0], "read")
    ELSE r

\* nc_stream_do_write_all with nabto_stream_write_buffer.
DoWriteAll(s) ==
    IF s.proto = "CLOSED" \/ s.fin # "none" THEN Call(s, "write")
    ELSE IF s.proto # "OPEN" \/ s.out # "none" THEN s
    ELSE Call(Post([s EXCEPT !.out = "unsent"]), "write")

\* nc_stream_handle_close with nabto_stream_close.
HandleClose(s) ==
    IF s.cb["close"] = 0 THEN s
    ELSE IF s.proto = "CLOSED" \/ s.fin = "acked" THEN Call(s, "close")
    ELSE IF s.proto = "OPEN" /\ s.fin = "none" THEN Post([s EXCEPT !.fin = "unsent"]) ELSE s

WriteIf(s) == IF s.cb["write"] = 0 THEN s ELSE DoWriteAll(s)

\* nc_stream_application_event_callback.
ApplicationEvent(s, e) ==
    CASE e = "OPENED" -> Call(s, "accept")
      [] e \in {"DATA_READY", "READ_CLOSED"} -> DoRead(s)
      [] e = "DATA_WRITE" -> WriteIf(s)
      [] e = "WRITE_CLOSED" -> Call(s, "close")
      [] e = "CLOSED" -> 
            LET CallAccept(u) == Call(u, "accept") IN
            Then(Then(Then(WriteIf(s), CallAccept), DoRead), HandleClose)

\* nc_stream_destroy: the callbacks that are set are called, and stay set.
Destroy(s) ==
    LET futs == [h \in Handles |-> [o \in Ops |->
                    IF s.cb[o] = h THEN "done" ELSE s.futs[h][o]]] IN
    IF ~s.active THEN s
    ELSE [s EXCEPT !.active = FALSE, !.dtls = FALSE, !.ev = FALSE, !.timer = FALSE,
                   !.futs = futs, !.data = FALSE, !.eof = FALSE,
                   !.foreign = @ \/ \E o \in Ops : s.cb[o] \notin {0, s.owner}]

\* nabto_device_listener_try_resolve with nabto_device_stream_listener_callback:
\* the first stream of the queue goes to the future that waits.
TryResolve(s) ==
    IF ~s.fut \/ s.queue = << >> THEN s
    ELSE [s EXCEPT !.fut = FALSE, !.queue = Tail(@), !.life[Head(s.queue)] = "held"]

\* nabto_device_listener_add_event.
AddEvent(s, h) == TryResolve([s EXCEPT !.queue = Append(@, h), !.life[h] = "queued"])

\* nabto_device_stream_core_callback: the stream becomes the next handle.
CoreCallback(s) ==
    LET h == CHOOSE h \in Handles : s.life[h] = "none" /\ \A g \in 1..(h - 1) : s.life[g] # "none"
    IN  AddEvent([s EXCEPT !.owner = h], h)

\* nc_stream_manager_ready_for_accept: without a listener the stream is released.
ReadyForAccept(s) == IF s.listener = "ok" THEN CoreCallback(s) ELSE NabtoRelease(s)

\* nc_stream_send_packet, with a connection. A send that is refused leaves
\* isSending set.
SendPacket(s, type) ==
    IF s.isSending THEN s
    ELSE IF s.conn = "open" THEN [s EXCEPT !.isSending = TRUE, !.sendType = type, !.inList = TRUE]
    ELSE Post(Handled([s EXCEPT !.isSending = TRUE, !.sendType = type], type))

\* nc_stream_handle_wait: a timer when something is to be acknowledged.
HandleWait(s) ==
    [s EXCEPT !.timer = @ \/ s.proto = "SYN_SENT" \/ (s.proto = "OPEN" /\ "sent" \in {s.out, s.fin})]

\* The part of nc_stream_event that sends nothing.
Dispatch(s, type) ==
    CASE type = "ACCEPT" ->
            LET Done(u) == Post(Handled(u, type)) IN Then(ReadyForAccept(s), Done)
      [] type = "APPLICATION_EVENT" ->
            LET e == CHOOSE e \in s.app : TRUE
                Run(u) == Post(ApplicationEvent(u, e))
            IN  Then([s EXCEPT !.app = @ \ {e}], Run)
      [] type = "WAIT" -> HandleWait(s)
      [] type = "RELEASED" -> Destroy(s)
      [] type = "CLOSED" -> [s EXCEPT !.timer = FALSE]

\* nc_stream_event. Without a connection a packet counts as sent, and what comes
\* next is handled at once.
HandleEvent(s) ==
    LET type == NextEvent(s)
        DispatchNext(u) == Dispatch(u, NextEvent(u))
    IN  IF type \notin {"SYN_ACK", "DATA", "RST"} THEN Dispatch(s, type)
        ELSE IF s.dtls THEN SendPacket(s, type)
        ELSE Then(Handled(s, type), DispatchNext)
Event(s) == Then(s, HandleEvent)

\* nc_stream_init and nc_stream_manager_accept_stream: the callbacks of the
\* stream that had the slot before are not cleared.
Accepted(s) ==
    [s EXCEPT !.active = TRUE, !.bound = TRUE, !.dtls = TRUE, !.proto = "SYN_RCVD",
              !.released = FALSE, !.app = {}, !.out = "none", !.fin = "none",
              !.isSending = FALSE, !.owner = 0]

\* nc_stream_manager_send_rst: one RST at a time, others are dropped.
SendRst(s) == [s EXCEPT !.rst = TRUE]

\* nc_stream_manager_handle_packet for a SYN of a new stream. (The bound of the
\* model: a stream that the application gets is one of Handles.)
Syn ==
    /\ str.conn = "open" /\ (str.listener = "ok" => \E h \in Handles : str.life[h] = "none")
    /\ str' = IF str.active THEN SendRst(str) ELSE Event(Accepted(str))

\* The same for a packet of a stream that does not exist.
StrayPacket == str.conn = "open" /\ ~str.active /\ str' = SendRst(str)

\* nc_stream_manager_send_rst_callback.
RstSent == str.rst /\ str' = [str EXCEPT !.rst = FALSE]

\* Both directions have ended.
Settled(s) == IF s.fin = "acked" /\ s.eof THEN NabtoClosed(s) ELSE s

\* nabto_stream_handle_packet.
NabtoPacket(s, kind) ==
    CASE kind = "ACK" /\ s.proto = "SYN_SENT" ->
            [s EXCEPT !.proto = "OPEN", !.app = @ \cup {"OPENED"}]
      [] kind = "ACK" /\ s.proto = "OPEN" /\ s.out = "sent" ->
            [s EXCEPT !.out = "none", !.app = @ \cup {"DATA_WRITE"}]
      [] kind = "ACK" /\ s.proto = "OPEN" /\ s.out = "none" /\ s.fin = "sent" ->
            Settled([s EXCEPT !.fin = "acked", !.app = @ \cup {"WRITE_CLOSED"}])
      [] kind = "DATA" /\ s.proto = "OPEN" /\ ~s.data /\ ~s.eof ->
            [s EXCEPT !.data = TRUE, !.app = @ \cup {"DATA_READY"}]
      [] kind = "FIN" /\ s.proto = "OPEN" /\ ~s.eof ->
            Settled([s EXCEPT !.eof = TRUE, !.app = @ \cup {"READ_CLOSED"}])
      [] kind = "RST" -> NabtoClosed(s)
      [] OTHER -> s

\* nc_stream_manager_handle_packet and nc_stream_handle_packet for this stream.
StreamPacket(kind) ==
    /\ str.conn = "open" /\ str.active /\ str.bound
    /\ kind # "RST" => ~str.released
    /\ str' = Event(NabtoPacket(str, kind))

\* nc_stream_event_queue_callback.
StreamEvent == str.ev /\ str' = Event([str EXCEPT !.ev = FALSE])

\* nc_stream_handle_timeout, then ET_TIMEOUT: what is not acknowledged is sent
\* again, or the stream gives up.
StreamTimeout(giveUp) ==
    /\ str.timer
    /\ LET s == [str EXCEPT !.timer = FALSE]
           Again(field) == IF field = "sent" THEN "unsent" ELSE field
       IN  str' = IF s.proto = "SYN_SENT" \/ (s.proto = "OPEN" /\ "sent" \in {s.out, s.fin})
                  THEN Post(IF giveUp THEN NabtoClosed(s)
                            ELSE [s EXCEPT !.proto = IF @ = "SYN_SENT" THEN "ACCEPTED" ELSE @,
                                           !.out = Again(@), !.fin = Again(@)])
                  ELSE Event(s)

\* Mutant of SendCallback: the next event is not looked for.
SendCallbackLast(s) == Handled([s EXCEPT !.inList = FALSE, !.isSending = FALSE], s.sendType)

\* nc_stream_dtls_send_callback.
SendCallback(s) == Event(Handled([s EXCEPT !.inList = FALSE, !.isSending = FALSE], s.sendType))

\* The DTLS connection has sent the packet.
StreamSent == str.inList /\ str.conn = "open" /\ str' = SendCallback(str)

\* The connection starts to close: from now on DTLS takes no data.
ConnectionCloses == str.conn = "open" /\ str' = [str EXCEPT !.conn = "closing"]

\* Mutant of ConnectionClosed: the stream does not learn of it.
ConnectionClosedQuiet(s) == [s EXCEPT !.bound = FALSE, !.dtls = FALSE]

\* nc_stream_manager_remove_connection and nc_stream_handle_connection_closed,
\* also for a stream that is destroyed.
ConnectionClosed(s) ==
    IF ~s.bound THEN s ELSE Event(NabtoClosed([s EXCEPT !.bound = FALSE, !.dtls = FALSE]))

\* nc_client_connection_destroy_connection: the streams are told, then the DTLS
\* connection calls the callbacks of what it has not sent.
ConnectionDestroyed ==
    /\ str.conn = "closing"
    /\ LET s == ConnectionClosed([str EXCEPT !.conn = "gone"]) IN
       str' = [IF s.inList THEN SendCallback(s) ELSE s EXCEPT !.rst = FALSE]

\* The client connects again.
Reconnect == str.conn = "gone" /\ str' = [str EXCEPT !.conn = "open"]

\* nabto_device_stream_init_listener, nc_stream_manager_add_listener.
InitListener == str.listener = "none" /\ str' = [str EXCEPT !.listener = "ok"]

\* nabto_device_listener_new_stream, nabto_device_listener_init_future.
NewStream == str.listener = "ok" /\ ~str.fut /\ str' = TryResolve([str EXCEPT !.fut = TRUE])

\* nabto_device_listener_stop: the streams that wait are released, the future is
\* resolved, and the listener leaves the stream manager.
StopListener ==
    /\ str.listener = "ok"
    /\ str' = LET q == {str.queue[i] : i \in DOMAIN str.queue}
                  s == [str EXCEPT !.listener = "stopped", !.fut = FALSE, !.queue = << >>,
                          !.life = [h \in Handles |-> IF h \in q THEN "freed" ELSE @[h]]]
              IN  IF q = {} THEN s
                  ELSE [NabtoRelease(s) EXCEPT !.foreign = @ \/ q # {s.owner}]

\* What the four operations share: the callback is set, unless one is set already,
\* which makes the call fail with OPERATION_IN_PROGRESS.
SetCallback(h, o) == [str EXCEPT !.cb[o] = h, !.futs[h][o] = "pending"]

Begin(h, o, started) ==
    /\ str.life[h] = "held" /\ ~str.aborted[h] /\ str.futs[h][o] = "none"
    /\ str' = IF str.cb[o] # 0 THEN [str EXCEPT !.futs[h][o] = "done"]
              ELSE started

\* nabto_stream_accept.
NabtoAccept(s) == IF s.proto = "WAIT_ACCEPT" THEN Post([s EXCEPT !.proto = "ACCEPTED"]) ELSE s

\* nabto_device_stream_accept, nc_stream_async_accept.
AcceptStream(h) == Begin(h, "accept", NabtoAccept(SetCallback(h, "accept")))

\* nabto_device_stream_read_some and read_all, nc_stream_async_read_some and
\* read_all. The application reads, writes and closes an accepted stream.
ReadStream(h, n) ==
    /\ str.futs[h]["accept"] = "done"
    /\ Begin(h, "read", DoRead([SetCallback(h, "read") EXCEPT !.left = n]))

\* nabto_device_stream_write, nc_stream_async_write.
WriteStream(h) ==
    str.futs[h]["accept"] = "done" /\ Begin(h, "write", DoWriteAll(SetCallback(h, "write")))

\* nabto_device_stream_close, nc_stream_async_close.
CloseStream(h) ==
    str.futs[h]["accept"] = "done" /\ Begin(h, "close", HandleClose(SetCallback(h, "close")))

\* nabto_device_stream_abort, nc_stream_abort.
AbortStream(h) ==
    /\ str.life[h] = "held" /\ ~str.aborted[h]
    /\ str' = Release([str EXCEPT !.aborted[h] = TRUE], h)

\* nabto_device_stream_free, nc_stream_release: as documented, once no future of
\* the stream is unresolved.
FreeStream(h) ==
    /\ str.life[h] = "held" /\ \A o \in Ops : str.futs[h][o] # "pending"
    /\ str' = Release([str EXCEPT !.life[h] = "freed"], h)

StreamCore == StreamEvent \/ \E giveUp \in BOOLEAN : StreamTimeout(giveUp)

StreamNet ==
    \/ Syn \/ StrayPacket \/ RstSent \/ StreamSent
    \/ \E kind \in {"ACK", "DATA", "FIN", "RST"} : StreamPacket(kind)
    \/ ConnectionCloses \/ ConnectionDestroyed \/ Reconnect

StreamApplication ==
    \/ InitListener \/ NewStream \/ StopListener
    \/ \E h \in Handles :
        \/ AcceptStream(h) \/ WriteStream(h) \/ CloseStream(h) \/ AbortStream(h) \/ FreeStream(h)
        \/ \E n \in 1..2 : ReadStream(h, n)

StreamNext == StreamCore \/ StreamNet \/ StreamApplication

\* A stream with something to do has an event, a timer or a send under way: no
\* handler of nc_stream.c returns with work left and nobody to take it up. Only
\* a send that DTLS refused leaves isSending set for nothing, until the
\* connection is destroyed.
StreamWakeup ==
    /\ StreamTypeOK
    /\ (str.active /\ NextEvent(str) \notin {"WAIT", "CLOSED"}) =>
         (str.ev \/ str.inList \/ str.conn = "closing")

\* "When a stream is aborted, all unresolved futures will be resolved", whatever
\* the stream was doing, and so they are for read, write and close when the
\* connection has gone, unless the handle met a stream that is not its own, as it may
\* when there are several. And the slot of a stream that is released, because nobody
\* listens for it, it was freed, aborted or its listener stopped, is free again some
\* time later.
StreamFuturesResolve ==
    /\ \A h \in Handles : \A o \in Ops :
         (str.futs[h][o] = "pending" /\ (str.aborted[h] \/ (str.conn = "gone" /\ o # "accept"))) ~>
             (str.futs[h][o] = "done" \/ str.foreign)
    /\ (str.active /\ str.released) ~> ~str.active
=============================================================================
