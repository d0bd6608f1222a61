------------------------------ MODULE Libevent ------------------------------
(***************************************************************************************)
(* The sockets of modules/libevent: nm_libevent_udp.c and nm_libevent_tcp.c. A TCP     *)
(* socket is a bufferevent: libevent reads into an input buffer and writes from an     *)
(* output buffer as long as EV_READ and EV_WRITE are enabled, and calls back. The core *)
(* starts operations on libevent's thread, but may abort from another one.             *)
(*                                                                                     *)
(* The record lev (as sel of SelectUnix where the names are the same):                 *)
(*   held    the operation whose completion event a callback of libevent is about      *)
(*           to resolve, and its error code                                            *)
(*   added   the UDP socket's event is added to the event base                         *)
(*   enabled    EV_READ ("r") and EV_WRITE ("w") of the bufferevent                    *)
(*   connecting    bufferevent_socket_connect is under way                             *)
(*   inbuf, outbuf   the bufferevent's buffers hold data                               *)
(*   broken  libevent has met an error on writing                                      *)
(***************************************************************************************)
EXTENDS Integers, FiniteSets

VARIABLE lev

LevOps == {"recv", "connect", "write", "read"}

LevUses == {{"recv"}, {"connect", "read", "write"}}

LevCodes == {"OK", "EOF", "UNKNOWN", "ABORTED"}

LevTypeOK ==
    /\ lev.held = << >> \/ lev.held \in LevOps \X LevCodes
    /\ lev.op \subseteq LevOps /\ lev.done \in [LevOps -> LevCodes \cup {"none"}]
    /\ lev.enabled \subseteq {"r", "w"} /\ lev.conn \in {"no", "yes", "refused"}
    /\ {lev.udp, lev.tcp} \subseteq {"none", "made", "open", "bad", "freed"}

LevInit ==
  \E use \in LevUses :
    lev = [use |-> use, held |-> << >>, crashed |-> FALSE, udp |-> "none", tcp |-> "none", gone |-> {},
           op |-> {}, done |-> [o \in LevOps |-> "none"], added |-> FALSE, data |-> FALSE,
           enabled |-> {}, connecting |-> FALSE, inbuf |-> FALSE, outbuf |-> FALSE, broken |-> FALSE,
           input |-> "none", conn |-> "no"]

Idle == lev.held = << >> /\ ~lev.crashed

LevResolve(s, o, ec) == [s EXCEPT !.op = @ \ {o}, !.done[o] = ec]

\* A callback finds completionEvent set and goes on to resolve it.
Found(s, o, ec) == IF o \in s.op THEN [s EXCEPT !.held = <<o, ec>>] ELSE s

(***************************************************************************)
(* libevent's callbacks.                                                   *)
(***************************************************************************)
\* The end of complete_recv_wait, resolve_tcp_connect, resolve_tcp_read, resolve_tcp_write. An abort in
\* between has resolved the event and made the pointer NULL: it is resolved again, or NULL is.
LevResolveHeld ==
    /\ lev.held # << >> /\ ~lev.crashed
    /\ LET o == lev.held[1] s == [lev EXCEPT !.held = << >>] IN
       \/ lev' = LevResolve(s, o, lev.held[2])
       \/ o \notin lev.op /\ lev' = [s EXCEPT !.crashed = TRUE]

\* udp_ready_callback: the event fires once for each event_add.
UdpReadyCallback ==
    /\ Idle /\ lev.added /\ lev.data /\ lev.udp = "open"
    /\ lev' = Found([lev EXCEPT !.added = FALSE], "recv", "OK")

\* tcp_eof: of a connect or a read; a write is left as it is.
TcpEof(s) == IF "connect" \in s.op THEN Found(s, "connect", "EOF") ELSE Found(s, "read", "EOF")

\* tcp_bufferevent_event: the end of a connect.
TcpBuffereventEvent ==
    /\ Idle /\ lev.tcp = "open" /\ lev.connecting /\ lev.conn # "no"
    /\ LET s == [lev EXCEPT !.connecting = FALSE] IN
       lev' = IF lev.conn = "yes" THEN Found(s, "connect", "OK") ELSE TcpEof(s)

\* tcp_bufferevent_event_read, and the event of a peer that has closed or failed, after which
\* libevent does not read on.
TcpBuffereventEventRead ==
    /\ Idle /\ lev.tcp = "open" /\ lev.conn = "yes" /\ ~lev.connecting /\ "r" \in lev.enabled
    /\ \/ /\ lev.input = "data"
          /\ LET s == [lev EXCEPT !.input = "none"] IN
             lev' = IF "read" \in s.op THEN Found([s EXCEPT !.enabled = @ \ {"r"}, !.inbuf = FALSE], "read", "OK")
                    ELSE [s EXCEPT !.inbuf = TRUE]
       \/ /\ lev.input \in {"eof", "error"}
          /\ lev' = TcpEof([lev EXCEPT !.enabled = @ \ {"r"}])

\* tcp_bufferevent_event_write, when libevent has written all of the output buffer, or the event
\* of a failure to write.
TcpBuffereventEventWrite ==
    /\ Idle /\ lev.tcp = "open" /\ lev.conn = "yes" /\ ~lev.connecting /\ "w" \in lev.enabled /\ lev.outbuf
    /\ \/ lev' = Found([lev EXCEPT !.outbuf = FALSE], "write", "OK")
       \/ lev' = TcpEof([lev EXCEPT !.enabled = @ \ {"w"}, !.broken = TRUE])

(***************************************************************************)
(* The core: UDP.                                                          *)
(***************************************************************************)
\* udp_create.
LevUdpCreate == lev.udp = "none" /\ "recv" \in lev.use /\ Idle /\ lev' = [lev EXCEPT !.udp = "made"]

\* udp_async_bind_port, udp_async_bind_port_ec: NABTO_EC_OK when bind() fails, too.
LevUdpBindPort(bound) ==
    /\ lev.udp = "made" /\ "udp" \notin lev.gone /\ Idle
    /\ lev' = [lev EXCEPT !.udp = IF bound THEN "open" ELSE "bad"]

\* udp_async_recv_wait.
LevUdpRecvWait ==
    /\ lev.udp \in {"open", "bad"} /\ lev.done["recv"] = "none" /\ "recv" \notin lev.op /\ Idle
    /\ lev' = IF "udp" \in lev.gone THEN LevResolve(lev, "recv", "ABORTED")
              ELSE [lev EXCEPT !.op = @ \cup {"recv"}, !.added = lev.udp = "open"]

\* udp_recv_from, in the callback.
LevUdpRecvFrom ==
    /\ lev.done["recv"] # "none" /\ Idle
    /\ lev' = [lev EXCEPT !.done["recv"] = "none", !.data = @ /\ lev.done["recv"] # "OK"]

\* udp_abort, complete_recv_wait.
LevUdpAbort ==
    /\ lev.udp \in {"made", "open", "bad"} /\ "udp" \notin lev.gone /\ ~lev.crashed
    /\ LET s == [lev EXCEPT !.gone = @ \cup {"udp"}] IN
       lev' = IF "recv" \in s.op THEN LevResolve(s, "recv", "ABORTED") ELSE s

\* udp_destroy: event_del_block waits for a callback that is running.
LevUdpDestroy ==
    /\ lev.udp \in {"made", "open", "bad"} /\ Idle
    /\ lev' = [lev EXCEPT !.udp = "freed", !.gone = @ \cup {"udp"}, !.added = FALSE,
                          !.op = @ \ {"recv"}, !.done["recv"] = "none"]

(***************************************************************************)
(* The core: TCP.                                                          *)
(***************************************************************************)
\* tcp_create.
LevTcpCreate == lev.tcp = "none" /\ "connect" \in lev.use /\ Idle /\ lev' = [lev EXCEPT !.tcp = "made"]

\* tcp_async_connect.
LevTcpConnect ==
    /\ lev.tcp = "made" /\ "tcp" \notin lev.gone /\ Idle
    /\ lev' = [lev EXCEPT !.tcp = "open", !.op = @ \cup {"connect"}, !.enabled = {"r", "w"}, !.connecting = TRUE]

\* The core reads and writes once it is connected and the last read or write has called back.
MayStart(o) == lev.tcp = "open" /\ lev.conn = "yes" /\ "connect" \notin lev.op
                 /\ o \notin lev.op /\ lev.done[o] = "none" /\ Idle

\* tcp_async_write: bufferevent_write may fail.
LevTcpWrite(fails) ==
    /\ MayStart("write")
    /\ LET s == [lev EXCEPT !.enabled = @ \cup {"w"}] IN
       lev' = IF fails THEN LevResolve(s, "write", "UNKNOWN")
              ELSE [s EXCEPT !.op = @ \cup {"write"}, !.outbuf = TRUE]

\* Mutant of LevTcpRead: completionEvent stays set when there is data at once.
LevTcpReadKept ==
    /\ MayStart("read")
    /\ lev' = IF lev.inbuf
              THEN [lev EXCEPT !.inbuf = FALSE, !.enabled = @ \ {"r"}, !.op = @ \cup {"read"}, !.done["read"] = "OK"]
              ELSE [lev EXCEPT !.op = @ \cup {"read"}, !.enabled = @ \cup {"r"}]

\* tcp_async_read: what is in the input buffer, or what comes.
LevTcpRead ==
    /\ MayStart("read")
    /\ lev' = IF lev.inbuf
              THEN LevResolve([lev EXCEPT !.inbuf = FALSE, !.enabled = @ \ {"r"}], "read", "OK")
              ELSE [lev EXCEPT !.op = @ \cup {"read"}, !.enabled = @ \cup {"r"}]

\* tcp_abort.
LevTcpAbortOps(s) ==
    IF "tcp" \in s.gone THEN s
    ELSE [s EXCEPT !.gone = @ \cup {"tcp"}, !.op = @ \cap {"recv"},
                   !.done = [o \in LevOps |-> IF o # "recv" /\ o \in s.op THEN "ABORTED" ELSE @[o]]]

LevTcpAbort ==
    /\ lev.tcp \in {"made", "open"} /\ "tcp" \notin lev.gone /\ ~lev.crashed
    /\ lev' = LevTcpAbortOps(lev)

\* tcp_destroy: the lock of the bufferevent keeps it from a callback that is running. The
\* completion events go with their owner.
LevTcpDestroy ==
    /\ lev.tcp \in {"made", "open"} /\ Idle
    /\ lev' = [LevTcpAbortOps(lev) EXCEPT !.tcp = "freed", !.enabled = {}, !.connecting = FALSE,
                 !.op = @ \cap {"recv"}, !.done = [o \in LevOps |-> IF o = "recv" THEN @[o] ELSE "none"]]

\* The core runs the callback of a completion event.
LevCallback(o) ==
    /\ o # "recv" /\ lev.done[o] # "none" /\ Idle
    /\ lev' = [lev EXCEPT !.done[o] = "none"]

\* The network, as in SelectUnix.
LevArrives ==
    /\ ~lev.crashed
    /\ \/ /\ lev.udp = "open" /\ ~lev.data /\ lev' = [lev EXCEPT !.data = TRUE]
       \/ /\ lev.tcp = "open" /\ lev.conn = "no"
          /\ \E c \in {"yes", "refused"} : lev' = [lev EXCEPT !.conn = c]
       \/ /\ lev.tcp = "open" /\ lev.conn = "yes" /\ lev.input = "none"
          /\ \E i \in {"data", "eof", "error"} : lev' = [lev EXCEPT !.input = i]

LevEventBase ==
    \/ UdpReadyCallback \/ TcpBuffereventEvent \/ TcpBuffereventEventRead \/ TcpBuffereventEventWrite
    \/ LevResolveHeld

LevNext ==
    \/ LevEventBase \/ LevArrives
    \/ LevUdpCreate \/ (\E bound \in BOOLEAN : LevUdpBindPort(bound)) \/ LevUdpRecvWait \/ LevUdpRecvFrom
    \/ LevUdpAbort \/ LevUdpDestroy
    \/ LevTcpCreate \/ LevTcpConnect \/ (\E fails \in BOOLEAN : LevTcpWrite(fails)) \/ LevTcpRead
    \/ LevTcpAbort \/ LevTcpDestroy \/ (\E o \in LevOps : LevCallback(o))

(***************************************************************************)
(* Properties                                                              *)
(***************************************************************************)
LevContract == INSTANCE SocketContract WITH
    SocketOps <- LevOps, ErrorCodes <- LevCodes, outstanding <- lev.op, result <- lev.done,
    aborted <- (IF "udp" \in lev.gone THEN {"recv"} ELSE {})
               \cup (IF "tcp" \in lev.gone THEN LevOps \ {"recv"} ELSE {})

\* The sockets of modules/libevent implement SocketContract: an operation completes once, at
\* once or in a callback of libevent, and only a socket that was aborted can see a second
\* completion.
LevImplementsContract == LevContract!ContractSpec

\* What libevent has seen before the core asked for it is not lost: a read completes when there
\* is data or the peer has closed, also when libevent met that before tcp_async_read and
\* stopped reading; a connect and a receive complete likewise, and a write unless writing
\* fails, which tcp_eof does not tell a writer.
LevCompletes ==
    LET Over == lev.crashed
        Due(o) == /\ o \in lev.op
                  /\ CASE o = "recv" -> lev.udp = "open" /\ lev.data
                       [] o = "read" -> lev.input # "none" \/ lev.inbuf
                       [] o = "connect" -> lev.conn # "no"
                       [] o = "write" -> ~lev.broken
    IN  /\ []LevTypeOK
        /\ \A o \in LevOps : (Due(o) /\ ~Over) ~> (o \notin lev.op \/ Over \/ (o = "write" /\ lev.broken))
=============================================================================
