----------------------------- MODULE SelectUnix -----------------------------
(***************************************************************************************)
(* The sockets of modules/select_unix: nm_select_unix.c, nm_select_unix_udp.c and      *)
(* nm_select_unix_tcp.c. The core starts operations on sockets; the network            *)
(* thread waits in select() for what is outstanding, does it and resolves the          *)
(* completion event, whose callback the core runs. The core wakes the thread by        *)
(* writing a byte into a pipe. One UDP and one TCP socket.                             *)
(*                                                                                     *)
(* The record sel:                                                                     *)
(*   pc      where the network thread is, or "crashed"                                 *)
(*   held    the operation whose completion event the thread is about to resolve,      *)
(*           and its error code                                                        *)
(*   fds     readFds and writeFds: of the pipe, the UDP socket, the TCP socket to read *)
(*           ("in") and to write ("out")                                               *)
(*   pipe    bytes in the pipe (at most MaxPipe)                                       *)
(*   udp, tcp   a socket is "none", "made" (no descriptor), "open", "bad" (its         *)
(*           descriptor is closed) or "freed"; gone: aborted                           *)
(*   op      the operations that are outstanding: completionEvent is not NULL          *)
(*   done    the completion events that are posted, with their error code              *)
(*   left    bytes still to be written; data, input, conn: what the network has        *)
(*           for the sockets                                                           *)
(*   badfd   select() failed on a closed descriptor                                    *)
(*   use     the operations the core starts in this execution                          *)
(***************************************************************************************)
EXTENDS Integers, FiniteSets

CONSTANT MaxPipe

ASSUME MaxPipeAssumption == MaxPipe \in Nat

VARIABLE sel

SelOps == {"recv", "connect", "write", "read"}

\* Two sockets, or a single one with what it can do at the same time.
Uses == {{"recv", "connect"}, {"connect", "read"}, {"connect", "write"}}

Codes == {"none", "OK", "EOF", "UNKNOWN", "ABORTED", "OPERATION_IN_PROGRESS"}

SelTypeOK ==
    /\ sel.pc \in {"loop", "udpset", "tcpset", "select", "pipe", "end", "crashed"} \cup SelOps
    /\ sel.fds \subseteq {"pipe", "udp", "in", "out"} /\ sel.pipe \in 0..MaxPipe
    /\ sel.op \subseteq SelOps /\ sel.done \in [SelOps -> Codes] /\ sel.left \in 0..2
    /\ {sel.udp, sel.tcp} \subseteq {"none", "made", "open", "bad", "freed"}

\* nm_select_unix_init, nm_select_unix_run.
SelInit ==
  \E use \in Uses :
    sel = [use |-> use, pc |-> "loop", held |-> << >>, stopped |-> FALSE, fds |-> {}, pipe |-> 0, udp |-> "none", tcp |-> "none",
           gone |-> {}, op |-> {}, done |-> [o \in SelOps |-> "none"], left |-> 0, data |-> FALSE,
           input |-> "none", conn |-> "no", badfd |-> FALSE]

\* The network thread has the mutex of nm_select_unix.
Locked == sel.held # << >> \/ sel.pc \in {"connect", "write"}

Running == sel.pc # "crashed"

\* nm_select_unix_notify.
SelNotify(s) == [s EXCEPT !.pipe = @ + 1]

\* np_completion_event_resolve; a second one before the callback replaces the code.
SelResolve(s, o, ec) == [s EXCEPT !.op = @ \ {o}, !.done[o] = ec]

(***************************************************************************)
(* The network thread.                                                     *)
(***************************************************************************)
\* network_thread.
NetworkThread ==
    /\ sel.pc = "loop"
    /\ sel' = [sel EXCEPT !.pc = IF sel.stopped THEN "end" ELSE "udpset"]

\* build_fd_sets and nm_select_unix_udp_build_fd_sets.
UdpBuildFdSets ==
    /\ sel.pc = "udpset"
    /\ sel' = [sel EXCEPT !.pc = "tcpset",
                 !.fds = {"pipe"} \cup IF "recv" \in sel.op /\ sel.udp \in {"open", "bad"} THEN {"udp"} ELSE {}]

\* nm_select_unix_tcp_build_fd_sets.
TcpBuildFdSets ==
    /\ sel.pc = "tcpset"
    /\ sel' = [sel EXCEPT !.pc = "select",
                 !.fds = @ \cup (IF sel.tcp = "open" /\ "read" \in sel.op THEN {"in"} ELSE {})
                           \cup (IF sel.tcp = "open" /\ sel.op \cap {"write", "connect"} # {} THEN {"out"} ELSE {})]

\* What select() finds ready, and the descriptors that are closed.
Ready(s) ==
    (IF s.pipe > 0 THEN {"pipe"} ELSE {}) \cup (IF s.data THEN {"udp"} ELSE {})
      \cup (IF s.input # "none" THEN {"in"} ELSE {}) \cup (IF s.conn # "no" THEN {"out"} ELSE {})

Closed(s) ==
    (IF s.udp \in {"bad", "freed"} THEN {"udp"} ELSE {}) \cup (IF s.tcp = "freed" THEN {"in", "out"} ELSE {})

\* nm_select_unix_inf_wait: an error leaves the sets as they are.
InfWait ==
    /\ sel.pc = "select"
    /\ \/ /\ sel.fds \cap Closed(sel) # {}
          /\ sel' = [sel EXCEPT !.pc = "pipe", !.badfd = TRUE]
       \/ /\ sel.fds \cap Closed(sel) = {} /\ sel.fds \cap Ready(sel) # {}
          /\ sel' = [sel EXCEPT !.pc = "pipe", !.fds = @ \cap Ready(sel)]

\* nm_select_unix_read: the pipe is read if it is in the set; that blocks while it is empty.
SelectRead ==
    /\ sel.pc = "pipe"
    /\ "pipe" \in sel.fds => sel.pipe > 0
    /\ sel' = [sel EXCEPT !.pc = "recv", !.pipe = IF "pipe" \in sel.fds THEN @ - 1 ELSE @]

\* tcp_do_read_ec, is_connected_ec.
TcpDoReadEc(s) ==
    CASE s.input = "none" -> "AGAIN" [] s.input = "data" -> "OK"
      [] s.input = "eof" -> "EOF" [] s.input = "error" -> "UNKNOWN"

IsConnectedEc(s) ==
    CASE s.conn = "no" -> "AGAIN" [] s.conn = "yes" -> "OK" [] s.conn = "refused" -> "UNKNOWN"

\* tcp_do_write_ec: n bytes go out; no room is an error too (the test for EAGAIN looks at the
\* result of send() instead of errno).
TcpDoWriteEc(s, n) ==
    IF n = 0 \/ s.conn # "yes" THEN "UNKNOWN" ELSE IF n < s.left THEN "AGAIN" ELSE "OK"

\* One operation of a socket in the list whose descriptor is in the sets: completionEvent is
\* tested and the operation done. When it is over, ec, the thread goes on to read
\* completionEvent again (held), else to the next operation.
Handle(s, o, ec, next) ==
    IF o \in s.op /\ ec # "AGAIN" THEN [s EXCEPT !.held = <<o, ec>>] ELSE [s EXCEPT !.pc = next]

\* nm_select_unix_udp_handle_select, nm_select_unix_udp_handle_event.
UdpHandleSelect ==
    /\ sel.pc = "recv" /\ sel.held = << >>
    /\ sel' = IF sel.udp \in {"open", "bad"} /\ "udp" \in sel.fds THEN Handle(sel, "recv", "OK", "read")
              ELSE [sel EXCEPT !.pc = "read"]

\* nm_select_unix_tcp_handle_select, which takes the mutex, and tcp_do_read.
TcpDoRead ==
    /\ sel.pc = "read" /\ sel.held = << >>
    /\ sel' = IF sel.tcp # "open" THEN [sel EXCEPT !.pc = "loop"]
              ELSE IF "in" \in sel.fds
              THEN [Handle(sel, "read", TcpDoReadEc(sel), "connect") EXCEPT
                      !.input = IF @ = "data" /\ "read" \in sel.op THEN "none" ELSE @]
              ELSE [sel EXCEPT !.pc = "connect"]

\* is_connected.
IsConnected ==
    /\ sel.pc = "connect" /\ sel.held = << >>
    /\ sel' = IF "out" \in sel.fds THEN Handle(sel, "connect", IsConnectedEc(sel), "write")
              ELSE [sel EXCEPT !.pc = "write"]

\* tcp_do_write.
TcpDoWrite ==
    /\ sel.pc = "write" /\ sel.held = << >>
    /\ \E n \in 0..sel.left :
         sel' = IF "out" \in sel.fds /\ "write" \in sel.op
                THEN [Handle(sel, "write", TcpDoWriteEc(sel, n), "loop") EXCEPT !.left = @ - n]
                ELSE [sel EXCEPT !.pc = "loop"]

After(o) == CASE o = "recv" -> "read" [] o = "read" -> "connect" [] o = "connect" -> "write" [] o = "write" -> "loop"

\* The end of handle_event and the like: the completion event is taken and resolved. The core may
\* have aborted the operation meanwhile, without the mutex; then the pointer is NULL, or, read
\* early by the compiler, a second completion follows the first.
ResolveHeld ==
    /\ sel.held # << >>
    /\ LET o == sel.held[1] s == [sel EXCEPT !.held = << >>, !.pc = After(o)] IN
       \/ (o \in sel.op \/ o = "recv") /\ sel' = SelResolve(s, o, sel.held[2])
       \/ o \notin sel.op /\ sel' = [s EXCEPT !.pc = "crashed"]

(***************************************************************************)
(* The core: UDP.                                                          *)
(***************************************************************************)
CoreMay == sel.pipe < MaxPipe /\ Running

\* nm_select_unix_udp_create.
UdpCreate ==
    /\ sel.udp = "none" /\ "recv" \in sel.use /\ CoreMay /\ ~Locked
    /\ sel' = SelNotify([sel EXCEPT !.udp = "made"])

\* nm_select_unix_udp_async_bind_port: when bind() fails the descriptor is closed, and the
\* operation ends with NABTO_EC_OK all the same.
UdpBindPort(bound) ==
    /\ sel.udp = "made" /\ "udp" \notin sel.gone
    /\ sel' = [sel EXCEPT !.udp = IF bound THEN "open" ELSE "bad"]

\* Mutant of UdpRecvWait: the network thread is not told.
UdpRecvWaitQuiet ==
    /\ sel.udp \in {"open", "bad"} /\ sel.done["recv"] = "none" /\ "recv" \notin sel.op /\ CoreMay
    /\ sel' = IF "udp" \in sel.gone THEN SelResolve(sel, "recv", "ABORTED")
              ELSE [sel EXCEPT !.op = @ \cup {"recv"}]

\* nm_select_unix_udp_async_recv_wait, which nc_udp_dispatch calls again once the callback has run.
UdpRecvWait ==
    /\ sel.udp \in {"open", "bad"} /\ sel.done["recv"] = "none" /\ "recv" \notin sel.op /\ CoreMay
    /\ sel' = IF "udp" \in sel.gone THEN SelResolve(sel, "recv", "ABORTED")
              ELSE SelNotify([sel EXCEPT !.op = @ \cup {"recv"}])

\* nm_select_unix_udp_recv_from, in the callback: a datagram, or nothing.
UdpRecvFrom ==
    /\ sel.done["recv"] # "none"
    /\ sel' = [sel EXCEPT !.done["recv"] = "none", !.data = @ /\ sel.done["recv"] # "OK"]

\* nm_select_unix_udp_abort: no lock is taken.
UdpAbort ==
    /\ sel.udp \in {"made", "open", "bad"} /\ "udp" \notin sel.gone
    /\ LET s == [sel EXCEPT !.gone = @ \cup {"udp"}] IN
       sel' = IF "recv" \in s.op THEN SelResolve(s, "recv", "ABORTED") ELSE s

\* nm_select_unix_udp_destroy, nm_select_unix_udp_free_socket: out of the list under the
\* mutex; the completion event goes with its owner.
UdpDestroy ==
    /\ sel.udp \in {"made", "open", "bad"} /\ ~Locked
    /\ sel' = [sel EXCEPT !.udp = "freed", !.op = @ \ {"recv"}, !.done["recv"] = "none"]

(***************************************************************************)
(* The core: TCP.                                                          *)
(***************************************************************************)
\* create.
TcpCreate == sel.tcp = "none" /\ "connect" \in sel.use /\ ~Locked /\ sel' = [sel EXCEPT !.tcp = "made"]

\* async_connect, async_connect_ec: connected or refused at once, or under way.
TcpAsyncConnect(status) ==
    /\ sel.tcp = "made" /\ "tcp" \notin sel.gone /\ CoreMay
    /\ LET s == [sel EXCEPT !.tcp = "open", !.conn = status] IN
       sel' = IF status = "no" THEN SelNotify([s EXCEPT !.op = @ \cup {"connect"}])
              ELSE SelResolve(s, "connect", IsConnectedEc(s))

\* async_write, async_write_ec; async_read.
TcpAsyncWrite ==
    /\ "write" \in sel.use
    /\ sel.tcp = "open" /\ sel.conn = "yes" /\ sel.done["write"] = "none" /\ "write" \notin sel.op /\ CoreMay
    /\ sel' = IF "tcp" \in sel.gone THEN SelResolve(sel, "write", "ABORTED")
              ELSE SelNotify([sel EXCEPT !.op = @ \cup {"write"}, !.left = 2])

TcpAsyncRead ==
    /\ "read" \in sel.use
    /\ sel.tcp = "open" /\ sel.conn = "yes" /\ sel.done["read"] = "none" /\ "read" \notin sel.op /\ CoreMay
    /\ sel' = IF "tcp" \in sel.gone THEN SelResolve(sel, "read", "ABORTED")
              ELSE SelNotify([sel EXCEPT !.op = @ \cup {"read"}])

\* tcp_abort.
TcpAbortOps(s) ==
    IF "tcp" \in s.gone THEN s
    ELSE [s EXCEPT !.gone = @ \cup {"tcp"}, !.op = @ \ {"connect", "write", "read"},
                   !.done = [o \in SelOps |-> IF o # "recv" /\ o \in s.op THEN "ABORTED" ELSE @[o]]]

SelTcpAbort ==
    /\ sel.tcp \in {"made", "open"} /\ "tcp" \notin sel.gone
    /\ sel' = TcpAbortOps(sel)

\* destroy, nm_select_unix_tcp_free_socket.
TcpDestroy ==
    /\ sel.tcp \in {"made", "open"} /\ ~Locked
    /\ sel' = [TcpAbortOps(sel) EXCEPT !.tcp = "freed",
                 !.done = [o \in SelOps |-> IF o = "recv" THEN @[o] ELSE "none"]]

\* The core runs the callback of a completion event (resolve_event_callback).
SelCallback(o) ==
    /\ o # "recv" /\ sel.done[o] # "none"
    /\ sel' = [sel EXCEPT !.done[o] = "none"]

\* nm_select_unix_stop.
SelStop ==
    /\ ~sel.stopped /\ CoreMay /\ ~Locked
    /\ sel' = SelNotify([sel EXCEPT !.stopped = TRUE])

\* The network: a datagram, the answer to a connect, and what the TCP peer does.
Arrives ==
    \/ /\ sel.udp = "open" /\ ~sel.data /\ sel' = [sel EXCEPT !.data = TRUE]
    \/ /\ sel.tcp = "open" /\ sel.conn = "no"
       /\ \E c \in {"yes", "refused"} : sel' = [sel EXCEPT !.conn = c]
    \/ /\ sel.tcp = "open" /\ sel.conn = "yes" /\ sel.input = "none" /\ "read" \in sel.use
       /\ \E i \in {"data", "eof", "error"} : sel' = [sel EXCEPT !.input = i]

SelThread ==
    \/ NetworkThread \/ UdpBuildFdSets \/ TcpBuildFdSets \/ InfWait \/ SelectRead
    \/ UdpHandleSelect \/ TcpDoRead \/ IsConnected \/ TcpDoWrite \/ ResolveHeld

SelCore ==
    \/ Arrives
    \/ UdpCreate \/ (\E bound \in BOOLEAN : UdpBindPort(bound)) \/ UdpRecvWait \/ UdpRecvFrom
    \/ UdpAbort \/ UdpDestroy
    \/ TcpCreate \/ (\E status \in {"no", "yes", "refused"} : TcpAsyncConnect(status))
    \/ TcpAsyncWrite \/ TcpAsyncRead \/ SelTcpAbort \/ TcpDestroy
    \/ (\E o \in SelOps : SelCallback(o)) \/ SelStop

SelNext == SelThread \/ (Running /\ SelCore)

(***************************************************************************)
(* Properties                                                              *)
(***************************************************************************)
TcpOps == SelOps \ {"recv"}

Contract == INSTANCE SocketContract WITH
    SocketOps <- SelOps, ErrorCodes <- Codes \ {"none"}, outstanding <- sel.op, result <- sel.done,
    aborted <- (IF "udp" \in sel.gone \/ sel.udp = "freed" THEN {"recv"} ELSE {})
               \cup (IF "tcp" \in sel.gone \/ sel.tcp = "freed" THEN TcpOps ELSE {})

\* The sockets of select_unix implement SocketContract: whatever the order of the core's calls
\* and the network thread's steps, an operation completes once, and only a socket that was
\* aborted can see a second completion.
SelImplementsContract == Contract!ContractSpec

\* No wake-up is lost between the core and the network thread: an operation whose
\* descriptor is ready is completed, or is no longer outstanding, wherever the thread was when
\* the core started it. Only a stop ends that, an abort at the wrong moment (see ResolveHeld),
\* or a select() on a descriptor closed since the sets were built, which leaves the thread
\* reading an empty pipe.
SelCompletes ==
    LET Over == sel.stopped \/ sel.badfd \/ ~Running
        Due(o) == /\ o \in sel.op
                  /\ CASE o = "recv" -> sel.udp = "open" /\ sel.data
                       [] o = "read" -> sel.input # "none"
                       [] OTHER -> sel.conn # "no"
    IN  \A o \in SelOps : (Due(o) /\ ~Over) ~> (o \notin sel.op \/ Over)

\* The network thread, about to resolve the event it has found in a socket, still has that
\* socket, for free_socket takes it out of the list under the mutex; and a write that it reports
\* done has sent all of its data (tcp_do_write_ec).
SelHeldValid ==
    /\ SelTypeOK
    /\ sel.held # << >> =>
         /\ IF sel.held[1] = "recv" THEN sel.udp \in {"open", "bad"} ELSE sel.tcp = "open"
         /\ sel.held = <<"write", "OK">> => sel.left = 0
=============================================================================
