------------------------------ MODULE Attacher ------------------------------
(****************************************************************************)
(* The attacher of a Nabto Edge device: the part of the core that keeps     *)
(* the device registered ("attached") with the basestation.  It is          *)
(* nc_attacher.c with its three CoAP requests (nc_attacher_attach_start.c,  *)
(* nc_attacher_sct.c, nc_attacher_attach_end.c), on top of the DTLS client  *)
(* of nm_mbedtls_cli.c, the CoAP client of nc_coap_client.c and the timers  *)
(* and posted events of the event queue.                                    *)
(*                                                                          *)
(* The C code runs a handler to completion, and handlers call each other    *)
(* synchronously: closing the DTLS connection may deliver the CLOSED event  *)
(* before dtls_cli_close returns.  A handler is therefore an operator from  *)
(* the context before it to the context after it, handlers compose as they  *)
(* do in C, and an action is one event taken from the event queue, or one   *)
(* call of the API, run to its end.  Parameters of these operators are the  *)
(* answers of code outside the repository: `snd` - mbedtls hands a datagram *)
(* to the sender during the call, `oom` - a request could not be created.   *)
(****************************************************************************)
EXTENDS Naturals, FiniteSets

CONSTANTS
    MaxRedirectFollow,  \* MAX_REDIRECT_FOLLOW
    EofPossible,        \* TRUE: mbedtls_ssl_read may return 0
    MaxVersion,         \* bound: server connect tokens added
    MaxCalls            \* bound: calls of close and stop

ASSUME RedirectAssumption == MaxRedirectFollow \in Nat \ {0}
ASSUME SwitchAssumption == EofPossible \in BOOLEAN
ASSUME BoundAssumption == MaxVersion \in Nat /\ MaxCalls \in Nat

ModuleStates == {"SETUP", "RUNNING", "CLOSED"}
AttachStates == {"DNS", "DTLS_ATTACH_REQUEST", "RETRY_WAIT",
                 "ACCESS_DENIED_WAIT", "REDIRECT", "ATTACHED", "CLOSED"}
WaitStates == {"RETRY_WAIT", "ACCESS_DENIED_WAIT"}
SslStates == {"CONNECTING", "DATA", "CLOSING"}
Requests == {"start", "sct", "end"}

VARIABLES
    ctx,    \* struct nc_attach_context and what it points to
    calls   \* calls of async_close and stop so far

vars == <<ctx, calls>>

(***************************************************************************)
(* Fields of ctx.                                                           *)
(*   moduleState, state, redirectAttempts, closedCb (is it set?)             *)
(*   dnsPending      DNS resolutions started and not yet completed           *)
(*   reattachTimer, keepAlive   is the timed event in the event queue?       *)
(*   closeEv         is the event posted?                                    *)
(*   taken           timed event the queue thread has taken and not yet run  *)
(*   dtls, sending   np_dtls_cli_context: state, sending                     *)
(*   udpSent         nm_dtls_udp_send_callback is posted, or will be after   *)
(*                   the last of the initial endpoints                       *)
(*   callback        startCallback, sctContext.callback and endCallback:     *)
(*                   "NULL", or who continues: "attach" or "sctOnly"         *)
(*   req, orphan     CoAP requests waiting for a response, and those whose   *)
(*                   connection was removed and whose handler is posted      *)
(*   version, uploadingVersion, synchronizedVersion   of sctContext          *)
(* and five history fields:                                                 *)
(*   body            version of the token set encoded in the sct request     *)
(*   accepted        version of the token set the basestation accepted last  *)
(*   sctFailed       since ATTACHED an upload failed or could not be started *)
(*   contacted       a first connection was begun                            *)
(*   lastEvent       last event given to the device event listener           *)
(***************************************************************************)
Context ==
    [moduleState : ModuleStates, state : AttachStates,
     redirectAttempts : Nat, closedCb : BOOLEAN,
     dnsPending : Nat, reattachTimer : BOOLEAN, keepAlive : BOOLEAN,
     closeEv : BOOLEAN, taken : {"none", "reattach", "keepAlive"},
     dtls : SslStates, sending : BOOLEAN, udpSent : BOOLEAN,
     callback : [Requests -> {"NULL", "attach", "sctOnly"}],
     req : SUBSET Requests, orphan : SUBSET Requests,
     version : Nat, uploadingVersion : Nat, synchronizedVersion : Nat,
     body : Nat, accepted : Nat, sctFailed : BOOLEAN,
     contacted : BOOLEAN, lastEvent : {"NONE", "ATTACHED", "DETACHED"}]

\* nc_attacher_init: the DTLS context is zeroed, so its state is CONNECTING.
Init ==
    /\ ctx = [moduleState |-> "SETUP", state |-> "DNS",
              redirectAttempts |-> 0, closedCb |-> FALSE,
              dnsPending |-> 0, reattachTimer |-> FALSE, keepAlive |-> FALSE,
              closeEv |-> FALSE, taken |-> "none",
              dtls |-> "CONNECTING", sending |-> FALSE, udpSent |-> FALSE,
              callback |-> [r \in Requests |-> "NULL"],
              req |-> {}, orphan |-> {},
              version |-> 0, uploadingVersion |-> 0, synchronizedVersion |-> 0,
              body |-> 0, accepted |-> 0, sctFailed |-> FALSE,
              contacted |-> FALSE, lastEvent |-> "NONE"]
    /\ calls = 0

-----------------------------------------------------------------------------
(* State changes and the end of a DTLS connection *)

\* Mutant of StateChange: no timer is posted for ACCESS_DENIED_WAIT.
StateChangeNoTimer(c, st) ==
    LET d == [c EXCEPT !.state = st] IN
    CASE st = "DNS"         -> [d EXCEPT !.dnsPending = @ + 1]
      [] st = "CLOSED"      -> [d EXCEPT !.closeEv = TRUE]
      [] st = "RETRY_WAIT"  -> [d EXCEPT !.reattachTimer = TRUE]
      [] OTHER              -> d

\* Assign a new state and run handle_state_change.  The connect of
\* DTLS_ATTACH_REQUEST is in Connect below.
StateChange(c, st) ==
    LET d == [c EXCEPT !.state = st] IN
    CASE st = "DNS"         -> [d EXCEPT !.dnsPending = @ + 1]
      [] st = "CLOSED"      -> [d EXCEPT !.closeEv = TRUE]
      [] st \in WaitStates  -> [d EXCEPT !.reattachTimer = TRUE]
      [] OTHER              -> d

\* nabto_coap_client_remove_connection: the requests of the connection will
\* get their handler called, without a response, from a posted event.
RemoveConnection(c) == [c EXCEPT !.orphan = @ \cup c.req, !.req = {}]

\* The end of a connection while the module runs: nc_keep_alive_reset, the
\* CoAP client forgets the connection, nm_mbedtls_cli_reset.
ResetConnection(c) == RemoveConnection([c EXCEPT !.keepAlive = FALSE])

\* Mutants of HandleDtlsClosed: one redirect too many; the default case resolves
\* at once.
HandleDtlsClosedExtraRedirect(c) ==
    StateChange(c, IF c.state = "REDIRECT" /\ c.redirectAttempts <= MaxRedirectFollow
                   THEN "DNS" ELSE "RETRY_WAIT")

HandleDtlsClosedEager(c) ==
    StateChange(c, IF c.state \in {"DTLS_ATTACH_REQUEST", "ATTACHED"}
                   THEN "RETRY_WAIT" ELSE "DNS")

\* handle_dtls_closed after the reset.
HandleDtlsClosed(c) ==
    CASE c.state = "ATTACHED" ->
            StateChange([c EXCEPT !.lastEvent = "DETACHED"], "RETRY_WAIT")
      [] c.state = "REDIRECT" ->
            StateChange(c, IF c.redirectAttempts >= MaxRedirectFollow
                           THEN "RETRY_WAIT" ELSE "DNS")
      [] c.state = "ACCESS_DENIED_WAIT" -> c
      [] OTHER -> StateChange(c, "RETRY_WAIT")

\* dtls_event_handler for NP_DTLS_CLI_EVENT_CLOSED.
DtlsClosed(c) ==
    IF c.moduleState = "CLOSED"
    THEN StateChange(c, "CLOSED")
    ELSE HandleDtlsClosed(ResetConnection(c))

\* Mutant of DtlsAccessDenied: handle_state_change is not called.
DtlsAccessDeniedNoStateChange(c) ==
    IF c.moduleState = "CLOSED" THEN StateChange(c, "CLOSED")
    ELSE [ResetConnection(c) EXCEPT !.state = "ACCESS_DENIED_WAIT"]

\* dtls_event_handler for NP_DTLS_CLI_EVENT_ACCESS_DENIED.
DtlsAccessDenied(c) ==
    IF c.moduleState = "CLOSED"
    THEN StateChange(c, "CLOSED")
    ELSE StateChange(ResetConnection(c), "ACCESS_DENIED_WAIT")

\* nm_dtls_mbedtls_send when mbedtls has a datagram and the send buffer is
\* free; dtls_packet_sender always accepts it.
Send(c, snd) ==
    IF snd THEN [c EXCEPT !.sending = TRUE, !.udpSent = TRUE] ELSE c

\* dtls_cli_close: the close_notify alert may be handed to UDP; CLOSED is
\* delivered here, or by the send callback when a send is in flight.
DtlsClose(c, snd) ==
    LET d == Send([c EXCEPT !.dtls = "CLOSING"], snd) IN
    IF c.dtls = "CLOSING" THEN c
    ELSE IF d.sending THEN d ELSE DtlsClosed(d)

-----------------------------------------------------------------------------
(* The CoAP requests of an attach: start, server connect tokens, end *)

Busy(c, r) == c.callback[r] # "NULL"

\* The tail of the three request functions: remember the continuation and
\* send.
SendRequest(c, r, cb) ==
    [c EXCEPT !.callback[r] = cb, !.req = @ \cup {r}]

\* The head of the three response handlers: the request is freed and its
\* callback slot cleared before the continuation is called.
Completed(c, r) ==
    [c EXCEPT !.callback[r] = "NULL", !.req = @ \ {r}, !.orphan = @ \ {r}]

SctSynchronized(c) == c.version = c.synchronizedVersion

SctUpload(c, cb) ==
    SendRequest([c EXCEPT !.uploadingVersion = c.version, !.body = c.version],
                "sct", cb)

SendAttachStartRequest(c, oom, snd) ==
    IF Busy(c, "start") \/ oom
    THEN DtlsClose(c, snd)
    ELSE SendRequest(c, "start", "attach")

SendAttachEndRequest(c, oom, snd) ==
    IF Busy(c, "end") \/ oom
    THEN DtlsClose(c, snd)
    ELSE SendRequest(c, "end", "attach")

SendAttachSctRequest(c, oom, snd) ==
    IF SctSynchronized(c) THEN SendAttachEndRequest(c, oom, snd)
    ELSE IF Busy(c, "sct") \/ oom THEN DtlsClose(c, snd)
    ELSE SctUpload(c, "attach")

SendSctRequest(c, oom) ==
    IF SctSynchronized(c) \/ Busy(c, "sct") THEN c
    ELSE IF oom THEN [c EXCEPT !.sctFailed = TRUE]
    ELSE SctUpload(c, "sctOnly")

\* coap_attach_start_handler and coap_attach_start_callback.
AttachStartDone(c, status, oom, snd) ==
    LET d == Completed(c, "start") IN
    IF d.moduleState = "CLOSED" \/ status = "ERROR" THEN DtlsClose(d, snd)
    ELSE IF status = "REDIRECT"
    THEN DtlsClose([d EXCEPT !.state = "REDIRECT",
                             !.redirectAttempts = @ + 1], snd)
    ELSE SendAttachSctRequest(d, oom, snd)

\* sct_request_handler, then send_attach_sct_request_callback or
\* send_sct_request_callback.
SctDone(c, ok, oom, snd) ==
    LET d == Completed(IF ok THEN [c EXCEPT !.synchronizedVersion =
                                                c.uploadingVersion]
                             ELSE c, "sct")
    IN  IF c.callback["sct"] = "attach"
        THEN IF d.moduleState = "CLOSED" \/ ~ok
             THEN DtlsClose(d, snd)
             ELSE SendAttachEndRequest(d, oom, snd)
        ELSE IF ok THEN SendSctRequest(d, oom)
             ELSE [d EXCEPT !.sctFailed = TRUE]

\* Mutant of AttachEndDone: tokens added during the attach are not looked for.
AttachEndDoneNoSct(c, ok, oom, snd) ==
    LET d == Completed(c, "end") IN
    IF ~ok \/ d.moduleState = "CLOSED" THEN DtlsClose(d, snd)
    ELSE StateChange([d EXCEPT !.keepAlive = TRUE, !.lastEvent = "ATTACHED",
                               !.sctFailed = FALSE], "ATTACHED")

\* coap_attach_end_handler.
AttachEndDone(c, ok, oom, snd) ==
    LET d == Completed(c, "end") IN
    IF ~ok \/ d.moduleState = "CLOSED"
    THEN DtlsClose(d, snd)
    ELSE SendSctRequest(
            StateChange([d EXCEPT !.keepAlive = TRUE, !.lastEvent = "ATTACHED",
                                  !.sctFailed = FALSE], "ATTACHED"), oom)

\* The handler of request r called without a response: the connection is
\* gone or the CoAP client gave up retransmitting.
NoResponse(c, r, oom, snd) ==
    CASE r = "start" -> AttachStartDone(c, "ERROR", oom, snd)
      [] r = "sct"   -> SctDone(c, FALSE, oom, snd)
      [] r = "end"   -> AttachEndDone(c, FALSE, oom, snd)

-----------------------------------------------------------------------------
(* One step of the DTLS client: nm_dtls_event_do_one *)

\* NP_DTLS_CLI_EVENT_HANDSHAKE_COMPLETE.
DtlsConnected(c, alpn, oom, snd) ==
    IF c.moduleState = "CLOSED" \/ ~alpn
    THEN DtlsClose(c, snd)
    ELSE SendAttachStartRequest(c, oom, snd)

\* mbedtls_ssl_handshake: unfinished, access denied, failed or complete.
Handshake(c) ==
    \E snd \in BOOLEAN :
        LET d == Send(c, snd) IN
        \/ ctx' = d
        \/ ctx' = DtlsAccessDenied([d EXCEPT !.dtls = "CLOSING"])
        \/ ctx' = DtlsClosed([d EXCEPT !.dtls = "CLOSING"])
        \/ \E alpn, oom \in BOOLEAN :
              ctx' = DtlsConnected([d EXCEPT !.dtls = "DATA"], alpn, oom, snd)

\* A CoAP response: nc_coap_client_handle_packet calls the handler.
Response(c) ==
    \E oom, snd \in BOOLEAN :
        \/ /\ "start" \in c.req
           /\ \E status \in {"ATTACHED", "REDIRECT", "ERROR"} :
                 ctx' = AttachStartDone(c, status, oom, snd)
        \/ /\ "sct" \in c.req
           /\ \/ ctx' = SctDone([c EXCEPT !.accepted = c.body], TRUE, oom, snd)
              \/ ctx' = SctDone(c, FALSE, oom, snd)
        \/ /\ "end" \in c.req
           /\ \E ok \in BOOLEAN : ctx' = AttachEndDone(c, ok, oom, snd)

\* mbedtls_ssl_read: nothing for the attacher, access denied (the state stays
\* DATA), an error, end of file, or a CoAP response.
ReadData(c) ==
    \/ \E snd \in BOOLEAN :
          LET d == Send(c, snd) IN
          \/ ctx' = d
          \/ ctx' = DtlsAccessDenied(d)
          \/ ctx' = DtlsClosed([d EXCEPT !.dtls = "CLOSING"])
          \/ EofPossible /\ ctx' = [d EXCEPT !.dtls = "CLOSING"]
    \/ Response(c)

DoOne(c) ==
    \/ c.dtls = "CONNECTING" /\ Handshake(c)
    \/ c.dtls = "DATA" /\ ReadData(c)

-----------------------------------------------------------------------------
(* Events run by the event queue thread *)

\* The queue thread is between two events.
Free == ctx.taken = "none"

\* Mutant of TimersMayRun: due timed events go before the posted events of
\* the CoAP client.
TimersFirst == Free /\ ~ctx.closeEv /\ ~ctx.udpSent

\* queue_thread takes a timed event only when no event is posted.
TimersMayRun == Free /\ ~ctx.closeEv /\ ~ctx.udpSent /\ ctx.orphan = {}

HasConnection == ctx.state \in {"DTLS_ATTACH_REQUEST", "REDIRECT", "ATTACHED"}

\* nc_attacher_start, called by nc_device_udp_bound_cb unless the device was
\* stopped before.
Start ==
    /\ Free
    /\ ctx.moduleState = "SETUP"
    /\ calls = 0
    /\ ctx' = StateChange([ctx EXCEPT !.moduleState = "RUNNING"], "DNS")
    /\ UNCHANGED calls

\* nm_dtls_connect from handle_state_change: the first step of the handshake
\* is made at once.
Connect(c, snd) ==
    Send([c EXCEPT !.state = "DTLS_ATTACH_REQUEST", !.dtls = "CONNECTING",
                   !.sending = FALSE, !.contacted = TRUE], snd)

\* dns_resolved_callback.
DnsResolved ==
    /\ Free
    /\ ctx.dnsPending > 0
    /\ LET d == [ctx EXCEPT !.dnsPending = @ - 1] IN
       IF ctx.moduleState = "CLOSED"
       THEN ctx' = StateChange(d, "CLOSED")
       ELSE \/ ctx' = StateChange(d, "RETRY_WAIT")
            \/ \E snd \in BOOLEAN :
                 \/ ctx' = Connect(d, snd)
                 \/ ctx' = DtlsClosed([Connect(d, snd) EXCEPT !.dtls = "CLOSING"])
    /\ UNCHANGED calls

\* nc_attacher_handle_dtls_packet.  A datagram may be late and find the
\* connection gone, with two limits the code does not enforce: nobody knows
\* the address of the device before it sent a datagram, and no datagram of a
\* connection arrives after the wait before the next attach (10 s or 1 h).
PacketReceived ==
    /\ Free
    /\ ctx.contacted
    /\ ctx.state # "DNS"
    /\ DoOne(ctx)
    /\ UNCHANGED calls

\* nm_dtls_udp_send_callback.
UdpSendCallback ==
    /\ Free
    /\ ctx.udpSent
    /\ LET d == [ctx EXCEPT !.sending = FALSE, !.udpSent = FALSE] IN
       \/ ctx.dtls = "CLOSING" /\ ctx' = DtlsClosed(d)
       \/ DoOne(d)
    /\ UNCHANGED calls

\* nm_dtls_timed_event_do_one: the retransmission timer of a handshake, also
\* of the one that mbedtls_ssl_read makes after an access denied reset the
\* session of a connection in state DATA.
DtlsTimer ==
    /\ TimersMayRun
    /\ \/ ctx.dtls = "CONNECTING" /\ HasConnection
       \/ ctx.dtls = "DATA" /\ ctx.state = "ACCESS_DENIED_WAIT"
    /\ DoOne(ctx)
    /\ UNCHANGED calls

\* nm_mbedtls_cli_start_send_deferred with a packet in the send list.
StartSend ==
    /\ Free
    /\ HasConnection
    /\ ctx.dtls = "DATA"
    /\ ~ctx.sending
    /\ ctx' = Send(ctx, TRUE)
    /\ UNCHANGED calls

\* The CoAP client calls the handler of a request of a removed connection.
CoapConnectionRemoved ==
    /\ Free
    /\ \E r \in ctx.orphan : \E oom, snd \in BOOLEAN :
          ctx' = NoResponse(ctx, r, oom, snd)
    /\ UNCHANGED calls

\* nc_coap_client_handle_timeout: a request was retransmitted in vain.
CoapTimeout ==
    /\ TimersMayRun
    /\ \E r \in ctx.req : \E oom, snd \in BOOLEAN :
          ctx' = NoResponse(ctx, r, oom, snd)
    /\ UNCHANGED calls

\* resolve_close.
ResolveClose ==
    /\ Free
    /\ ctx.closeEv
    /\ ctx' = [ctx EXCEPT !.closeEv = FALSE, !.reattachTimer = FALSE,
                          !.closedCb = FALSE]
    /\ UNCHANGED calls

\* queue_thread takes a due timed event under queueMutex and runs it under
\* coreMutex: a call of the API may come in between, and np_event_queue_cancel
\* no longer finds the event.
TakeTimedEvent ==
    /\ TimersMayRun
    /\ \/ /\ ctx.reattachTimer
          /\ ctx' = [ctx EXCEPT !.reattachTimer = FALSE, !.taken = "reattach"]
       \/ /\ ctx.keepAlive
          /\ ctx' = [ctx EXCEPT !.keepAlive = FALSE, !.taken = "keepAlive"]
    /\ UNCHANGED calls

\* reattach.
Reattach ==
    /\ ctx.taken = "reattach"
    /\ LET d == [ctx EXCEPT !.taken = "none"] IN
       ctx' = IF d.moduleState = "CLOSED"
              THEN StateChange(d, "CLOSED")
              ELSE StateChange([d EXCEPT !.redirectAttempts = 0], "DNS")
    /\ UNCHANGED calls

\* keep_alive_event: wait again, or the connection timed out.
KeepAliveEvent ==
    /\ ctx.taken = "keepAlive"
    /\ LET d == [ctx EXCEPT !.taken = "none"] IN
       \/ ctx' = [d EXCEPT !.keepAlive = TRUE]
       \/ \E snd \in BOOLEAN : ctx' = DtlsClose(d, snd)
    /\ UNCHANGED calls

-----------------------------------------------------------------------------
(* Calls of the API, between two handlers of the queue thread *)

\* Mutants of DoClose: a close in state DNS is answered at once; a close in
\* state CLOSED is not answered.
DoCloseEarly(c, snd) ==
    LET d == [c EXCEPT !.moduleState = "CLOSED"] IN
    IF c.moduleState = "SETUP" \/ c.state = "CLOSED" THEN [c EXCEPT !.closeEv = TRUE]
    ELSE IF c.state \in WaitStates \cup {"DNS"} THEN StateChange(d, "CLOSED")
    ELSE DtlsClose(d, snd)

DoCloseOnce(c, snd) ==
    LET d == [c EXCEPT !.moduleState = "CLOSED"] IN
    IF c.moduleState = "SETUP" THEN [c EXCEPT !.closeEv = TRUE]
    ELSE IF c.state \in WaitStates
    THEN StateChange([d EXCEPT !.reattachTimer = FALSE], "CLOSED")
    ELSE IF c.state \in {"DTLS_ATTACH_REQUEST", "ATTACHED"} THEN DtlsClose(d, snd)
    ELSE d

\* do_close.
DoClose(c, snd) ==
    LET d == [c EXCEPT !.moduleState = "CLOSED"] IN
    CASE c.moduleState = "SETUP" -> [c EXCEPT !.closeEv = TRUE]
      [] c.moduleState # "SETUP" /\ c.state \in WaitStates ->
            StateChange([d EXCEPT !.reattachTimer = FALSE], "CLOSED")
      [] c.moduleState # "SETUP" /\ c.state = "CLOSED" ->
            [d EXCEPT !.closeEv = TRUE]
      [] c.moduleState # "SETUP" /\ c.state \in {"DTLS_ATTACH_REQUEST", "ATTACHED"} ->
            DtlsClose(d, snd)
      [] OTHER -> d

\* nc_attacher_async_close.
AsyncClose ==
    /\ calls < MaxCalls
    /\ calls' = calls + 1
    /\ \E snd \in BOOLEAN : ctx' = DoClose([ctx EXCEPT !.closedCb = TRUE], snd)

\* nc_attacher_stop.
Stop ==
    /\ calls < MaxCalls
    /\ calls' = calls + 1
    /\ \E snd \in BOOLEAN : ctx' = DoClose([ctx EXCEPT !.keepAlive = FALSE], snd)

\* nc_attacher_add_server_connect_token; the version counts up even when the
\* token could not be stored.
AddServerConnectToken ==
    /\ ctx.version < MaxVersion
    /\ \E stored, oom \in BOOLEAN :
          LET d == [ctx EXCEPT !.version = @ + 1] IN
          ctx' = IF ~stored THEN [d EXCEPT !.sctFailed = TRUE]
                 ELSE IF ctx.state = "ATTACHED" THEN SendSctRequest(d, oom)
                 ELSE d
    /\ UNCHANGED calls

QueueEvent ==
    \/ Start \/ DnsResolved \/ PacketReceived \/ UdpSendCallback \/ DtlsTimer
    \/ StartSend \/ CoapConnectionRemoved \/ CoapTimeout \/ ResolveClose
    \/ TakeTimedEvent \/ Reattach \/ KeepAliveEvent

Next == QueueEvent \/ AsyncClose \/ Stop \/ AddServerConnectToken

Spec == Init /\ [][Next]_vars

(***************************************************************************)
(* Fairness.  A posted event is run (the queue thread never stops), a        *)
(* resolution completes and an event that was taken is run.  A timer fires   *)
(* in the end although posted events keep going first (SF): mbedtls gives a  *)
(* handshake up after a bounded number of retransmissions, and the CoAP      *)
(* client a request.                                                         *)
(***************************************************************************)
Fairness ==
    /\ WF_vars(UdpSendCallback) /\ WF_vars(DnsResolved) /\ WF_vars(ResolveClose)
    /\ WF_vars(CoapConnectionRemoved)
    /\ WF_vars(Reattach) /\ WF_vars(KeepAliveEvent)
    /\ SF_vars(TakeTimedEvent /\ ctx'.taken = "reattach")
    /\ SF_vars(DtlsTimer /\ ctx'.dtls # "CONNECTING")
    /\ SF_vars(CoapTimeout)

LiveSpec == Spec /\ Fairness

-----------------------------------------------------------------------------
(* Properties *)

\* Every field of struct nc_attach_context keeps its type.
TypeOK == ctx \in Context /\ calls \in 0..MaxCalls

\* The attacher never waits for nothing: in every state it can be in after
\* nc_attacher_start an event that moves it on is due.  A resolution in DNS,
\* the reattach timer in the two wait states, the send callback of a closing
\* connection, an outstanding request during the attach, the keep alive timer
\* while ATTACHED, and closeEv when a closed callback is owed.
WakeupPending ==
    LET c == ctx IN c.moduleState # "SETUP" =>
    /\ c.state = "DNS" => c.dnsPending > 0
    /\ c.state \in WaitStates => c.reattachTimer \/ c.taken = "reattach"
    /\ c.state = "REDIRECT" => c.dtls = "CLOSING"
    /\ HasConnection =>
         \/ c.dtls = "CONNECTING" /\ c.state = "DTLS_ATTACH_REQUEST"
         \/ c.dtls = "CLOSING" /\ c.udpSent
         \/ c.dtls = "DATA" /\ c.state = "DTLS_ATTACH_REQUEST" /\ c.req # {}
         \/ /\ c.dtls = "DATA" /\ c.state = "ATTACHED"
            /\ c.keepAlive \/ c.taken = "keepAlive"
    /\ c.state = "CLOSED" /\ c.closedCb => c.closeEv

\* dns_start_resolve is never called while a resolution is outstanding, which
\* would overwrite ctx->dns, dnsMultiResolver and resolveCompletionEvent under
\* it, and the outstanding one always belongs to the state DNS.
SingleResolution ==
    /\ ctx.dnsPending <= 1
    /\ ctx.dnsPending = 1 => ctx.state = "DNS"

\* The flag `sending`, which decides whether dtls_cli_close delivers CLOSED at
\* once, says that the send callback is due: nm_dtls_connect clears it only
\* when no send is in flight.
SendingFlag == ctx.sending = ctx.udpSent

\* A callback slot is set exactly while its request is outstanding, so no
\* handler calls a NULL continuation and no slot stays busy for ever, and the
\* attach has at most one request outstanding.
CallbackSlots ==
    /\ \A r \in Requests : Busy(ctx, r) <=> r \in ctx.req \cup ctx.orphan
    /\ \A r, q \in ctx.req \cup ctx.orphan : r = q
    /\ ctx.req \cap ctx.orphan = {}

\* The handler of a request whose connection was removed runs before the next
\* attach begins: its coap_attach_failed never closes a new connection.
NoStaleHandler == ctx.orphan # {} => ctx.state \in WaitStates \cup {"CLOSED"}

\* synchronizedVersion is the version of the token set that the basestation
\* accepted last, whatever tokens are added while an upload is under way.
SctNeverAhead == ctx.synchronizedVersion = ctx.accepted

\* While attached, a token that the basestation does not have is being
\* uploaded, unless an upload failed since the attach.
SctNotForgotten ==
    ctx.moduleState = "RUNNING" /\ ctx.state = "ATTACHED" /\ ~SctSynchronized(ctx)
        => Busy(ctx, "sct") \/ ctx.sctFailed

\* A redirect loop ends: after MAX_REDIRECT_FOLLOW redirects the attacher does
\* not connect again before a wait has set redirectAttempts back.
RedirectBound ==
    /\ ctx.redirectAttempts <= MaxRedirectFollow
    /\ ctx.state \in {"DNS", "DTLS_ATTACH_REQUEST", "ATTACHED"} =>
         ctx.redirectAttempts < MaxRedirectFollow

\* The flags and counters by which the handlers decide agree with what is
\* outstanding, on every path: the send in flight (SendingFlag), the requests
\* (CallbackSlots), the redirects since the last wait (RedirectBound); and each
\* keeps its type.
FlagsAgree == TypeOK /\ SendingFlag /\ CallbackSlots /\ RedirectBound

\* Server connect tokens are neither marked as synchronized before the
\* basestation has them nor forgotten while the device is attached
\* (SctNeverAhead, SctNotForgotten; send_sct_request_callback, nc_attacher_sct).
TokenSync == SctNeverAhead /\ SctNotForgotten

\* Once the module is CLOSED no event restarts it: no new resolution, no new
\* connection, no request of an attach, no event to the listener.
ClosedStaysClosed ==
    [][ctx.moduleState = "CLOSED" =>
          /\ ctx'.moduleState = "CLOSED"
          /\ ctx'.dnsPending <= ctx.dnsPending
          /\ ctx'.dtls = "CONNECTING" => ctx.dtls = "CONNECTING"
          /\ ctx'.req \subseteq ctx.req \cup {"sct"}
          /\ ctx'.lastEvent = ctx.lastEvent]_vars

\* When resolve_close calls the closed callback, after which the caller may
\* deinit the attacher, no resolution is outstanding and no reattach is due.
CloseQuiescent ==
    [][ctx.closedCb /\ ~ctx'.closedCb =>
          /\ ctx'.moduleState = "SETUP" \/ ctx'.state = "CLOSED"
          /\ ctx'.dnsPending = 0
          /\ ~ctx'.reattachTimer /\ ctx'.taken # "reattach"]_vars

\* A closed attacher stays closed, and is quiet when its caller is told so
\* (ClosedStaysClosed, CloseQuiescent; nc_attacher_async_close, resolve_close).
ClosedForever == ClosedStaysClosed /\ CloseQuiescent

\* nc_attacher_async_close calls its callback in the end.
CloseCompletes == ctx.closedCb ~> ~ctx.closedCb

\* An attach attempt ends: attached, redirected, failed or closed.
AttachConcludes ==
    ctx.state = "DTLS_ATTACH_REQUEST" ~> ctx.state # "DTLS_ATTACH_REQUEST"

\* After a failed attempt the device tries again, or it is closed.
Retries == ctx.state \in WaitStates ~> ctx.state \in {"DNS", "CLOSED"}

\* The attacher is stuck in no state: an attempt ends, and the wait after it too
\* (AttachConcludes, Retries; handle_state_change, reattach).
AttachGoesOn == AttachConcludes /\ Retries

-----------------------------------------------------------------------------
(* Statements of the documentation and of comments that the code contradicts *)

\* nabto_device.h on the event DETACHED: a running device that is no longer
\* attached after it has been attached has reported DETACHED.
DetachReported ==
    ctx.moduleState = "RUNNING" /\ ctx.lastEvent = "ATTACHED"
        => ctx.state = "ATTACHED"

\* handle_dtls_closed: when the peer closes the DTLS connection the attacher
\* is told, so a connection that is CLOSING has a CLOSED event due.
PeerCloseReported ==
    HasConnection /\ ctx.dtls = "CLOSING" => ctx.udpSent
=============================================================================
