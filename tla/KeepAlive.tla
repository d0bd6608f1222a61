----------------------------- MODULE KeepAlive ------------------------------
(*****************************************************************************)
(* nc_keep_alive.c as the attacher uses it (keep_alive_event and its         *)
(* helpers in nc_attacher.c): a timed event compares the packet counters of  *)
(* the DTLS connection with those of the last event that saw traffic both    *)
(* ways, sends keep alive requests when there was none, and closes the       *)
(* connection when that does not help.  nc_client_connection.c runs the same *)
(* code for one connection, from nc_keep_alive_init to the end.              *)
(*****************************************************************************)
EXTENDS Naturals

CONSTANTS
    Default,    \* NC_KEEP_ALIVE_DEFAULT_*: [interval, retryInterval, maxRetries]
    Settings,   \* what the basestation may answer in "KeepAlive"
    Modulus,    \* 2^32, of recvCount and sentCount
    Wraps       \* TRUE: a connection may live until a counter wraps

Setting == [interval : Nat, retryInterval : Nat \ {0}, maxRetries : Nat]

ASSUME SettingsAssumption == Default \in Setting /\ Settings \subseteq Setting
ASSUME ModulusAssumption == Modulus \in Nat \ {0} /\ Wraps \in BOOLEAN

VARIABLES
    ka,         \* struct nc_keep_alive_context
    conn,       \* the connection: "setup", "up" (keep alive runs), "timedOut"
    recvCount,  \* of struct np_dtls_cli_context
    sentCount,
    queued,     \* the keep alive packet is in the send list of the DTLS client
    seen        \* history, since the counters were last taken over

vars == <<ka, conn, recvCount, sentCount, queued, seen>>

\* struct nc_keep_alive_context.
Context == [interval : Nat, retryInterval : Nat \ {0}, maxRetries : Nat, n : Nat,
            lastRecvCount : Nat, lastSentCount : Nat, lostKeepAlives : Nat,
            isSending : BOOLEAN]

\* kaInterval / kaRetryInterval: the events to wait before the first request.
N(s) == s.interval \div s.retryInterval

\* seen.got, seen.put: a packet was received, sent; seen.events: keep alive
\* events; seen.probes: keep alive requests; seen.blocked: an event that had to
\* send a request found isSending set.
History == [got : BOOLEAN, put : BOOLEAN, events : Nat, probes : Nat, blocked : BOOLEAN]

NothingSeen == [got |-> FALSE, put |-> FALSE, events |-> 0, probes |-> 0,
                blocked |-> FALSE]

\* nc_keep_alive_init.
Init ==
    /\ ka = [interval |-> Default.interval, retryInterval |-> Default.retryInterval,
             maxRetries |-> Default.maxRetries, n |-> N(Default),
             lastRecvCount |-> 0, lastSentCount |-> 0, lostKeepAlives |-> 0,
             isSending |-> FALSE]
    /\ conn = "setup"
    /\ recvCount = 0 /\ sentCount = 0 /\ queued = FALSE
    /\ seen = NothingSeen

\* nc_keep_alive_set_settings, called by handle_attached.
SetSettings ==
    /\ conn = "setup"
    /\ \E s \in Settings :
          ka' = [ka EXCEPT !.interval = s.interval, !.retryInterval = s.retryInterval,
                           !.maxRetries = s.maxRetries, !.n = N(s)]
    /\ UNCHANGED <<conn, recvCount, sentCount, queued, seen>>

\* nc_keep_alive_wait when the device is attached.
Start ==
    /\ conn = "setup"
    /\ conn' = "up"
    /\ seen' = [seen EXCEPT !.events = 0, !.probes = 0, !.blocked = FALSE]
    /\ UNCHANGED <<ka, recvCount, sentCount, queued>>

\* Mutants of ShouldSend: the counters are swapped; a request is sent one event
\* too late.
ShouldSendSwapped(k) ==
    IF recvCount > k.lastSentCount /\ sentCount > k.lastRecvCount THEN "ALIVE"
    ELSE IF k.lostKeepAlives > k.maxRetries + k.n THEN "KA_TIMEOUT"
    ELSE IF ~k.isSending /\ k.lostKeepAlives + 1 > k.n THEN "SEND_KA"
    ELSE "WAIT"


\* The decision of nc_keep_alive_should_send; DO_NOTHING is "ALIVE" or "WAIT".
ShouldSend(k) ==
    IF recvCount > k.lastRecvCount /\ sentCount > k.lastSentCount THEN "ALIVE"
    ELSE IF k.lostKeepAlives > k.maxRetries + k.n THEN "KA_TIMEOUT"
    ELSE IF ~k.isSending /\ k.lostKeepAlives + 1 > k.n THEN "SEND_KA"
    ELSE "WAIT"

\* keep_alive_event, with what nc_keep_alive_should_send assigns.
Alive ==
    /\ conn = "up"
    /\ ShouldSend(ka) = "ALIVE"
    /\ ka' = [ka EXCEPT !.lostKeepAlives = 0, !.lastRecvCount = recvCount,
                        !.lastSentCount = sentCount]
    /\ seen' = NothingSeen
    /\ UNCHANGED <<conn, recvCount, sentCount, queued>>

\* Mutant of WaitAgain: an event that finds the buffer in use is not counted.
WaitAgainNotCounted ==
    /\ conn = "up"
    /\ ShouldSend(ka) = "WAIT"
    /\ IF ka.isSending
       THEN UNCHANGED <<ka, seen>>
       ELSE /\ ka' = [ka EXCEPT !.lostKeepAlives = @ + 1]
            /\ seen' = [seen EXCEPT !.events = @ + 1]
    /\ UNCHANGED <<conn, recvCount, sentCount, queued>>

WaitAgain ==
    /\ conn = "up"
    /\ ShouldSend(ka) = "WAIT"
    /\ ka' = [ka EXCEPT !.lostKeepAlives = @ + 1]
    /\ seen' = [seen EXCEPT !.events = @ + 1,
                             !.blocked = @ \/ (ka.isSending /\ ka.lostKeepAlives + 1 > ka.n)]
    /\ UNCHANGED <<conn, recvCount, sentCount, queued>>

SendRequest ==
    /\ conn = "up"
    /\ ShouldSend(ka) = "SEND_KA"
    /\ ka' = [ka EXCEPT !.lostKeepAlives = @ + 1, !.isSending = TRUE]
    /\ queued' = TRUE
    /\ seen' = [seen EXCEPT !.events = @ + 1, !.probes = @ + 1]
    /\ UNCHANGED <<conn, recvCount, sentCount>>

TimeOut ==
    /\ conn = "up"
    /\ ShouldSend(ka) = "KA_TIMEOUT"
    /\ conn' = "timedOut"
    /\ UNCHANGED <<ka, recvCount, sentCount, queued, seen>>

Event == Alive \/ WaitAgain \/ SendRequest \/ TimeOut

Open == conn \in {"setup", "up"}

Increment(x) == IF x + 1 = Modulus THEN 0 ELSE x + 1

\* The bound on the counters.  Without Wraps none comes round; with it one does,
\* but never so fast that it meets the value last taken over (2^32 packets
\* between two events).
MayCount(x, last) == IF Wraps THEN Increment(x) # last ELSE x + 1 < Modulus

\* nm_dtls_event_do_one reads a packet; keep_alive_send_response answers a
\* keep alive request unless the one send buffer is in use.
Receive ==
    /\ Open
    /\ MayCount(recvCount, ka.lastRecvCount)
    /\ recvCount' = Increment(recvCount)
    /\ seen' = [seen EXCEPT !.got = TRUE]
    /\ \E request \in BOOLEAN :
          IF request /\ ~ka.isSending
          THEN ka' = [ka EXCEPT !.isSending = TRUE] /\ queued' = TRUE
          ELSE UNCHANGED <<ka, queued>>
    /\ UNCHANGED <<conn, sentCount>>

\* nm_mbedtls_cli_start_send_deferred with a packet of the CoAP client.
SendOther ==
    /\ Open
    /\ MayCount(sentCount, ka.lastSentCount)
    /\ sentCount' = Increment(sentCount)
    /\ seen' = [seen EXCEPT !.put = TRUE]
    /\ UNCHANGED <<ka, conn, recvCount, queued>>

\* Mutant of SendQueued: the failure path does not call the callback.
SendQueuedNoCallback ==
    /\ Open
    /\ queued
    /\ queued' = FALSE
    /\ \/ /\ MayCount(sentCount, ka.lastSentCount)
          /\ sentCount' = Increment(sentCount)
          /\ seen' = [seen EXCEPT !.put = TRUE]
          /\ ka' = [ka EXCEPT !.isSending = FALSE]
       \/ UNCHANGED <<ka, sentCount, seen>>
    /\ UNCHANGED <<conn, recvCount>>

\* nm_mbedtls_cli_start_send_deferred with the keep alive packet: written, or
\* failed; nc_keep_alive_packet_sent is called either way.
SendQueued ==
    /\ Open
    /\ queued
    /\ queued' = FALSE
    /\ ka' = [ka EXCEPT !.isSending = FALSE]
    /\ \/ /\ MayCount(sentCount, ka.lastSentCount)
          /\ sentCount' = Increment(sentCount)
          /\ seen' = [seen EXCEPT !.put = TRUE]
       \/ UNCHANGED <<sentCount, seen>>
    /\ UNCHANGED <<conn, recvCount>>

\* Mutant of Reset: lostKeepAlives is kept.
ResetLostKept ==
    /\ ka' = [ka EXCEPT !.interval = Default.interval,
                        !.retryInterval = Default.retryInterval,
                        !.maxRetries = Default.maxRetries,
                        !.lastRecvCount = 0, !.lastSentCount = 0, !.isSending = FALSE]
    /\ conn' = "setup" /\ queued' = FALSE /\ seen' = NothingSeen
    /\ UNCHANGED <<recvCount, sentCount>>

\* The connection ends: nc_keep_alive_reset, and nm_mbedtls_cli_reset flushes
\* the send list through nc_keep_alive_packet_sent.  The counters of the DTLS
\* client and n are not set back.
Reset ==
    /\ ka' = [ka EXCEPT !.interval = Default.interval,
                        !.retryInterval = Default.retryInterval,
                        !.maxRetries = Default.maxRetries,
                        !.lastRecvCount = 0, !.lastSentCount = 0, !.lostKeepAlives = 0,
                        !.isSending = IF queued THEN FALSE ELSE ka.isSending]
    /\ conn' = "setup" /\ queued' = FALSE /\ seen' = NothingSeen
    /\ UNCHANGED <<recvCount, sentCount>>

Next == SetSettings \/ Start \/ Event \/ Receive \/ SendOther \/ SendQueued \/ Reset

Spec == Init /\ [][Next]_vars

\* The timed event is posted again by every event but the last.
LiveSpec == Spec /\ WF_vars(Event)

-----------------------------------------------------------------------------
\* The fields of nc_keep_alive_context and the counters of the DTLS client keep
\* their types; lostKeepAlives never goes below zero.
TypeOK ==
    /\ ka \in Context
    /\ conn \in {"setup", "up", "timedOut"}
    /\ recvCount \in 0..(Modulus - 1) /\ sentCount \in 0..(Modulus - 1)
    /\ queued \in BOOLEAN
    /\ seen \in History

\* isSending is set exactly while the one send buffer is in the send list of
\* the DTLS client: nc_keep_alive_create_request and
\* nc_keep_alive_handle_request never overwrite a packet that waits there, and
\* keep alive is never silenced for good.
BufferOwned == ka.isSending = queued

\* The one send buffer is DTLS's or keep alive's, never both's (BufferOwned), and
\* the context keeps its types (TypeOK).
BufferKept == TypeOK /\ BufferOwned

\* keep_alive_event closes a connection only after n + kaMaxRetries + 1 events
\* in a row of this connection that saw no traffic both ways.
TimeoutAfterSilence ==
    [][conn = "up" /\ conn' = "timedOut" => seen.events = ka.n + ka.maxRetries + 1]_vars

\* Before that, kaMaxRetries retransmissions of a first keep alive request
\* were handed to DTLS, unless an earlier packet blocked the send buffer.
ProbedFirst ==
    [][conn = "up" /\ conn' = "timedOut"
          => seen.probes = ka.maxRetries + 1 \/ seen.blocked]_vars

\* A connection is given up only for a reason: the full silence
\* (TimeoutAfterSilence) and the full number of requests (ProbedFirst), both
\* counted since this connection began (keep_alive_event).
TimeoutJustified == TimeoutAfterSilence /\ ProbedFirst

\* A peer that is heard, on a connection that is sent on, is kept: every
\* received and every sent packet counts (nc_keep_alive_should_send).
ActivePeerKept ==
    [][conn = "up" /\ conn' = "timedOut" => ~(seen.got /\ seen.put)]_vars

\* A peer that falls silent is noticed.
DeadPeerDetected == <>[][~Receive]_vars => (conn = "up" ~> conn # "up")

=============================================================================
