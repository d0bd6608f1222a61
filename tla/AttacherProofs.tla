--------------------------- MODULE AttacherProofs ---------------------------
(***************************************************************************)
(* Proofs about the attacher.  The inductive invariant has two parts.      *)
(* Base holds also in the middle of a handler, between two of the C        *)
(* functions it calls; Settled holds between handlers only.  Each operator *)
(* of Attacher gets a lemma that says under which condition it preserves   *)
(* Base, and whether it also establishes Settled; an action composes them. *)
(***************************************************************************)
EXTENDS Attacher, TLAPS

\* What a leaf is tried with, in this order, unless it names a prover of its own.
USE SMTT(30), Zenon, SMTT(60)

Connected(c) == c.state \in {"DTLS_ATTACH_REQUEST", "REDIRECT", "ATTACHED"}

\* Before nc_attacher_start nothing has happened but closes.
SetupInv(c) ==
    c.moduleState = "SETUP" =>
        /\ c.state = "DNS" /\ c.dnsPending = 0 /\ c.redirectAttempts = 0
        /\ ~c.contacted /\ c.taken = "none"
        /\ c.closedCb => c.closeEv

\* What is in the event queue.
QueueInv(c) ==
    /\ c.state = "DNS" /\ c.moduleState # "SETUP" => c.dnsPending = 1
    /\ c.state # "DNS" => c.dnsPending = 0
    /\ c.state \in WaitStates =>
         c.moduleState = "RUNNING" /\ (c.reattachTimer \/ c.taken = "reattach")
    /\ c.reattachTimer => c.state \in WaitStates /\ c.taken # "reattach"
    /\ c.taken = "reattach" =>
         /\ c.state \in WaitStates \cup {"CLOSED"}
         /\ c.state \in WaitStates => ~c.udpSent /\ c.orphan = {}
    /\ c.keepAlive \/ c.taken = "keepAlive" =>
         c.contacted /\ c.state \in {"ATTACHED", "CLOSED"}
    /\ c.state = "CLOSED" => c.moduleState = "CLOSED"
    /\ c.state = "CLOSED" /\ c.closedCb => c.closeEv
    /\ c.closeEv => c.moduleState = "SETUP" \/ c.state = "CLOSED"

\* The DTLS connection.
DtlsInv(c) ==
    /\ c.sending = c.udpSent
    /\ c.udpSent => c.contacted /\ c.state # "DNS"
    /\ Connected(c) \/ c.dtls # "CONNECTING" => c.contacted
    /\ c.dtls = "CONNECTING" /\ c.contacted =>
         c.state = "DTLS_ATTACH_REQUEST" /\ c.req = {}
    /\ Connected(c) /\ c.dtls # "CLOSING" => c.moduleState = "RUNNING"

\* The requests of the CoAP client.
RequestInv(c) ==
    /\ \A r \in Requests : c.callback[r] # "NULL" <=> r \in c.req \cup c.orphan
    /\ \A r, q \in c.req \cup c.orphan : r = q
    /\ c.req \cap c.orphan = {}
    /\ c.req \cup c.orphan # {} => c.contacted
    /\ c.orphan # {} => c.state \in WaitStates \cup {"CLOSED"}
    /\ c.req # {} => c.state \in {"DTLS_ATTACH_REQUEST", "ATTACHED", "CLOSED"}
    /\ c.req # {} /\ c.state = "CLOSED" => c.dtls = "CLOSING"
    /\ c.state = "ATTACHED" => c.req \subseteq {"sct"} /\ c.callback["sct"] # "attach"
    /\ c.state = "DTLS_ATTACH_REQUEST" => c.callback["sct"] # "sctOnly"

RedirectInv(c) ==
    /\ c.redirectAttempts <= MaxRedirectFollow
    /\ c.state \in {"DNS", "DTLS_ATTACH_REQUEST", "ATTACHED"} =>
         c.redirectAttempts < MaxRedirectFollow

SctInv(c) ==
    /\ c.synchronizedVersion = c.accepted
    /\ c.uploadingVersion = c.body

Base(c) ==
    /\ c \in Context
    /\ SetupInv(c) /\ QueueInv(c) /\ DtlsInv(c) /\ RequestInv(c)
    /\ RedirectInv(c) /\ SctInv(c)

\* A connection that is closing has its CLOSED event due, an attach has a
\* request outstanding, and an attached device has its keep alive timer.
ConnSettled(c) ==
    /\ c.state = "REDIRECT" => c.dtls = "CLOSING"
    /\ Connected(c) /\ c.dtls = "CLOSING" => c.udpSent \/ EofPossible
    /\ c.state = "DTLS_ATTACH_REQUEST" /\ c.dtls = "DATA" => c.req # {}
    /\ c.state = "ATTACHED" /\ c.dtls = "DATA" => c.keepAlive \/ c.taken = "keepAlive"

SctSettled(c) ==
    c.moduleState = "RUNNING" /\ c.state = "ATTACHED"
        /\ c.version # c.synchronizedVersion
        => c.callback["sct"] # "NULL" \/ c.sctFailed

Settled(c) == ConnSettled(c) /\ SctSettled(c)

IInv ==
    /\ Base(ctx) /\ Settled(ctx)
    /\ calls \in 0..MaxCalls
    /\ ctx.closeEv /\ ctx.moduleState = "SETUP" => calls > 0

Good(c) == Base(c) /\ Settled(c)

\* What a handler leaves alone, and what it never does on a closed module.
Step(c, d) ==
    /\ d.closedCb = c.closedCb /\ d.moduleState = c.moduleState
    /\ c.moduleState = "CLOSED" =>
         /\ d.dnsPending <= c.dnsPending
         /\ d.dtls = "CONNECTING" => c.dtls = "CONNECTING"
         /\ d.req \subseteq c.req \cup {"sct"}
         /\ d.lastEvent = c.lastEvent

\* Handlers that call each other: what neither does, both together do not.
LEMMA StepTransitive ==
    ASSUME NEW c \in Context, NEW d \in Context, NEW e \in Context,
           Step(c, d), Step(d, e)
    PROVE  Step(c, e)
BY DEF Step, Context

\* The thread that runs a handler of the queue has no timed event in hand; a
\* call of the API that finds one has closed the module.
OnQueue(c) == c.moduleState # "SETUP" /\ (c.moduleState = "RUNNING" => c.taken = "none")

-----------------------------------------------------------------------------
(* State changes and the end of a connection *)

\* StateChange as a record update, for each kind of state.
LEMMA StateChangeIs ==
    ASSUME NEW c \in Context, NEW st \in AttachStates
    PROVE  /\ st = "DNS" => StateChange(c, st) =
                [c EXCEPT !.state = st, !.dnsPending = c.dnsPending + 1]
           /\ st = "CLOSED" => StateChange(c, st) =
                [c EXCEPT !.state = st, !.closeEv = TRUE]
           /\ st \in WaitStates => StateChange(c, st) =
                [c EXCEPT !.state = st, !.reattachTimer = TRUE]
           /\ st \notin WaitStates \cup {"DNS", "CLOSED"} => StateChange(c, st) =
                [c EXCEPT !.state = st]
BY DEF StateChange, Context, AttachStates, WaitStates

\* The CLOSED event ends a connection: dtls_event_handler leaves the attacher
\* in a state in which something will move it on.
LEMMA DtlsClosedGood ==
    ASSUME NEW c, Base(c), OnQueue(c), c.state # "DNS", c.dtls = "CLOSING",
           c.state = "REDIRECT" => ~c.udpSent
    PROVE  Good(DtlsClosed(c)) /\ Step(c, DtlsClosed(c))
<1> USE DEF Good, Base, Settled, ConnSettled, SctSettled, SetupInv, QueueInv, DtlsInv, RequestInv,
            RedirectInv, SctInv, Connected, OnQueue, WaitStates, Step
<1>1. c \in Context
  OBVIOUS
<1>2. CASE c.moduleState = "CLOSED"
  <2> DEFINE d == [c EXCEPT !.state = "CLOSED", !.closeEv = TRUE]
  <2>1. DtlsClosed(c) = d
    BY Zenon, <1>1, <1>2, StateChangeIs DEF DtlsClosed, AttachStates
  <2>2. d \in Context
    BY ZenonT(40), <1>1 DEF Context, AttachStates
  <2>3. Good(d) /\ Step(c, d)
    BY <1>1, <1>2, <2>2 DEF Context
  <2> QED
    BY <2>1, <2>3
<1>3. CASE c.moduleState = "RUNNING"
  <2> DEFINE e == [c EXCEPT !.keepAlive = FALSE, !.orphan = c.orphan \cup c.req,
                            !.req = {}]
             f == [e EXCEPT !.lastEvent = "DETACHED"]
             w(g) == [g EXCEPT !.state = "RETRY_WAIT", !.reattachTimer = TRUE]
             n == [e EXCEPT !.state = "DNS", !.dnsPending = e.dnsPending + 1]
  <2>1. e \in Context /\ f \in Context
    BY ZenonT(40), <1>1 DEF Context
  <2>2. DtlsClosed(c) = HandleDtlsClosed(e)
    BY <1>1, <1>3 DEF DtlsClosed, ResetConnection, RemoveConnection, Context
  <2>3. e.state = c.state /\ e.redirectAttempts = c.redirectAttempts
    BY <1>1 DEF Context
  <2>4. /\ StateChange(e, "RETRY_WAIT") = w(e)
        /\ StateChange(f, "RETRY_WAIT") = w(f)
        /\ StateChange(e, "DNS") = n
    <3> HIDE DEF e, f
    <3> QED
      BY Zenon, <2>1, StateChangeIs DEF AttachStates
  <2>5. w(e) \in Context /\ w(f) \in Context
    <3> HIDE DEF e, f
    <3>1. w(e) \in Context
      BY <2>1, ZenonT(60) DEF Context, AttachStates
    <3>2. w(f) \in Context
      BY <2>1, ZenonT(60) DEF Context, AttachStates
    <3> QED
      BY <3>1, <3>2
  <2>6. n \in Context
    <3> HIDE DEF e
    <3>1. e.dnsPending + 1 \in Nat
      BY <2>1 DEF Context
    <3> QED
      BY <2>1, <3>1, ZenonT(60) DEF Context, AttachStates
  <2>7. CASE c.state = "ATTACHED"
    <3>1. DtlsClosed(c) = w(f)
      BY <2>2, <2>3, <2>4, <2>7 DEF HandleDtlsClosed
    <3>2. Good(w(f)) /\ Step(c, w(f))
      BY <1>1, <1>3, <2>5, <2>7 DEF Context
    <3> QED
      BY <3>1, <3>2
  <2>8. CASE c.state = "REDIRECT" /\ c.redirectAttempts < MaxRedirectFollow
    <3>1. DtlsClosed(c) = n
      BY <1>1, <2>2, <2>3, <2>4, <2>8, RedirectAssumption DEF HandleDtlsClosed, Context
    <3>2. Good(n) /\ Step(c, n)
      BY <1>1, <1>3, <2>6, <2>8 DEF Context
    <3> QED
      BY <3>1, <3>2
  <2>9. CASE c.state = "ACCESS_DENIED_WAIT"
    <3>1. DtlsClosed(c) = e
      BY <2>2, <2>3, <2>9 DEF HandleDtlsClosed
    <3>2. Good(e) /\ Step(c, e)
      BY <1>1, <1>3, <2>1, <2>9 DEF Context
    <3> QED
      BY <3>1, <3>2
  <2>10. CASE \/ c.state = "REDIRECT" /\ ~(c.redirectAttempts < MaxRedirectFollow)
              \/ c.state \in {"DTLS_ATTACH_REQUEST", "RETRY_WAIT"}
    <3>1. DtlsClosed(c) = w(e)
      BY <1>1, <2>2, <2>3, <2>4, <2>10, RedirectAssumption DEF HandleDtlsClosed, Context
    <3>2. Good(w(e)) /\ Step(c, w(e))
      BY <1>1, <1>3, <2>5, <2>10 DEF Context
    <3> QED
      BY <3>1, <3>2
  <2> QED
    BY Zenon, <1>1, <1>3, <2>7, <2>8, <2>9, <2>10 DEF Context, AttachStates
<1> QED
  BY Zenon, <1>1, <1>2, <1>3 DEF Context, ModuleStates

\* The ACCESS_DENIED event, in the handshake or on an established connection.
LEMMA DtlsAccessDeniedGood ==
    ASSUME NEW c, Base(c), OnQueue(c), c.dtls # "CONNECTING",
           c.state \notin {"DNS", "REDIRECT"}
    PROVE  Good(DtlsAccessDenied(c)) /\ Step(c, DtlsAccessDenied(c))
<1> USE DEF Good, Base, Settled, ConnSettled, SctSettled, SetupInv, QueueInv, DtlsInv, RequestInv,
            RedirectInv, SctInv, Connected, OnQueue, WaitStates, Step
<1>1. c \in Context
  OBVIOUS
<1>2. CASE c.moduleState = "CLOSED"
  <2> DEFINE d == [c EXCEPT !.state = "CLOSED", !.closeEv = TRUE]
  <2>1. DtlsAccessDenied(c) = d
    BY Zenon, <1>1, <1>2, StateChangeIs DEF DtlsAccessDenied, AttachStates
  <2>2. d \in Context
    BY ZenonT(40), <1>1 DEF Context, AttachStates
  <2>3. Good(d) /\ Step(c, d)
    BY <1>1, <1>2, <2>2 DEF Context
  <2> QED
    BY <2>1, <2>3
<1>3. CASE c.moduleState = "RUNNING"
  <2> DEFINE e == [c EXCEPT !.keepAlive = FALSE, !.orphan = c.orphan \cup c.req,
                            !.req = {}]
             d == [e EXCEPT !.state = "ACCESS_DENIED_WAIT", !.reattachTimer = TRUE]
  <2>1. e \in Context
    BY ZenonT(40), <1>1 DEF Context
  <2>2. StateChange(e, "ACCESS_DENIED_WAIT") = d
    <3> HIDE DEF e
    <3> QED
      BY Zenon, <2>1, StateChangeIs DEF AttachStates
  <2>3. DtlsAccessDenied(c) = d
    BY <1>1, <1>3, <2>2 DEF DtlsAccessDenied, ResetConnection, RemoveConnection, Context
  <2>4. d \in Context
    <3> HIDE DEF e
    <3> QED
      BY ZenonT(40), <2>1 DEF Context, AttachStates
  <2>5. Good(d) /\ Step(c, d)
    BY <1>1, <1>3, <2>4 DEF Context
  <2> QED
    BY <2>3, <2>5
<1> QED
  BY Zenon, <1>1, <1>2, <1>3 DEF Context, ModuleStates

\* d is c but for the datagram in flight.
OnlySent(c, d) ==
    /\ d.moduleState = c.moduleState /\ d.state = c.state /\ d.taken = c.taken
    /\ d.redirectAttempts = c.redirectAttempts /\ d.contacted = c.contacted
    /\ d.closedCb = c.closedCb /\ d.dnsPending = c.dnsPending
    /\ d.keepAlive = c.keepAlive /\ d.dtls = c.dtls /\ d.lastEvent = c.lastEvent
    /\ d.req = c.req /\ d.orphan = c.orphan /\ d.callback = c.callback
    /\ d.version = c.version /\ d.synchronizedVersion = c.synchronizedVersion
    /\ d.sctFailed = c.sctFailed
    /\ c.udpSent => d.udpSent

\* A datagram handed to UDP on a connection that is not being reset.
LEMMA SendBase ==
    ASSUME NEW c, Base(c), OnQueue(c), c.contacted, c.state # "DNS", NEW snd \in BOOLEAN
    PROVE  /\ Base(Send(c, snd)) /\ Step(c, Send(c, snd))
           /\ Settled(c) => Settled(Send(c, snd))
           /\ OnlySent(c, Send(c, snd))
<1>1. c \in Context
  BY DEF Base
<1>2. CASE snd
  <2> DEFINE d == [c EXCEPT !.sending = TRUE, !.udpSent = TRUE]
  <2>1. Send(c, snd) = d
    BY <1>2 DEF Send
  <2>2. d \in Context
    BY Zenon, <1>1 DEF Context
  <2>3. OnlySent(c, d)
    BY Zenon, <1>1 DEF Context, OnlySent
  <2>4. Base(d)
    BY <1>1, <2>2 DEF Base, SetupInv, QueueInv, DtlsInv, RequestInv, RedirectInv,
         SctInv, Connected, OnQueue, WaitStates, Context
  <2>5. Step(c, d) /\ (Settled(c) => Settled(d))
    BY <1>1 DEF Settled, ConnSettled, SctSettled, Connected, Step, Context
  <2> HIDE DEF d
  <2> QED
    BY <2>1, <2>3, <2>4, <2>5
<1>3. CASE ~snd
  <2>1. Send(c, snd) = c
    BY <1>3 DEF Send
  <2>2. Step(c, c) /\ OnlySent(c, c)
    BY <1>1 DEF Context, OnlySent, Step
  <2> QED
    BY <2>1, <2>2
<1> QED
  BY <1>2, <1>3

\* The tail of dtls_cli_close: CLOSED is delivered unless a send is in flight.
Closing(c, snd) ==
    LET d == Send(c, snd) IN IF d.sending THEN d ELSE DtlsClosed(d)

\* The tail of dtls_cli_close leaves a CLOSED event that is due or delivered.
LEMMA ClosingGood ==
    ASSUME NEW c, Base(c), OnQueue(c), c.dtls = "CLOSING", c.state # "DNS",
           c.state = "ATTACHED" => SctSettled(c), NEW snd \in BOOLEAN
    PROVE  Good(Closing(c, snd)) /\ Step(c, Closing(c, snd))
<1> DEFINE d == Send(c, snd)
<1>1. c \in Context /\ c.contacted
  BY DEF Base, DtlsInv
<1>2. Base(d) /\ Step(c, d) /\ OnlySent(c, d)
  BY <1>1, SendBase
<1> HIDE DEF d
<1>3. d \in Context /\ OnQueue(d) /\ d.state = c.state /\ d.dtls = "CLOSING"
  BY <1>2 DEF OnlySent, OnQueue, Base
<1>4. CASE d.sending
  <2>1. Closing(c, snd) = d
    BY <1>4 DEF Closing, d
  <2>2. d.udpSent
    BY <1>2, <1>4 DEF Base, DtlsInv
  <2>3. Settled(d)
    BY <1>2, <1>3, <2>2 DEF Settled, ConnSettled, SctSettled, Connected, OnlySent
  <2> QED
    BY <1>2, <2>1, <2>3 DEF Good
<1>5. CASE ~d.sending
  <2>1. Closing(c, snd) = DtlsClosed(d)
    BY <1>5 DEF Closing, d
  <2>2. ~d.udpSent
    BY <1>2, <1>5 DEF Base, DtlsInv
  <2>3. Good(DtlsClosed(d)) /\ Step(d, DtlsClosed(d))
    BY <1>2, <1>3, <2>2, DtlsClosedGood
  <2>4. DtlsClosed(d) \in Context
    BY <2>3 DEF Good, Base
  <2>5. Step(c, DtlsClosed(d))
    BY <1>1, <1>2, <1>3, <2>3, <2>4, StepTransitive
  <2> QED
    BY <2>1, <2>3, <2>5
<1> QED
  BY <1>4, <1>5

\* dtls_cli_close leaves a CLOSED event that is due or has been delivered.
LEMMA DtlsCloseGood ==
    ASSUME NEW c, Base(c), OnQueue(c), c.contacted, c.state # "DNS",
           c.dtls = "CLOSING" => Settled(c),
           c.state = "ATTACHED" => SctSettled(c), NEW snd \in BOOLEAN
    PROVE  Good(DtlsClose(c, snd)) /\ Step(c, DtlsClose(c, snd))
<1>1. c \in Context
  BY DEF Base
<1>2. CASE c.dtls = "CLOSING"
  BY <1>1, <1>2 DEF DtlsClose, Good, Step, Context
<1>3. CASE c.dtls # "CLOSING"
  <2> DEFINE b == [c EXCEPT !.dtls = "CLOSING"]
  <2>1. b \in Context
    BY <1>1 DEF Context, SslStates
  <2>2. /\ Base(b) /\ Step(c, b) /\ OnQueue(b) /\ b.dtls = "CLOSING"
        /\ b.state = c.state /\ b.state # "DNS"
    BY <1>1, <2>1 DEF Base, SetupInv, QueueInv, DtlsInv, RequestInv, RedirectInv,
         SctInv, Connected, OnQueue, WaitStates, Step, Context
  <2>3. SctSettled(c) => SctSettled(b)
    BY <1>1 DEF SctSettled, Context
  <2>4. DtlsClose(c, snd) = Closing(b, snd)
    BY <1>3 DEF DtlsClose, Closing
  <2> HIDE DEF b
  <2>5. Good(Closing(b, snd)) /\ Step(b, Closing(b, snd))
    BY <2>2, <2>3, ClosingGood
  <2>6. Closing(b, snd) \in Context
    BY <2>5 DEF Good, Base
  <2>7. Step(c, Closing(b, snd))
    BY <1>1, <2>1, <2>2, <2>5, <2>6, StepTransitive
  <2> QED
    BY <2>4, <2>5, <2>7
<1> QED
  BY <1>2, <1>3

-----------------------------------------------------------------------------
(* The CoAP requests *)

\* d is c after the handler of a request has released the request.
Released(c, d) ==
    /\ d.req = {} /\ d.orphan = {} /\ \A q \in Requests : d.callback[q] = "NULL"
    /\ d.moduleState = c.moduleState /\ d.state = c.state /\ d.taken = c.taken
    /\ d.contacted = c.contacted /\ d.dtls = c.dtls /\ d.udpSent = c.udpSent
    /\ d.keepAlive = c.keepAlive /\ d.redirectAttempts = c.redirectAttempts

\* The head of a response handler, for the one outstanding request.
LEMMA CompletedBase ==
    ASSUME NEW c, Base(c), NEW r \in c.req \cup c.orphan
    PROVE  /\ Base(Completed(c, r)) /\ Step(c, Completed(c, r))
           /\ Released(c, Completed(c, r))
<1> DEFINE d == [c EXCEPT !.callback = [c.callback EXCEPT ![r] = "NULL"],
                          !.req = c.req \ {r}, !.orphan = c.orphan \ {r}]
<1>1. c \in Context
  BY DEF Base
<1>2. r \in Requests
  BY <1>1 DEF Context
<1>3. Completed(c, r) = d
  BY <1>1 DEF Completed, Context
<1>4. d \in Context
  BY ZenonT(40), <1>1, <1>2 DEF Context
<1>5. d.req = {} /\ d.orphan = {}
  BY <1>1 DEF Base, RequestInv, Context
<1>6. \A q \in Requests : d.callback[q] = "NULL"
  BY <1>1, <1>2 DEF Base, RequestInv, Context
<1>7. Released(c, d)
  BY <1>1, <1>5, <1>6 DEF Released, Context
<1>8. RequestInv(d)
  BY <1>1, <1>5, <1>6 DEF RequestInv, Requests, Context
<1>9. Base(d)
  BY <1>1, <1>4, <1>5, <1>8 DEF Base, SetupInv, QueueInv, DtlsInv, RedirectInv,
       SctInv, Connected, WaitStates, Context
<1>10. Step(c, d)
  BY <1>1, <1>5 DEF Step, Context
<1> HIDE DEF d
<1> QED
  BY <1>3, <1>7, <1>9, <1>10

\* coap_attach_failed after the request is released.
LEMMA AttachFailedGood ==
    ASSUME NEW c, Good(c), OnQueue(c), NEW r \in c.req \cup c.orphan,
           c.state # "ATTACHED", NEW snd \in BOOLEAN
    PROVE  /\ Good(DtlsClose(Completed(c, r), snd))
           /\ Step(c, DtlsClose(Completed(c, r), snd))
<1> DEFINE d == Completed(c, r)
<1>1. Base(d) /\ Step(c, d) /\ Released(c, d)
  BY CompletedBase DEF Good
<1> HIDE DEF d
<1>2. c.contacted /\ c.state # "DNS"
  BY DEF Good, Base, RequestInv, WaitStates
<1>3. d.dtls = "CLOSING" => Settled(d)
  BY <1>1 DEF Good, Settled, ConnSettled, SctSettled, Released, Connected
<1>4. OnQueue(d) /\ d.contacted /\ d.state # "DNS" /\ d.state # "ATTACHED"
  BY <1>1, <1>2 DEF Released, OnQueue
<1>5. Good(DtlsClose(d, snd)) /\ Step(d, DtlsClose(d, snd))
  BY <1>1, <1>3, <1>4, DtlsCloseGood
<1>6. c \in Context /\ d \in Context /\ DtlsClose(d, snd) \in Context
  BY <1>1, <1>5 DEF Good, Base
<1>7. Step(c, DtlsClose(d, snd))
  BY <1>1, <1>5, <1>6, StepTransitive
<1> QED
  BY <1>5, <1>7 DEF d

\* The conditions under which a request of an attach is sent.
Attaching(c) ==
    /\ c.state = "DTLS_ATTACH_REQUEST" /\ c.dtls = "DATA" /\ c.req = {}
    /\ c.taken = "none"

\* A request of an attach (nc_attacher_attach_start_request and the like).
LEMMA SendRequestGood ==
    ASSUME NEW c, Base(c), Attaching(c), NEW r \in Requests
    PROVE  Good(SendRequest(c, r, "attach")) /\ Step(c, SendRequest(c, r, "attach"))
<1> DEFINE d == [c EXCEPT !.callback = [c.callback EXCEPT ![r] = "attach"],
                          !.req = {r}]
<1>1. c \in Context /\ c.req = {} /\ c.orphan = {} /\ c.moduleState = "RUNNING"
  BY DEF Base, RequestInv, Attaching, WaitStates, DtlsInv, Connected
<1>2. SendRequest(c, r, "attach") = d
  BY <1>1 DEF SendRequest, Context
<1>3. d \in Context
  BY ZenonT(40), <1>1 DEF Context
<1>4. \A q \in Requests : d.callback[q] = IF q = r THEN "attach" ELSE "NULL"
  BY <1>1 DEF Base, RequestInv, Context
<1>5. RequestInv(d)
  BY <1>1, <1>4 DEF RequestInv, Requests, Context, Attaching, Base, DtlsInv, Connected
<1>6. Base(d)
  BY <1>1, <1>3, <1>5 DEF Base, SetupInv, QueueInv, DtlsInv, RedirectInv,
       SctInv, Connected, WaitStates, Context, Attaching
<1>7. Settled(d) /\ Step(c, d)
  BY <1>1 DEF Settled, ConnSettled, SctSettled, Connected, Step, Context, Attaching
<1> HIDE DEF d
<1> QED
  BY <1>2, <1>6, <1>7 DEF Good

\* The close of an attach that cannot go on.
LEMMA AttachingCloseGood ==
    ASSUME NEW c, Base(c), Attaching(c), NEW snd \in BOOLEAN
    PROVE  Good(DtlsClose(c, snd)) /\ Step(c, DtlsClose(c, snd))
BY DtlsCloseGood DEF Attaching, OnQueue, Base, DtlsInv, Connected

\* send_attach_start_request: the request is sent or the connection closed.
LEMMA SendAttachStartRequestGood ==
    ASSUME NEW c, Base(c), Attaching(c), NEW oom \in BOOLEAN, NEW snd \in BOOLEAN
    PROVE  /\ Good(SendAttachStartRequest(c, oom, snd))
           /\ Step(c, SendAttachStartRequest(c, oom, snd))
BY SendRequestGood, AttachingCloseGood DEF SendAttachStartRequest, Requests

\* send_attach_end_request: the request is sent or the connection closed.
LEMMA SendAttachEndRequestGood ==
    ASSUME NEW c, Base(c), Attaching(c), NEW oom \in BOOLEAN, NEW snd \in BOOLEAN
    PROVE  /\ Good(SendAttachEndRequest(c, oom, snd))
           /\ Step(c, SendAttachEndRequest(c, oom, snd))
BY SendRequestGood, AttachingCloseGood DEF SendAttachEndRequest, Requests

\* send_attach_sct_request: upload, go on with end, or close.
LEMMA SendAttachSctRequestGood ==
    ASSUME NEW c, Base(c), Attaching(c), NEW oom \in BOOLEAN, NEW snd \in BOOLEAN
    PROVE  /\ Good(SendAttachSctRequest(c, oom, snd))
           /\ Step(c, SendAttachSctRequest(c, oom, snd))
<1> DEFINE b == [c EXCEPT !.uploadingVersion = c.version, !.body = c.version]
<1>1. c \in Context
  BY DEF Base
<1>2. b \in Context
  BY Zenon, <1>1 DEF Context
<1>3. Base(b) /\ Attaching(b) /\ Step(c, b)
  BY <1>1, <1>2 DEF Base, SetupInv, QueueInv, DtlsInv, RequestInv, RedirectInv,
       SctInv, Connected, WaitStates, Context, Attaching, Step
<1>4. SctUpload(c, "attach") = SendRequest(b, "sct", "attach")
  BY DEF SctUpload
<1> HIDE DEF b
<1>5. Good(SctUpload(c, "attach")) /\ Step(b, SctUpload(c, "attach"))
  BY <1>3, <1>4, SendRequestGood DEF Requests
<1>6. SctUpload(c, "attach") \in Context
  BY <1>5 DEF Good, Base
<1>7. Step(c, SctUpload(c, "attach"))
  BY <1>1, <1>2, <1>3, <1>5, <1>6, StepTransitive
<1> QED
  BY <1>5, <1>7, SendAttachEndRequestGood, AttachingCloseGood DEF SendAttachSctRequest

\* send_sct_request while attached: afterwards an upload is outstanding, or
\* failed to start, or is not needed.
LEMMA SendSctRequestGood ==
    ASSUME NEW c, Base(c), c.state = "ATTACHED", ConnSettled(c), NEW oom \in BOOLEAN
    PROVE  Good(SendSctRequest(c, oom)) /\ Step(c, SendSctRequest(c, oom))
<1>1. /\ c \in Context /\ c.req \subseteq {"sct"} /\ c.orphan = {}
      /\ c.callback["sct"] # "attach" /\ c.contacted
  BY DEF Base, RequestInv, DtlsInv, Connected, WaitStates
<1>2. CASE SctSynchronized(c) \/ Busy(c, "sct")
  <2>1. SendSctRequest(c, oom) = c
    BY <1>2 DEF SendSctRequest
  <2>2. SctSettled(c) /\ Step(c, c)
    BY <1>1, <1>2 DEF SctSettled, SctSynchronized, Busy, Step, Context
  <2> QED
    BY <2>1, <2>2 DEF Good, Settled
<1>3. CASE ~(SctSynchronized(c) \/ Busy(c, "sct")) /\ oom
  <2> DEFINE d == [c EXCEPT !.sctFailed = TRUE]
  <2>1. SendSctRequest(c, oom) = d
    BY <1>3 DEF SendSctRequest
  <2>2. d \in Context
    BY Zenon, <1>1 DEF Context
  <2>3. Base(d)
    BY <1>1, <2>2 DEF Base, SetupInv, QueueInv, DtlsInv, RequestInv, RedirectInv,
         SctInv, Connected, WaitStates, Context
  <2>4. Settled(d) /\ Step(c, d)
    BY <1>1 DEF Settled, ConnSettled, SctSettled, Connected, Step, Context
  <2> HIDE DEF d
  <2> QED
    BY <2>1, <2>3, <2>4 DEF Good
<1>4. CASE ~(SctSynchronized(c) \/ Busy(c, "sct")) /\ ~oom
  <2> DEFINE d == [c EXCEPT !.uploadingVersion = c.version, !.body = c.version,
                            !.callback = [c.callback EXCEPT !["sct"] = "sctOnly"],
                            !.req = c.req \cup {"sct"}]
  <2>1. SendSctRequest(c, oom) = d
    BY <1>1, <1>4 DEF SendSctRequest, SctUpload, SendRequest, Context
  <2>2. d \in Context
    BY ZenonT(40), <1>1 DEF Context, Requests
  <2>3. RequestInv(d)
    BY <1>1 DEF Base, RequestInv, Requests, WaitStates, Context
  <2>4. Base(d)
    BY <1>1, <2>2, <2>3 DEF Base, SetupInv, QueueInv, DtlsInv, RedirectInv,
         SctInv, Connected, WaitStates, Context
  <2>5. Settled(d) /\ Step(c, d)
    BY <1>1 DEF Settled, ConnSettled, SctSettled, Connected, Step, Context, Requests
  <2> HIDE DEF d
  <2> QED
    BY <2>1, <2>4, <2>5 DEF Good
<1> QED
  BY <1>2, <1>3, <1>4

\* A request that is answered on an open connection belongs to an attach or
\* to an attached device, and the module runs.
LEMMA AnsweredRequest ==
    ASSUME NEW c, Base(c), OnQueue(c), NEW r \in c.req, c.dtls = "DATA"
    PROVE  /\ c.moduleState = "RUNNING" /\ c.taken = "none"
           /\ c.state = "DTLS_ATTACH_REQUEST" \/ (c.state = "ATTACHED" /\ r = "sct")
BY DEF Base, RequestInv, DtlsInv, Connected, OnQueue

\* The handler of start, for every result.
LEMMA AttachStartDoneGood ==
    ASSUME NEW c, Good(c), OnQueue(c), "start" \in c.req \cup c.orphan,
           NEW status \in {"ATTACHED", "REDIRECT", "ERROR"},
           status # "ERROR" => "start" \in c.req /\ c.dtls = "DATA",
           NEW oom \in BOOLEAN, NEW snd \in BOOLEAN
    PROVE  /\ Good(AttachStartDone(c, status, oom, snd))
           /\ Step(c, AttachStartDone(c, status, oom, snd))
<1> DEFINE d == Completed(c, "start")
<1>1. Base(c) /\ c \in Context /\ c.state # "ATTACHED"
  BY DEF Good, Base, RequestInv, WaitStates
<1>2. Base(d) /\ Step(c, d) /\ Released(c, d)
  BY <1>1, CompletedBase
<1> HIDE DEF d
<1>3. d \in Context
  BY <1>2 DEF Base
<1>4. CASE d.moduleState = "CLOSED" \/ status = "ERROR"
  <2>1. AttachStartDone(c, status, oom, snd) = DtlsClose(d, snd)
    BY <1>4 DEF AttachStartDone, d
  <2> QED
    BY <1>1, <2>1, AttachFailedGood DEF d
<1>5. CASE d.moduleState # "CLOSED" /\ status # "ERROR"
  <2>1. c.moduleState = "RUNNING" /\ c.taken = "none" /\ c.state = "DTLS_ATTACH_REQUEST"
    BY <1>1, <1>5, AnsweredRequest
  <2>2. Attaching(d)
    BY <1>2, <1>5, <2>1 DEF Attaching, Released
  <2>3. CASE status = "ATTACHED"
    <3>1. AttachStartDone(c, status, oom, snd) = SendAttachSctRequest(d, oom, snd)
      BY <1>5, <2>3 DEF AttachStartDone, d
    <3>2. /\ Good(SendAttachSctRequest(d, oom, snd))
          /\ Step(d, SendAttachSctRequest(d, oom, snd))
      BY <1>2, <2>2, SendAttachSctRequestGood
    <3>3. SendAttachSctRequest(d, oom, snd) \in Context
      BY <3>2 DEF Good, Base
    <3> QED
      BY <1>1, <1>2, <1>3, <3>1, <3>2, <3>3, StepTransitive
  <2>4. CASE status = "REDIRECT"
    <3> DEFINE e == [d EXCEPT !.state = "REDIRECT",
                              !.redirectAttempts = d.redirectAttempts + 1]
    <3>1. AttachStartDone(c, status, oom, snd) = DtlsClose(e, snd)
      BY <1>5, <2>4 DEF AttachStartDone, d
    <3>2. d.redirectAttempts + 1 \in Nat
      BY <1>3 DEF Context
    <3>3. e \in Context
      BY Zenon, <1>3, <3>2 DEF Context, AttachStates
    <3>4. d.redirectAttempts + 1 <= MaxRedirectFollow
      <4>1. RedirectInv(d)
        BY <1>2 DEF Base
      <4> QED
        BY <1>3, <2>2, <4>1, RedirectAssumption
        DEF RedirectInv, Attaching, Context
    <3>5. Base(e)
      BY <1>2, <1>3, <2>1, <2>2, <3>3, <3>4 DEF Base, SetupInv, QueueInv, DtlsInv,
           RequestInv, RedirectInv, SctInv, Connected, WaitStates, Context, Attaching,
           Released
    <3>6. OnQueue(e) /\ e.contacted /\ e.state # "DNS" /\ e.dtls = "DATA"
      BY <1>2, <1>3, <2>1, <2>2 DEF OnQueue, Context, Attaching, Released, Base,
           DtlsInv, Connected
    <3>7. e.state = "REDIRECT" /\ Step(d, e)
      BY <1>2, <1>3, <2>1 DEF Step, Context, Released
    <3> HIDE DEF e
    <3>8. Good(DtlsClose(e, snd)) /\ Step(e, DtlsClose(e, snd))
      BY <3>5, <3>6, <3>7, DtlsCloseGood
    <3>9. DtlsClose(e, snd) \in Context
      BY <3>8 DEF Good, Base
    <3>10. Step(c, DtlsClose(e, snd))
      BY <1>1, <1>2, <1>3, <3>3, <3>7, <3>8, <3>9, StepTransitive
    <3> QED
      BY <3>1, <3>8, <3>10
  <2> QED
    BY <1>5, <2>3, <2>4
<1> QED
  BY <1>4, <1>5

\* The handler of end.
LEMMA AttachEndDoneGood ==
    ASSUME NEW c, Good(c), OnQueue(c), "end" \in c.req \cup c.orphan,
           NEW ok \in BOOLEAN, ok => "end" \in c.req /\ c.dtls = "DATA",
           NEW oom \in BOOLEAN, NEW snd \in BOOLEAN
    PROVE  /\ Good(AttachEndDone(c, ok, oom, snd))
           /\ Step(c, AttachEndDone(c, ok, oom, snd))
<1> DEFINE d == Completed(c, "end")
<1>1. Base(c) /\ c \in Context /\ c.state # "ATTACHED"
  BY DEF Good, Base, RequestInv, WaitStates
<1>2. Base(d) /\ Step(c, d) /\ Released(c, d)
  BY <1>1, CompletedBase
<1> HIDE DEF d
<1>3. d \in Context
  BY <1>2 DEF Base
<1>4. CASE ~ok \/ d.moduleState = "CLOSED"
  <2>1. AttachEndDone(c, ok, oom, snd) = DtlsClose(d, snd)
    BY <1>4 DEF AttachEndDone, d
  <2> QED
    BY <1>1, <2>1, AttachFailedGood DEF d
<1>5. CASE ok /\ d.moduleState # "CLOSED"
  <2>1. c.moduleState = "RUNNING" /\ c.taken = "none" /\ c.state = "DTLS_ATTACH_REQUEST"
    BY <1>1, <1>5, AnsweredRequest
  <2>2. Attaching(d) /\ d.moduleState = "RUNNING"
    BY <1>2, <1>5, <2>1 DEF Attaching, Released
  <2> DEFINE b == [d EXCEPT !.keepAlive = TRUE, !.lastEvent = "ATTACHED",
                            !.sctFailed = FALSE]
             e == [b EXCEPT !.state = "ATTACHED"]
  <2>3. b \in Context
    BY ZenonT(40), <1>3 DEF Context
  <2>4. StateChange(b, "ATTACHED") = e
    <3> HIDE DEF b
    <3> QED
      BY Zenon, <2>3, StateChangeIs DEF AttachStates, WaitStates
  <2>5. AttachEndDone(c, ok, oom, snd) = SendSctRequest(e, oom)
    BY <1>5, <2>4 DEF AttachEndDone, d
  <2>6. e \in Context
    <3> HIDE DEF b
    <3> QED
      BY <2>3 DEF Context, AttachStates
  <2>7. Base(e)
    BY <1>2, <1>3, <2>1, <2>2, <2>6 DEF Base, SetupInv, QueueInv, DtlsInv,
         RequestInv, RedirectInv, SctInv, Connected, WaitStates, Context, Attaching,
         Released, Requests
  <2>8. e.state = "ATTACHED" /\ ConnSettled(e)
    BY <1>3, <2>2 DEF ConnSettled, Connected, Context, Attaching
  <2>9. Step(d, e)
    BY <1>3, <2>2 DEF Step, Context
  <2> HIDE DEF e
  <2>10. Good(SendSctRequest(e, oom)) /\ Step(e, SendSctRequest(e, oom))
    BY <2>7, <2>8, SendSctRequestGood
  <2>11. SendSctRequest(e, oom) \in Context
    BY <2>10 DEF Good, Base
  <2>12. Step(c, SendSctRequest(e, oom))
    BY <1>1, <1>2, <1>3, <2>6, <2>9, <2>10, <2>11, StepTransitive
  <2> QED
    BY <2>5, <2>10, <2>12
<1> QED
  BY <1>4, <1>5

\* The handler of sct called for a failure: the attach is over, or the failed
\* upload of an attached device is remembered.
LEMMA SctFailedGood ==
    ASSUME NEW c, Good(c), OnQueue(c), "sct" \in c.req \cup c.orphan,
           NEW oom \in BOOLEAN, NEW snd \in BOOLEAN
    PROVE  /\ Good(SctDone(c, FALSE, oom, snd))
           /\ Step(c, SctDone(c, FALSE, oom, snd))
<1> DEFINE d == Completed(c, "sct")
<1>1. Base(c) /\ c \in Context
  BY DEF Good, Base
<1>2. Base(d) /\ Step(c, d) /\ Released(c, d)
  BY <1>1, CompletedBase
<1> HIDE DEF d
<1>3. d \in Context
  BY <1>2 DEF Base
<1>4. CASE c.callback["sct"] = "attach"
  <2>1. SctDone(c, FALSE, oom, snd) = DtlsClose(d, snd)
    BY <1>4 DEF SctDone, d
  <2>2. c.state # "ATTACHED"
    BY <1>1, <1>4 DEF Base, RequestInv
  <2> QED
    BY Zenon, <2>1, <2>2, AttachFailedGood DEF d
<1>5. CASE c.callback["sct"] # "attach"
  <2> DEFINE e == [d EXCEPT !.sctFailed = TRUE]
  <2>1. SctDone(c, FALSE, oom, snd) = e
    BY <1>5 DEF SctDone, d
  <2>2. e \in Context
    BY ZenonT(40), <1>3 DEF Context
  <2>3. c.state # "DTLS_ATTACH_REQUEST"
    BY <1>1, <1>5 DEF Base, RequestInv, Requests, Context, WaitStates
  <2>4. Base(e)
    BY <1>2, <1>3, <2>2 DEF Base, SetupInv, QueueInv, DtlsInv, RequestInv, RedirectInv,
         SctInv, Connected, WaitStates, Context
  <2>5. Settled(e)
    BY <1>2, <1>3, <2>3 DEF Good, Settled, ConnSettled, SctSettled, Connected, Context,
         Released
  <2>6. Step(d, e)
    BY <1>3 DEF Step, Context
  <2> HIDE DEF e
  <2>7. Step(c, e)
    BY <1>1, <1>2, <1>3, <2>2, <2>6, StepTransitive
  <2> QED
    BY Zenon, <2>1, <2>4, <2>5, <2>7 DEF Good
<1> QED
  BY Zenon, <1>4, <1>5

\* The handler of sct called for a success: the basestation has accepted what
\* the request carried, which is what uploadingVersion stands for.
LEMMA SctAcceptedGood ==
    ASSUME NEW c, Good(c), OnQueue(c), "sct" \in c.req, c.dtls = "DATA",
           NEW oom \in BOOLEAN, NEW snd \in BOOLEAN
    PROVE  LET e == SctDone([c EXCEPT !.accepted = c.body], TRUE, oom, snd)
           IN  Good(e) /\ Step(c, e)
<1> DEFINE a == [c EXCEPT !.accepted = c.body]
           b == [a EXCEPT !.synchronizedVersion = a.uploadingVersion]
           d == Completed(b, "sct")
<1>1. Base(c) /\ c \in Context
  BY DEF Good, Base
<1>2. a \in Context /\ b \in Context
  BY ZenonT(40), <1>1 DEF Context
<1>3. Base(b)
  BY <1>1, <1>2 DEF Base, SetupInv, QueueInv, DtlsInv, RequestInv, RedirectInv,
       SctInv, Connected, WaitStates, Context
<1>4. /\ b.req = c.req /\ b.state = c.state /\ b.dtls = "DATA" /\ b.keepAlive = c.keepAlive
      /\ b.moduleState = c.moduleState /\ b.taken = c.taken /\ b.udpSent = c.udpSent
      /\ Step(c, b) /\ a.callback = c.callback /\ c.callback["sct"] # "NULL"
  BY <1>1 DEF Context, Step, Base, RequestInv, Requests
<1>5. Base(d) /\ Step(b, d) /\ Released(b, d)
  <2> HIDE DEF b
  <2> QED
    BY <1>3, <1>4, CompletedBase
<1>6. /\ c.moduleState = "RUNNING" /\ c.taken = "none"
      /\ c.state \in {"DTLS_ATTACH_REQUEST", "ATTACHED"}
  BY <1>1, AnsweredRequest
<1>7. d \in Context
  BY <1>5 DEF Base
<1>8. Step(c, d)
  <2> HIDE DEF b, d
  <2> QED
    BY <1>1, <1>2, <1>4, <1>5, <1>7, StepTransitive
<1>9. CASE a.callback["sct"] = "attach"
  <2>1. c.state = "DTLS_ATTACH_REQUEST"
    BY <1>1, <1>4, <1>6, <1>9 DEF Base, RequestInv
  <2>2. Attaching(d) /\ d.moduleState = "RUNNING"
    BY <1>4, <1>5, <1>6, <2>1 DEF Attaching, Released
  <2>3. SctDone(a, TRUE, oom, snd) = SendAttachEndRequest(d, oom, snd)
    <3> HIDE DEF a
    <3> QED
      BY <1>9, <2>2 DEF SctDone
  <2> HIDE DEF d
  <2>4. /\ Good(SendAttachEndRequest(d, oom, snd))
        /\ Step(d, SendAttachEndRequest(d, oom, snd))
    BY <1>5, <2>2, SendAttachEndRequestGood
  <2>5. SendAttachEndRequest(d, oom, snd) \in Context
    BY <2>4 DEF Good, Base
  <2>6. Step(c, SendAttachEndRequest(d, oom, snd))
    BY <1>1, <1>7, <1>8, <2>4, <2>5, StepTransitive
  <2> QED
    BY Zenon, <2>3, <2>4, <2>6
<1>10. CASE a.callback["sct"] # "attach"
  <2>1. c.state = "ATTACHED"
    BY <1>1, <1>4, <1>6, <1>10 DEF Base, RequestInv, Requests, Context
  <2>2. d.state = "ATTACHED" /\ ConnSettled(d)
    BY <1>4, <1>5, <2>1 DEF Good, Settled, ConnSettled, Connected, Released
  <2>3. SctDone(a, TRUE, oom, snd) = SendSctRequest(d, oom)
    <3> HIDE DEF a
    <3> QED
      BY <1>10 DEF SctDone
  <2> HIDE DEF d
  <2>4. Good(SendSctRequest(d, oom)) /\ Step(d, SendSctRequest(d, oom))
    BY <1>5, <2>2, SendSctRequestGood
  <2>5. SendSctRequest(d, oom) \in Context
    BY <2>4 DEF Good, Base
  <2>6. Step(c, SendSctRequest(d, oom))
    BY <1>1, <1>7, <1>8, <2>4, <2>5, StepTransitive
  <2> QED
    BY Zenon, <2>3, <2>4, <2>6
<1> QED
  BY Zenon, <1>9, <1>10

\* A request without a response.
LEMMA NoResponseGood ==
    ASSUME NEW c, Good(c), OnQueue(c), NEW r \in c.req \cup c.orphan,
           NEW oom \in BOOLEAN, NEW snd \in BOOLEAN
    PROVE  Good(NoResponse(c, r, oom, snd)) /\ Step(c, NoResponse(c, r, oom, snd))
<1>1. r \in Requests
  BY DEF Good, Base, Context
<1>2. CASE r = "start"
  BY <1>2, AttachStartDoneGood DEF NoResponse
<1>3. CASE r = "sct"
  BY Zenon, <1>3, SctFailedGood DEF NoResponse
<1>4. CASE r = "end"
  BY Zenon, <1>4, AttachEndDoneGood DEF NoResponse
<1> QED
  BY <1>1, <1>2, <1>3, <1>4 DEF Requests

-----------------------------------------------------------------------------
(* One step of the DTLS client *)

\* One step of the handshake, whatever its result.
LEMMA HandshakeGood ==
    ASSUME NEW c, Good(c), OnQueue(c), c.contacted, c.dtls = "CONNECTING", Handshake(c)
    PROVE  Good(ctx') /\ Step(c, ctx')
<1>1. /\ Base(c) /\ Settled(c) /\ c \in Context
      /\ c.state = "DTLS_ATTACH_REQUEST" /\ c.req = {}
      /\ c.moduleState = "RUNNING" /\ c.taken = "none"
  BY DEF Good, Base, DtlsInv, Connected, OnQueue
<1>2. PICK snd \in BOOLEAN :
        LET d == Send(c, snd) IN
        \/ ctx' = d
        \/ ctx' = DtlsAccessDenied([d EXCEPT !.dtls = "CLOSING"])
        \/ ctx' = DtlsClosed([d EXCEPT !.dtls = "CLOSING"])
        \/ \E alpn, oom \in BOOLEAN :
              ctx' = DtlsConnected([d EXCEPT !.dtls = "DATA"], alpn, oom, snd)
  BY DEF Handshake
<1> DEFINE d == Send(c, snd)
           b == [d EXCEPT !.dtls = "CLOSING"]
           e == [d EXCEPT !.dtls = "DATA"]
<1>3. Base(d) /\ Settled(d) /\ Step(c, d) /\ OnlySent(c, d)
  BY <1>1, SendBase
<1> HIDE DEF d
<1>4. /\ d \in Context /\ d.state = "DTLS_ATTACH_REQUEST" /\ d.req = {}
      /\ d.moduleState = "RUNNING" /\ d.taken = "none" /\ d.contacted
  BY <1>1, <1>3 DEF Base, OnlySent
<1>5. b \in Context /\ e \in Context
  BY <1>4 DEF Context, SslStates
<1>6. /\ Base(b) /\ OnQueue(b) /\ Step(d, b)
      /\ b.state = "DTLS_ATTACH_REQUEST" /\ b.dtls = "CLOSING"
  BY <1>3, <1>4, <1>5 DEF Base, SetupInv, QueueInv, DtlsInv, RequestInv, RedirectInv,
       SctInv, Connected, OnQueue, WaitStates, Step, Context
<1>7. Base(e) /\ Attaching(e) /\ Step(d, e) /\ e.moduleState = "RUNNING"
  BY <1>3, <1>4, <1>5 DEF Base, SetupInv, QueueInv, DtlsInv, RequestInv, RedirectInv,
       SctInv, Connected, WaitStates, Step, Context, Attaching
<1> HIDE DEF b, e
<1>8. Step(c, b) /\ Step(c, e)
  BY <1>1, <1>3, <1>4, <1>5, <1>6, <1>7, StepTransitive
<1>9. CASE ctx' = d
  BY <1>3, <1>9 DEF Good
<1>10. CASE ctx' = DtlsAccessDenied(b)
  <2>1. Good(ctx') /\ Step(b, ctx')
    BY <1>6, <1>10, DtlsAccessDeniedGood
  <2>2. ctx' \in Context
    BY <2>1 DEF Good, Base
  <2> QED
    BY <1>1, <1>5, <1>8, <2>1, <2>2, StepTransitive
<1>11. CASE ctx' = DtlsClosed(b)
  <2>1. Good(ctx') /\ Step(b, ctx')
    BY <1>6, <1>11, DtlsClosedGood
  <2>2. ctx' \in Context
    BY <2>1 DEF Good, Base
  <2> QED
    BY <1>1, <1>5, <1>8, <2>1, <2>2, StepTransitive
<1>12. CASE \E alpn, oom \in BOOLEAN : ctx' = DtlsConnected(e, alpn, oom, snd)
  <2>1. PICK alpn \in BOOLEAN, oom \in BOOLEAN : ctx' = DtlsConnected(e, alpn, oom, snd)
    BY <1>12
  <2>2. Good(ctx') /\ Step(e, ctx')
    BY <1>7, <2>1, AttachingCloseGood, SendAttachStartRequestGood DEF DtlsConnected
  <2>3. ctx' \in Context
    BY <2>2 DEF Good, Base
  <2> QED
    BY <1>1, <1>5, <1>8, <2>2, <2>3, StepTransitive
<1> QED
  BY <1>2, <1>9, <1>10, <1>11, <1>12 DEF b, d, e

\* A CoAP response, whatever its code and payload.
LEMMA ResponseGood ==
    ASSUME NEW c, Good(c), OnQueue(c), c.dtls = "DATA", Response(c)
    PROVE  Good(ctx') /\ Step(c, ctx')
<1>1. PICK oom \in BOOLEAN, snd \in BOOLEAN :
        \/ /\ "start" \in c.req
           /\ \E status \in {"ATTACHED", "REDIRECT", "ERROR"} :
                 ctx' = AttachStartDone(c, status, oom, snd)
        \/ /\ "sct" \in c.req
           /\ \/ ctx' = SctDone([c EXCEPT !.accepted = c.body], TRUE, oom, snd)
              \/ ctx' = SctDone(c, FALSE, oom, snd)
        \/ /\ "end" \in c.req
           /\ \E ok \in BOOLEAN : ctx' = AttachEndDone(c, ok, oom, snd)
  BY Zenon DEF Response
<1>2. CASE /\ "start" \in c.req
           /\ \E status \in {"ATTACHED", "REDIRECT", "ERROR"} :
                 ctx' = AttachStartDone(c, status, oom, snd)
  BY <1>2, AttachStartDoneGood
<1>3. CASE "sct" \in c.req /\ ctx' = SctDone([c EXCEPT !.accepted = c.body], TRUE, oom, snd)
  BY Zenon, <1>3, SctAcceptedGood
<1>4. CASE "sct" \in c.req /\ ctx' = SctDone(c, FALSE, oom, snd)
  BY Zenon, <1>4, SctFailedGood
<1>5. CASE "end" \in c.req /\ \E ok \in BOOLEAN : ctx' = AttachEndDone(c, ok, oom, snd)
  BY <1>5, AttachEndDoneGood
<1> QED
  BY Zenon, <1>1, <1>2, <1>3, <1>4, <1>5

\* One mbedtls_ssl_read, whatever its result.
LEMMA ReadDataGood ==
    ASSUME NEW c, Good(c), OnQueue(c), c.state # "DNS", c.dtls = "DATA", ReadData(c)
    PROVE  Good(ctx') /\ Step(c, ctx')
<1>1. /\ Base(c) /\ Settled(c) /\ c \in Context /\ c.contacted /\ c.state # "REDIRECT"
  BY DEF Good, Base, DtlsInv, Settled, ConnSettled
<1>2. CASE Response(c)
  BY <1>2, ResponseGood
<1>3. ASSUME NEW snd \in BOOLEAN,
             LET d == Send(c, snd) IN
             \/ ctx' = d
             \/ ctx' = DtlsAccessDenied(d)
             \/ ctx' = DtlsClosed([d EXCEPT !.dtls = "CLOSING"])
             \/ EofPossible /\ ctx' = [d EXCEPT !.dtls = "CLOSING"]
      PROVE  Good(ctx') /\ Step(c, ctx')
  <2> DEFINE d == Send(c, snd)
             b == [d EXCEPT !.dtls = "CLOSING"]
  <2>1. Base(d) /\ Settled(d) /\ Step(c, d) /\ OnlySent(c, d)
    BY <1>1, SendBase
  <2> HIDE DEF d
  <2>2. /\ d \in Context /\ d.state \notin {"DNS", "REDIRECT"} /\ OnQueue(d)
        /\ d.dtls = "DATA" /\ d.contacted
    BY <1>1, <2>1 DEF Base, OnlySent, OnQueue
  <2>3. b \in Context
    BY <2>2 DEF Context, SslStates
  <2>4. /\ Base(b) /\ OnQueue(b) /\ Step(d, b) /\ b.dtls = "CLOSING"
        /\ b.state \notin {"DNS", "REDIRECT"}
    BY <2>1, <2>2, <2>3 DEF Base, SetupInv, QueueInv, DtlsInv, RequestInv, RedirectInv,
         SctInv, Connected, OnQueue, WaitStates, Step, Context
  <2>5. EofPossible => Settled(b)
    BY <2>1, <2>2 DEF Settled, ConnSettled, SctSettled, Connected, Context
  <2> HIDE DEF b
  <2>6. Step(c, b)
    BY <1>1, <2>1, <2>2, <2>3, <2>4, StepTransitive
  <2>7. CASE ctx' = d
    BY <2>1, <2>7 DEF Good
  <2>8. CASE ctx' = DtlsAccessDenied(d)
    <3>1. Good(ctx') /\ Step(d, ctx')
      BY <2>1, <2>2, <2>8, DtlsAccessDeniedGood
    <3>2. ctx' \in Context
      BY <3>1 DEF Good, Base
    <3> QED
      BY <1>1, <2>1, <2>2, <3>1, <3>2, StepTransitive
  <2>9. CASE ctx' = DtlsClosed(b)
    <3>1. Good(ctx') /\ Step(b, ctx')
      BY <2>4, <2>9, DtlsClosedGood
    <3>2. ctx' \in Context
      BY <3>1 DEF Good, Base
    <3> QED
      BY <1>1, <2>3, <2>6, <3>1, <3>2, StepTransitive
  <2>10. CASE EofPossible /\ ctx' = b
    BY <2>4, <2>5, <2>6, <2>10 DEF Good
  <2> QED
    BY <1>3, <2>7, <2>8, <2>9, <2>10 DEF b, d
<1> QED
  BY Zenon, <1>2, <1>3 DEF ReadData

\* nm_dtls_event_do_one, in every state but DNS.
LEMMA DoOneGood ==
    ASSUME NEW c, Good(c), OnQueue(c), c.contacted, c.state # "DNS", DoOne(c)
    PROVE  Good(ctx') /\ Step(c, ctx')
BY HandshakeGood, ReadDataGood DEF DoOne

-----------------------------------------------------------------------------
(* The actions *)

\* What ClosedStaysClosed and CloseQuiescent ask of a step.
Allowed ==
    /\ ctx.moduleState = "CLOSED" =>
          /\ ctx'.moduleState = "CLOSED"
          /\ ctx'.dnsPending <= ctx.dnsPending
          /\ ctx'.dtls = "CONNECTING" => ctx.dtls = "CONNECTING"
          /\ ctx'.req \subseteq ctx.req \cup {"sct"}
          /\ ctx'.lastEvent = ctx.lastEvent
    /\ ctx.closedCb /\ ~ctx'.closedCb =>
          /\ ctx'.moduleState = "SETUP" \/ ctx'.state = "CLOSED"
          /\ ctx'.dnsPending = 0
          /\ ~ctx'.reattachTimer /\ ctx'.taken # "reattach"

\* A handler of the queue that settles keeps the invariant.
LEMMA QueueStep ==
    ASSUME IInv, Good(ctx'), Step(ctx, ctx'), ctx.moduleState # "SETUP", calls' = calls
    PROVE  IInv' /\ Allowed
<1>1. IInv'
  BY DEF IInv, Good, Step
<1>2. Allowed
  BY DEF Allowed, Step
<1> QED
  BY <1>1, <1>2

\* nc_attacher_start.
LEMMA StartKeeps ==
    ASSUME IInv, Start
    PROVE  IInv' /\ Allowed
<1> DEFINE b == [ctx EXCEPT !.moduleState = "RUNNING"]
           d == [b EXCEPT !.state = "DNS", !.dnsPending = b.dnsPending + 1]
<1>1. ctx \in Context /\ ctx.moduleState = "SETUP" /\ calls = 0 /\ calls' = calls
  BY DEF IInv, Base, Start
<1>2. b \in Context
  BY <1>1 DEF Context, ModuleStates
<1>3. ctx' = d
  <2> HIDE DEF b
  <2> QED
    BY Zenon, <1>2, StateChangeIs DEF Start, b, AttachStates
<1>4. d \in Context
  <2> HIDE DEF b
  <2>1. b.dnsPending + 1 \in Nat
    BY <1>2 DEF Context
  <2> QED
    BY ZenonT(40), <1>2, <2>1 DEF Context, AttachStates
<1>5. ~ctx.closeEv /\ ~ctx.closedCb
  BY <1>1 DEF IInv, Base, SetupInv
<1>6. /\ d.moduleState = "RUNNING" /\ d.state = "DNS" /\ d.dnsPending = 1
      /\ d.closedCb = ctx.closedCb
  BY <1>1 DEF Context, IInv, Base, SetupInv
<1>7. Base(d)
  BY <1>1, <1>4, <1>5, <1>6, RedirectAssumption DEF IInv, Base, SetupInv, QueueInv, DtlsInv,
       RequestInv, RedirectInv, SctInv, Connected, WaitStates, Context
<1>8. Settled(d)
  BY <1>6 DEF Settled, ConnSettled, SctSettled, Connected
<1> HIDE DEF d
<1> QED
  BY <1>1, <1>3, <1>5, <1>6, <1>7, <1>8 DEF IInv, Allowed

\* dns_resolved_callback.
LEMMA DnsResolvedKeeps ==
    ASSUME IInv, DnsResolved
    PROVE  IInv' /\ Allowed
<1> DEFINE d == [ctx EXCEPT !.dnsPending = ctx.dnsPending - 1]
<1>1. /\ ctx \in Context /\ ctx.state = "DNS" /\ ctx.moduleState # "SETUP"
      /\ ctx.dnsPending = 1 /\ ctx.taken = "none" /\ calls' = calls
  BY DEF IInv, Base, SetupInv, QueueInv, DnsResolved, Free, Context
<1>2. d \in Context /\ d.dnsPending = 0
  BY <1>1 DEF Context
<1>3. SUFFICES Good(ctx') /\ Step(ctx, ctx')
  BY <1>1, QueueStep
<1>4. CASE ctx.moduleState = "CLOSED"
  <2> DEFINE e == [d EXCEPT !.state = "CLOSED", !.closeEv = TRUE]
  <2>1. ctx' = e
    <3>1. ctx' = StateChange(d, "CLOSED")
      BY <1>1, <1>4 DEF DnsResolved
    <3> HIDE DEF d
    <3> QED
      BY Zenon, <1>2, <3>1, StateChangeIs DEF AttachStates
  <2>2. e \in Context
    <3> HIDE DEF d
    <3> QED
      BY ZenonT(40), <1>2 DEF Context, AttachStates
  <2>3. Base(e)
    BY <1>1, <1>2, <1>4, <2>2 DEF IInv, Base, SetupInv, QueueInv, DtlsInv, RequestInv,
         RedirectInv, SctInv, Connected, WaitStates, Context
  <2>4. Settled(e) /\ Step(ctx, e)
    BY <1>1, <1>2 DEF Settled, ConnSettled, SctSettled, Connected, Step, Context
  <2> HIDE DEF e
  <2> QED
    BY <2>1, <2>3, <2>4 DEF Good
<1>5. CASE ctx.moduleState = "RUNNING" /\ ctx' = StateChange(d, "RETRY_WAIT")
  <2> DEFINE e == [d EXCEPT !.state = "RETRY_WAIT", !.reattachTimer = TRUE]
  <2>1. ctx' = e
    <3> HIDE DEF d
    <3> QED
      BY Zenon, <1>2, <1>5, StateChangeIs DEF AttachStates, WaitStates
  <2>2. e \in Context
    <3> HIDE DEF d
    <3> QED
      BY Zenon, <1>2 DEF Context, AttachStates
  <2>3. Base(e)
    BY <1>1, <1>2, <1>5, <2>2 DEF IInv, Base, SetupInv, QueueInv, DtlsInv, RequestInv,
         RedirectInv, SctInv, Connected, WaitStates, Context
  <2>4. Settled(e) /\ Step(ctx, e)
    BY <1>1, <1>2, <1>5 DEF Settled, ConnSettled, SctSettled, Connected, Step, Context
  <2> HIDE DEF e
  <2> QED
    BY <2>1, <2>3, <2>4 DEF Good
<1>6. ASSUME ctx.moduleState = "RUNNING", NEW snd \in BOOLEAN,
             \/ ctx' = Connect(d, snd)
             \/ ctx' = DtlsClosed([Connect(d, snd) EXCEPT !.dtls = "CLOSING"])
      PROVE  Good(ctx') /\ Step(ctx, ctx')
  <2> DEFINE a == [d EXCEPT !.state = "DTLS_ATTACH_REQUEST", !.dtls = "CONNECTING",
                            !.sending = FALSE, !.contacted = TRUE]
             e == Send(a, snd)
             f == [e EXCEPT !.dtls = "CLOSING"]
  <2>1. Connect(d, snd) = e
    BY DEF Connect
  <2>2. a \in Context
    <3> HIDE DEF d
    <3> QED
      BY ZenonT(40), <1>2 DEF Context, AttachStates, SslStates
  <2>3. /\ a.state = "DTLS_ATTACH_REQUEST" /\ a.dtls = "CONNECTING" /\ a.contacted
        /\ a.moduleState = "RUNNING" /\ a.taken = "none" /\ a.req = {} /\ a.orphan = {}
    BY <1>1, <1>6 DEF Context, IInv, Base, RequestInv, WaitStates
  <2>4. Base(a)
    <3>1. \A r \in Requests : a.callback[r] = "NULL"
      BY <1>1, <2>3 DEF IInv, Base, RequestInv, Context, WaitStates
    <3>2. RequestInv(a)
      BY <2>3, <3>1 DEF RequestInv, Requests
    <3>3. SetupInv(a) /\ QueueInv(a) /\ DtlsInv(a)
      BY ZenonT(40), <1>1, <1>2, <2>3 DEF IInv, Base, SetupInv, QueueInv, DtlsInv, Connected,
           WaitStates, Context
    <3>4. RedirectInv(a) /\ SctInv(a)
      BY <1>1, <2>3 DEF IInv, Base, RedirectInv, SctInv, Context
    <3> QED
      BY <2>2, <3>2, <3>3, <3>4 DEF Base
  <2>5. Settled(a) /\ Step(ctx, a)
    BY <1>1, <1>2, <1>6, <2>3 DEF Settled, ConnSettled, SctSettled, Connected, Step, Context
  <2> HIDE DEF a
  <2>6. Base(e) /\ Settled(e) /\ Step(a, e) /\ OnlySent(a, e)
    BY <2>3, <2>4, <2>5, SendBase DEF OnQueue
  <2> HIDE DEF e
  <2>7. /\ e \in Context /\ e.state = "DTLS_ATTACH_REQUEST" /\ e.moduleState = "RUNNING"
        /\ e.taken = "none" /\ e.contacted
    BY <2>3, <2>6 DEF Base, OnlySent
  <2>8. Step(ctx, e)
    BY <1>1, <2>2, <2>5, <2>6, <2>7, StepTransitive
  <2>9. CASE ctx' = e
    BY <2>6, <2>8, <2>9 DEF Good
  <2>10. CASE ctx' = DtlsClosed(f)
    <3>1. f \in Context
      BY <2>7 DEF Context, SslStates
    <3>2. /\ Base(f) /\ OnQueue(f) /\ Step(e, f)
          /\ f.state = "DTLS_ATTACH_REQUEST" /\ f.dtls = "CLOSING"
      BY <2>6, <2>7, <3>1 DEF Base, SetupInv, QueueInv, DtlsInv, RequestInv, RedirectInv,
           SctInv, Connected, OnQueue, WaitStates, Step, Context
    <3> HIDE DEF f
    <3>3. Good(ctx') /\ Step(f, ctx')
      BY <2>10, <3>2, DtlsClosedGood
    <3>4. ctx' \in Context
      BY <3>3 DEF Good, Base
    <3> QED
      BY <1>1, <2>7, <2>8, <3>1, <3>2, <3>3, <3>4, StepTransitive
  <2> QED
    BY <1>6, <2>1, <2>9, <2>10
<1>7. ctx.moduleState \in {"RUNNING", "CLOSED"}
  BY <1>1 DEF Context, ModuleStates
<1> QED
  BY Zenon, <1>4, <1>5, <1>6, <1>7 DEF DnsResolved

\* nc_attacher_handle_dtls_packet.
LEMMA PacketReceivedKeeps ==
    ASSUME IInv, PacketReceived
    PROVE  IInv' /\ Allowed
<1>1. /\ Good(ctx) /\ OnQueue(ctx) /\ ctx.contacted /\ ctx.state # "DNS" /\ DoOne(ctx)
      /\ calls' = calls
  BY DEF IInv, Good, Base, SetupInv, PacketReceived, Free, OnQueue
<1>2. Good(ctx') /\ Step(ctx, ctx')
  BY <1>1, DoOneGood
<1> QED
  BY <1>1, <1>2, QueueStep DEF OnQueue

\* nm_dtls_timed_event_do_one.
LEMMA DtlsTimerKeeps ==
    ASSUME IInv, DtlsTimer
    PROVE  IInv' /\ Allowed
<1>1. /\ Good(ctx) /\ OnQueue(ctx) /\ ctx.contacted /\ ctx.state # "DNS" /\ DoOne(ctx)
      /\ calls' = calls
  BY DEF IInv, Good, Base, SetupInv, DtlsInv, Connected, DtlsTimer, TimersMayRun, Free,
         HasConnection, OnQueue
<1>2. Good(ctx') /\ Step(ctx, ctx')
  BY <1>1, DoOneGood
<1> QED
  BY <1>1, <1>2, QueueStep DEF OnQueue

\* nm_dtls_udp_send_callback.
LEMMA UdpSendCallbackKeeps ==
    ASSUME IInv, UdpSendCallback
    PROVE  IInv' /\ Allowed
<1> DEFINE d == [ctx EXCEPT !.sending = FALSE, !.udpSent = FALSE]
<1>1. /\ ctx \in Context /\ ctx.udpSent /\ ctx.contacted /\ ctx.state # "DNS"
      /\ ctx.moduleState # "SETUP" /\ ctx.taken = "none" /\ calls' = calls
  BY DEF IInv, Base, SetupInv, DtlsInv, UdpSendCallback, Free
<1>2. d \in Context
  BY ZenonT(40), <1>1 DEF Context
<1>3. /\ d.contacted /\ d.state # "DNS" /\ ~d.udpSent /\ d.dtls = ctx.dtls
      /\ OnQueue(d) /\ Step(ctx, d)
  BY <1>1 DEF Context, OnQueue, Step
<1>4. Base(d)
  BY <1>1, <1>2 DEF IInv, Base, SetupInv, QueueInv, DtlsInv, RequestInv, RedirectInv,
       SctInv, Connected, WaitStates, Context
<1>5. d.dtls # "CLOSING" => Settled(d)
  BY <1>1 DEF IInv, Settled, ConnSettled, SctSettled, Connected, Context
<1>6. (ctx.dtls = "CLOSING" /\ ctx' = DtlsClosed(d)) \/ DoOne(d)
  BY DEF UdpSendCallback
<1> HIDE DEF d
<1>7. Good(ctx') /\ Step(d, ctx')
  <2>1. CASE ctx.dtls = "CLOSING" /\ ctx' = DtlsClosed(d)
    BY <1>3, <1>4, <2>1, DtlsClosedGood
  <2>2. CASE DoOne(d)
    <3>1. d.dtls # "CLOSING"
      BY <2>2 DEF DoOne
    <3> QED
      BY <1>3, <1>4, <1>5, <2>2, <3>1, DoOneGood DEF Good
  <2> QED
    BY <1>6, <2>1, <2>2
<1>8. ctx' \in Context
  BY <1>7 DEF Good, Base
<1>9. Step(ctx, ctx')
  BY <1>1, <1>2, <1>3, <1>7, <1>8, StepTransitive
<1> QED
  BY <1>1, <1>7, <1>9, QueueStep

\* nm_mbedtls_cli_start_send_deferred.
LEMMA StartSendKeeps ==
    ASSUME IInv, StartSend
    PROVE  IInv' /\ Allowed
<1>1. /\ Base(ctx) /\ Settled(ctx) /\ ctx.contacted /\ ctx.state # "DNS" /\ OnQueue(ctx)
      /\ calls' = calls /\ ctx' = Send(ctx, TRUE)
  BY Zenon DEF IInv, Base, SetupInv, DtlsInv, Connected, StartSend, Free, HasConnection, OnQueue
<1>2. Good(ctx') /\ Step(ctx, ctx')
  BY Zenon, <1>1, SendBase DEF Good
<1> QED
  BY <1>1, <1>2, QueueStep DEF OnQueue

\* The handlers of the CoAP client that are called without a response.
LEMMA CoapConnectionRemovedKeeps ==
    ASSUME IInv, CoapConnectionRemoved
    PROVE  IInv' /\ Allowed
<1>1. PICK r \in ctx.orphan, oom \in BOOLEAN, snd \in BOOLEAN :
          ctx' = NoResponse(ctx, r, oom, snd)
  BY DEF CoapConnectionRemoved
<1>2. Good(ctx) /\ OnQueue(ctx) /\ calls' = calls
  BY Zenon, <1>1 DEF IInv, Good, Base, SetupInv, RequestInv, CoapConnectionRemoved, Free, OnQueue
<1>3. Good(ctx') /\ Step(ctx, ctx')
  BY <1>1, <1>2, NoResponseGood
<1> QED
  BY <1>2, <1>3, QueueStep DEF OnQueue

\* nc_coap_client_handle_timeout gives a request up.
LEMMA CoapTimeoutKeeps ==
    ASSUME IInv, CoapTimeout
    PROVE  IInv' /\ Allowed
<1>1. PICK r \in ctx.req, oom \in BOOLEAN, snd \in BOOLEAN :
          ctx' = NoResponse(ctx, r, oom, snd)
  BY DEF CoapTimeout
<1>2. Good(ctx) /\ OnQueue(ctx) /\ calls' = calls
  BY Zenon, <1>1 DEF IInv, Good, Base, SetupInv, RequestInv, CoapTimeout, TimersMayRun, Free, OnQueue
<1>3. Good(ctx') /\ Step(ctx, ctx')
  BY <1>1, <1>2, NoResponseGood
<1> QED
  BY <1>2, <1>3, QueueStep DEF OnQueue

\* resolve_close: the closed callback is called in a state that is final.
LEMMA ResolveCloseKeeps ==
    ASSUME IInv, ResolveClose
    PROVE  IInv' /\ Allowed
<1> DEFINE d == [ctx EXCEPT !.closeEv = FALSE, !.reattachTimer = FALSE, !.closedCb = FALSE]
<1>1. /\ ctx \in Context /\ ctx.closeEv /\ ctx.taken = "none" /\ ctx' = d /\ calls' = calls
      /\ ctx.moduleState = "SETUP" \/ ctx.state = "CLOSED"
  BY DEF IInv, Base, QueueInv, ResolveClose, Free
<1>2. d \in Context
  BY ZenonT(40), <1>1 DEF Context
<1>3. Base(d)
  BY <1>1, <1>2 DEF IInv, Base, SetupInv, QueueInv, DtlsInv, RequestInv, RedirectInv,
       SctInv, Connected, WaitStates, Context
<1>4. Settled(d) /\ ~d.closeEv
  BY <1>1 DEF IInv, Settled, ConnSettled, SctSettled, Connected, Context
<1>5. ctx.dnsPending = 0
  BY <1>1 DEF IInv, Base, SetupInv, QueueInv
<1>6. Allowed
  BY <1>1, <1>5 DEF Allowed, Context
<1> HIDE DEF d
<1> QED
  BY <1>1, <1>3, <1>4, <1>6 DEF IInv

\* queue_thread takes a timed event.
LEMMA TakeTimedEventKeeps ==
    ASSUME IInv, TakeTimedEvent
    PROVE  IInv' /\ Allowed
<1> DEFINE d == [ctx EXCEPT !.reattachTimer = FALSE, !.taken = "reattach"]
           e == [ctx EXCEPT !.keepAlive = FALSE, !.taken = "keepAlive"]
<1>1. /\ ctx \in Context /\ ctx.taken = "none" /\ calls' = calls
      /\ ~ctx.closeEv /\ ~ctx.udpSent /\ ctx.orphan = {}
  BY DEF IInv, Base, TakeTimedEvent, TimersMayRun, Free
<1>2. d \in Context /\ e \in Context
  BY ZenonT(40), <1>1 DEF Context
<1>3. CASE ctx.reattachTimer /\ ctx' = d
  <2>1. ctx.state \in WaitStates /\ ctx.moduleState # "SETUP"
    BY <1>3 DEF IInv, Base, QueueInv, SetupInv, WaitStates
  <2>2. Base(d)
    BY <1>1, <1>2, <2>1 DEF IInv, Base, SetupInv, QueueInv, DtlsInv, RequestInv, RedirectInv,
         SctInv, Connected, WaitStates, Context
  <2>3. Settled(d) /\ Step(ctx, d)
    BY <1>1, <2>1 DEF Settled, ConnSettled, SctSettled, Connected, WaitStates, Step, Context
  <2> HIDE DEF d
  <2> QED
    BY <1>1, <1>3, <2>1, <2>2, <2>3, QueueStep DEF Good
<1>4. CASE ctx.keepAlive /\ ctx' = e
  <2>1. ctx.moduleState # "SETUP"
    BY <1>4 DEF IInv, Base, QueueInv, SetupInv
  <2>2. Base(e)
    BY <1>1, <1>2, <1>4, <2>1 DEF IInv, Base, SetupInv, QueueInv, DtlsInv, RequestInv,
         RedirectInv, SctInv, Connected, WaitStates, Context
  <2>3. Settled(e) /\ Step(ctx, e)
    BY <1>1 DEF IInv, Settled, ConnSettled, SctSettled, Connected, Step, Context
  <2> HIDE DEF e
  <2> QED
    BY <1>1, <1>4, <2>1, <2>2, <2>3, QueueStep DEF Good
<1> QED
  BY <1>3, <1>4 DEF TakeTimedEvent

\* reattach.
LEMMA ReattachKeeps ==
    ASSUME IInv, Reattach
    PROVE  IInv' /\ Allowed
<1> DEFINE d == [ctx EXCEPT !.taken = "none"]
           b == [d EXCEPT !.redirectAttempts = 0]
           e == [d EXCEPT !.state = "CLOSED", !.closeEv = TRUE]
           f == [b EXCEPT !.state = "DNS", !.dnsPending = b.dnsPending + 1]
<1>1. /\ ctx \in Context /\ ctx.taken = "reattach" /\ calls' = calls
      /\ ctx.moduleState # "SETUP" /\ ctx.state \in WaitStates \cup {"CLOSED"}
  BY DEF IInv, Base, SetupInv, QueueInv, Reattach
<1>2. d \in Context /\ b \in Context /\ d.moduleState = ctx.moduleState
  BY ZenonT(40), <1>1 DEF Context
<1>3. CASE ctx.moduleState = "CLOSED"
  <2>1. ctx' = StateChange(d, "CLOSED")
    BY <1>2, <1>3 DEF Reattach
  <2>2. ctx' = e
    <3> HIDE DEF d
    <3> QED
      BY Zenon, <1>2, <2>1, StateChangeIs DEF AttachStates
  <2>3. e \in Context
    <3> HIDE DEF d
    <3> QED
      BY ZenonT(40), <1>2 DEF Context, AttachStates
  <2>4. ctx.state = "CLOSED"
    BY <1>1, <1>3 DEF IInv, Base, QueueInv, WaitStates
  <2>5. Base(e)
    BY <1>1, <1>3, <2>3, <2>4 DEF IInv, Base, SetupInv, QueueInv, DtlsInv, RequestInv,
         RedirectInv, SctInv, Connected, WaitStates, Context
  <2>6. Settled(e) /\ Step(ctx, e)
    BY <1>1, <2>4 DEF Settled, ConnSettled, SctSettled, Connected, Step, Context
  <2> HIDE DEF e
  <2> QED
    BY <1>1, <2>2, <2>5, <2>6, QueueStep DEF Good
<1>4. CASE ctx.moduleState = "RUNNING"
  <2>1. ctx' = StateChange(b, "DNS")
    BY <1>2, <1>4 DEF Reattach
  <2>2. ctx' = f
    <3> HIDE DEF b
    <3> QED
      BY Zenon, <1>2, <2>1, StateChangeIs DEF AttachStates
  <2>3. f \in Context
    <3> HIDE DEF b
    <3>1. b.dnsPending + 1 \in Nat
      BY <1>2 DEF Context
    <3> QED
      BY ZenonT(40), <1>2, <3>1 DEF Context, AttachStates
  <2>4. ctx.state \in WaitStates
    BY <1>1, <1>4 DEF IInv, Base, QueueInv
  <2>5. Base(f)
    BY <1>1, <1>4, <2>3, <2>4, RedirectAssumption DEF IInv, Base, SetupInv, QueueInv,
         DtlsInv, RequestInv, RedirectInv, SctInv, Connected, WaitStates, Context
  <2>6. Settled(f) /\ Step(ctx, f)
    BY <1>1, <1>4 DEF Settled, ConnSettled, SctSettled, Connected, Step, Context
  <2> HIDE DEF f
  <2> QED
    BY <1>1, <2>2, <2>5, <2>6, QueueStep DEF Good
<1> QED
  BY <1>1, <1>3, <1>4 DEF Context, ModuleStates

\* keep_alive_event.
LEMMA KeepAliveEventKeeps ==
    ASSUME IInv, KeepAliveEvent
    PROVE  IInv' /\ Allowed
<1> DEFINE d == [ctx EXCEPT !.taken = "none"]
           e == [d EXCEPT !.keepAlive = TRUE]
<1>1. /\ ctx \in Context /\ ctx.taken = "keepAlive" /\ calls' = calls
      /\ ctx.moduleState # "SETUP" /\ ctx.contacted /\ ctx.state \in {"ATTACHED", "CLOSED"}
  BY DEF IInv, Base, SetupInv, QueueInv, KeepAliveEvent
<1>2. d \in Context /\ e \in Context
  BY ZenonT(40), <1>1 DEF Context
<1>3. Base(d)
  BY <1>1, <1>2 DEF IInv, Base, SetupInv, QueueInv, DtlsInv, RequestInv, RedirectInv,
       SctInv, Connected, WaitStates, Context
<1>4. Base(e)
  BY <1>1, <1>2 DEF IInv, Base, SetupInv, QueueInv, DtlsInv, RequestInv, RedirectInv,
       SctInv, Connected, WaitStates, Context
<1>5. Settled(e) /\ Step(ctx, e)
  BY <1>1 DEF IInv, Settled, ConnSettled, SctSettled, Connected, Step, Context
<1>6. /\ d.dtls = "CLOSING" => Settled(d)
      /\ SctSettled(d) /\ Step(ctx, d) /\ OnQueue(d) /\ d.contacted /\ d.state # "DNS"
  BY <1>1 DEF IInv, Settled, ConnSettled, SctSettled, Connected, Step, OnQueue, Context
<1>7. CASE ctx' = e
  <2> HIDE DEF e
  <2> QED
    BY <1>1, <1>4, <1>5, <1>7, QueueStep DEF Good
<1>8. ASSUME NEW snd \in BOOLEAN, ctx' = DtlsClose(d, snd)
      PROVE  IInv' /\ Allowed
  <2> HIDE DEF d
  <2>1. Good(ctx') /\ Step(d, ctx')
    BY <1>3, <1>6, <1>8, DtlsCloseGood
  <2>2. ctx' \in Context
    BY <2>1 DEF Good, Base
  <2>3. Step(ctx, ctx')
    BY <1>1, <1>2, <1>6, <2>1, <2>2, StepTransitive
  <2> QED
    BY <1>1, <2>1, <2>3, QueueStep
<1> QED
  BY <1>7, <1>8 DEF KeepAliveEvent

\* c is o after the first assignment of nc_attacher_async_close or
\* nc_attacher_stop: a callback may have been set, a timer cancelled.
CloseCalled(o, c) ==
    /\ c \in Context
    /\ c.moduleState = o.moduleState /\ c.state = o.state
    /\ c.redirectAttempts = o.redirectAttempts /\ c.dnsPending = o.dnsPending
    /\ c.reattachTimer = o.reattachTimer /\ c.closeEv = o.closeEv /\ c.taken = o.taken
    /\ c.dtls = o.dtls /\ c.sending = o.sending /\ c.udpSent = o.udpSent
    /\ c.callback = o.callback /\ c.req = o.req /\ c.orphan = o.orphan
    /\ c.version = o.version /\ c.uploadingVersion = o.uploadingVersion
    /\ c.synchronizedVersion = o.synchronizedVersion /\ c.body = o.body
    /\ c.accepted = o.accepted /\ c.sctFailed = o.sctFailed
    /\ c.contacted = o.contacted /\ c.lastEvent = o.lastEvent
    /\ c.keepAlive => o.keepAlive
    /\ o.closedCb => c.closedCb

\* What do_close does to a started module.
ClosingStep(c, d) ==
    /\ d.closedCb = c.closedCb /\ d.moduleState = "CLOSED" /\ d.dnsPending <= c.dnsPending
    /\ d.dtls = "CONNECTING" => c.dtls = "CONNECTING"
    /\ d.req \subseteq c.req \cup {"sct"}
    /\ c.moduleState = "CLOSED" => d.lastEvent = c.lastEvent

\* do_close before nc_attacher_start.
LEMMA DoCloseSetup ==
    ASSUME NEW o, Good(o), NEW c, CloseCalled(o, c), c.moduleState = "SETUP",
           NEW snd \in BOOLEAN
    PROVE  LET d == DoClose(c, snd)
           IN  Good(d) /\ d.moduleState = "SETUP" /\ d.closedCb = c.closedCb
<1> DEFINE d == [c EXCEPT !.closeEv = TRUE]
<1>1. c \in Context
  BY DEF CloseCalled
<1>2. DoClose(c, snd) = d
  BY DEF DoClose
<1>3. d \in Context
  BY Zenon, <1>1 DEF Context
<1>4. d.moduleState = "SETUP" /\ d.closedCb = c.closedCb /\ d.state = "DNS"
  BY <1>1 DEF Context, CloseCalled, Good, Base, SetupInv
<1>5. Base(d)
  BY <1>1, <1>3, <1>4 DEF CloseCalled, Good, Base, SetupInv, QueueInv, DtlsInv, RequestInv,
       RedirectInv, SctInv, Connected, WaitStates, Context
<1>6. Settled(d)
  BY <1>4 DEF Settled, ConnSettled, SctSettled, Connected
<1> HIDE DEF d
<1> QED
  BY <1>2, <1>4, <1>5, <1>6 DEF Good

\* do_close of a started module: the module is CLOSED, and the close is over
\* or an event that continues it is due.
LEMMA DoCloseGood ==
    ASSUME NEW o, Good(o), NEW c, CloseCalled(o, c), c.moduleState # "SETUP",
           NEW snd \in BOOLEAN
    PROVE  Good(DoClose(c, snd)) /\ ClosingStep(c, DoClose(c, snd))
<1> DEFINE d == [c EXCEPT !.moduleState = "CLOSED"]
           b == [d EXCEPT !.reattachTimer = FALSE]
<1>1. c \in Context /\ Base(o) /\ Settled(o)
  BY DEF CloseCalled, Good
<1>2. d \in Context /\ b \in Context
  BY ZenonT(40), <1>1 DEF Context, ModuleStates
<1>3. CASE c.state \in WaitStates
  <2> DEFINE e == [b EXCEPT !.state = "CLOSED", !.closeEv = TRUE]
  <2>1. DoClose(c, snd) = StateChange(b, "CLOSED")
    BY <1>3 DEF DoClose, WaitStates
  <2>2. StateChange(b, "CLOSED") = e
    <3> HIDE DEF b
    <3> QED
      BY Zenon, <1>2, StateChangeIs DEF AttachStates
  <2>3. e \in Context
    <3> HIDE DEF b
    <3> QED
      BY ZenonT(40), <1>2 DEF Context, AttachStates
  <2>4. Base(e)
    BY <1>1, <1>3, <2>3 DEF CloseCalled, Base, SetupInv, QueueInv, DtlsInv, RequestInv,
         RedirectInv, SctInv, Connected, WaitStates, Context
  <2>5. Settled(e) /\ ClosingStep(c, e)
    BY <1>1 DEF Settled, ConnSettled, SctSettled, Connected, ClosingStep, Context
  <2> HIDE DEF e
  <2> QED
    BY <2>1, <2>2, <2>4, <2>5 DEF Good
<1>4. CASE c.state = "CLOSED"
  <2> DEFINE e == [d EXCEPT !.closeEv = TRUE]
  <2>1. DoClose(c, snd) = e
    BY <1>4 DEF DoClose, WaitStates
  <2>2. e \in Context
    <3> HIDE DEF d
    <3> QED
      BY ZenonT(40), <1>2 DEF Context
  <2>3. Base(e)
    BY <1>1, <1>4, <2>2 DEF CloseCalled, Base, SetupInv, QueueInv, DtlsInv, RequestInv,
         RedirectInv, SctInv, Connected, WaitStates, Context
  <2>4. Settled(e) /\ ClosingStep(c, e)
    BY <1>1, <1>4 DEF Settled, ConnSettled, SctSettled, Connected, ClosingStep, Context
  <2> HIDE DEF e
  <2> QED
    BY <2>1, <2>3, <2>4 DEF Good
<1>5. CASE c.state \in {"DNS", "REDIRECT"} \/ (Connected(c) /\ c.dtls = "CLOSING")
  <2>1. DoClose(c, snd) = d
    <3>1. d.dtls = c.dtls
      BY <1>1 DEF Context
    <3> QED
      BY <1>5, <3>1 DEF DoClose, DtlsClose, WaitStates, Connected
  <2>2. c.state = "REDIRECT" => c.dtls = "CLOSING"
    BY <1>1 DEF CloseCalled, Settled, ConnSettled
  <2>3. Base(d)
    BY <1>1, <1>2, <1>5, <2>2 DEF CloseCalled, Base, SetupInv, QueueInv, DtlsInv, RequestInv,
         RedirectInv, SctInv, Connected, WaitStates, Context
  <2>4. Settled(d) /\ ClosingStep(c, d)
    BY <1>1, <1>5 DEF CloseCalled, Settled, ConnSettled, SctSettled, Connected, ClosingStep,
         Context
  <2> HIDE DEF d
  <2> QED
    BY <2>1, <2>3, <2>4 DEF Good
<1>6. CASE c.state \in {"DTLS_ATTACH_REQUEST", "ATTACHED"} /\ c.dtls # "CLOSING"
  <2> DEFINE e == [d EXCEPT !.dtls = "CLOSING"]
  <2>1. DoClose(c, snd) = Closing(e, snd)
    <3>1. d.dtls = c.dtls
      BY <1>1 DEF Context
    <3>2. DoClose(c, snd) = DtlsClose(d, snd)
      BY <1>6 DEF DoClose, WaitStates
    <3>3. DtlsClose(d, snd) = Closing(e, snd)
      <4> HIDE DEF d
      <4> QED
        BY <1>6, <3>1 DEF DtlsClose, Closing
    <3> QED
      BY <3>2, <3>3
  <2>2. e \in Context
    <3> HIDE DEF d
    <3> QED
      BY <1>2 DEF Context, SslStates
  <2>3. Base(e)
    BY <1>1, <1>6, <2>2 DEF CloseCalled, Base, SetupInv, QueueInv, DtlsInv, RequestInv,
         RedirectInv, SctInv, Connected, WaitStates, Context
  <2>4. /\ e.moduleState = "CLOSED" /\ e.state = c.state /\ e.dtls = "CLOSING"
        /\ e.closedCb = c.closedCb /\ e.dnsPending = c.dnsPending /\ e.req = c.req
        /\ e.lastEvent = c.lastEvent
    BY <1>1 DEF Context
  <2> HIDE DEF e
  <2>5. OnQueue(e) /\ e.state # "DNS" /\ SctSettled(e)
    BY <1>6, <2>4 DEF OnQueue, SctSettled
  <2>6. Good(Closing(e, snd)) /\ Step(e, Closing(e, snd))
    BY <2>3, <2>4, <2>5, ClosingGood
  <2>7. ClosingStep(c, Closing(e, snd))
    BY <2>4, <2>6 DEF Step, ClosingStep
  <2> QED
    BY <2>1, <2>6, <2>7
<1> QED
  BY <1>1, <1>3, <1>4, <1>5, <1>6 DEF Context, AttachStates, WaitStates, Connected

\* A call that ends in do_close keeps the invariant.
LEMMA CloseCallKeeps ==
    ASSUME IInv, NEW c, CloseCalled(ctx, c), NEW snd \in BOOLEAN,
           calls < MaxCalls, calls' = calls + 1, ctx' = DoClose(c, snd)
    PROVE  IInv' /\ Allowed
<1>1. Good(ctx) /\ calls' \in 0..MaxCalls /\ calls' > 0
  BY BoundAssumption DEF IInv, Good
<1>2. CASE c.moduleState = "SETUP"
  <2>1. Good(ctx') /\ ctx'.moduleState = "SETUP" /\ ctx'.closedCb = c.closedCb
    BY <1>1, <1>2, DoCloseSetup
  <2> QED
    BY <1>1, <1>2, <2>1 DEF IInv, Good, Allowed, CloseCalled
<1>3. CASE c.moduleState # "SETUP"
  <2>1. Good(ctx') /\ ClosingStep(c, ctx')
    BY <1>1, <1>3, DoCloseGood
  <2> QED
    BY <1>1, <2>1 DEF IInv, Good, Allowed, CloseCalled, ClosingStep
<1> QED
  BY <1>2, <1>3

\* nc_attacher_async_close.
LEMMA AsyncCloseKeeps ==
    ASSUME IInv, AsyncClose
    PROVE  IInv' /\ Allowed
<1> DEFINE c == [ctx EXCEPT !.closedCb = TRUE]
<1>1. ctx \in Context
  BY DEF IInv, Base
<1>2. CloseCalled(ctx, c)
  BY Zenon, <1>1 DEF CloseCalled, Context
<1>3. PICK snd \in BOOLEAN : ctx' = DoClose(c, snd)
  BY DEF AsyncClose
<1> HIDE DEF c
<1> QED
  BY Zenon, <1>2, <1>3, CloseCallKeeps DEF AsyncClose

\* nc_attacher_stop.
LEMMA StopKeeps ==
    ASSUME IInv, Stop
    PROVE  IInv' /\ Allowed
<1> DEFINE c == [ctx EXCEPT !.keepAlive = FALSE]
<1>1. ctx \in Context
  BY DEF IInv, Base
<1>2. CloseCalled(ctx, c)
  BY ZenonT(40), <1>1 DEF CloseCalled, Context
<1>3. PICK snd \in BOOLEAN : ctx' = DoClose(c, snd)
  BY DEF Stop
<1> HIDE DEF c
<1> QED
  BY Zenon, <1>2, <1>3, CloseCallKeeps DEF Stop

\* nc_attacher_add_server_connect_token, called from any thread at any time.
LEMMA AddServerConnectTokenKeeps ==
    ASSUME IInv, AddServerConnectToken
    PROVE  IInv' /\ Allowed
<1> DEFINE d == [ctx EXCEPT !.version = ctx.version + 1]
           e == [d EXCEPT !.sctFailed = TRUE]
<1>1. ctx \in Context /\ calls' = calls
  BY DEF IInv, Base, AddServerConnectToken
<1>2. ctx.version + 1 \in Nat
  BY <1>1 DEF Context
<1>3. d \in Context /\ e \in Context
  BY ZenonT(40), <1>1, <1>2 DEF Context
<1>4. Base(d)
  BY <1>1, <1>3 DEF IInv, Base, SetupInv, QueueInv, DtlsInv, RequestInv, RedirectInv,
       SctInv, Connected, WaitStates, Context
<1>5. Base(e)
  BY <1>1, <1>3 DEF IInv, Base, SetupInv, QueueInv, DtlsInv, RequestInv, RedirectInv,
       SctInv, Connected, WaitStates, Context
<1>6. /\ d.closeEv = ctx.closeEv /\ d.state = ctx.state /\ ConnSettled(d)
      /\ d.moduleState = ctx.moduleState /\ Step(ctx, d)
  BY <1>1 DEF IInv, Settled, ConnSettled, Connected, Step, Context
<1>7. e.closeEv = ctx.closeEv /\ Settled(e) /\ e.moduleState = ctx.moduleState /\ Step(ctx, e)
  BY <1>1 DEF IInv, Settled, ConnSettled, SctSettled, Connected, Step, Context
<1>8. CASE ctx' = e
  <2> HIDE DEF e
  <2> QED
    BY <1>1, <1>5, <1>7, <1>8 DEF IInv, Allowed, Step
<1>9. CASE ctx.state = "ATTACHED" /\ \E oom \in BOOLEAN : ctx' = SendSctRequest(d, oom)
  <2> HIDE DEF d
  <2>1. Good(ctx') /\ Step(d, ctx')
    BY <1>4, <1>6, <1>9, SendSctRequestGood
  <2>2. ctx' \in Context /\ ctx.moduleState # "SETUP"
    BY <1>9, <2>1 DEF Good, IInv, Base, SetupInv
  <2>3. Step(ctx, ctx')
    BY <1>1, <1>3, <1>6, <2>1, <2>2, StepTransitive
  <2> QED
    BY <1>1, <2>1, <2>2, <2>3, QueueStep
<1>10. CASE ctx.state # "ATTACHED" /\ ctx' = d
  <2> HIDE DEF d
  <2>1. Settled(d)
    BY <1>6, <1>10 DEF Settled, SctSettled
  <2> QED
    BY <1>1, <1>4, <1>6, <1>10, <2>1 DEF IInv, Allowed, Step
<1> QED
  BY <1>8, <1>9, <1>10 DEF AddServerConnectToken

-----------------------------------------------------------------------------
(* The invariant and the theorems *)

\* nc_attacher_init establishes the invariant.
LEMMA InitIInv ==
    Init => IInv
<1> SUFFICES ASSUME Init PROVE IInv
  OBVIOUS
<1>1. ctx \in Context
  BY DEF Init, Context, ModuleStates, AttachStates, SslStates, Requests
<1>2. RequestInv(ctx)
  BY Zenon DEF Init, RequestInv, Requests
<1>3. SetupInv(ctx) /\ QueueInv(ctx) /\ DtlsInv(ctx) /\ SctInv(ctx)
  BY Zenon DEF Init, SetupInv, QueueInv, DtlsInv, SctInv, Connected, WaitStates
<1>4. RedirectInv(ctx)
  <2>1. ctx.redirectAttempts = 0 /\ ctx.state = "DNS"
    BY Zenon DEF Init
  <2> QED
    BY <2>1, RedirectAssumption DEF RedirectInv
<1>5. Settled(ctx)
  BY Zenon DEF Init, Settled, ConnSettled, SctSettled, Connected
<1>6. calls \in 0..MaxCalls
  <2>1. calls = 0
    BY Zenon DEF Init
  <2> QED
    BY <2>1, BoundAssumption
<1>7. ~ctx.closeEv
  BY Zenon DEF Init
<1> QED
  BY <1>1, <1>2, <1>3, <1>4, <1>5, <1>6, <1>7 DEF IInv, Base

\* Every event and every call keeps the invariant and is allowed.
LEMMA NextIInv ==
    IInv /\ [Next]_vars => IInv' /\ (Allowed \/ UNCHANGED vars)
<1> SUFFICES ASSUME IInv, [Next]_vars
             PROVE  IInv' /\ (Allowed \/ UNCHANGED vars)
  OBVIOUS
<1>1. CASE UNCHANGED vars
  <2>1. ctx' = ctx /\ calls' = calls
    BY <1>1 DEF vars
  <2> QED
    BY <1>1, <2>1 DEF IInv
<1>2. CASE QueueEvent
  BY <1>2, StartKeeps, DnsResolvedKeeps, PacketReceivedKeeps, UdpSendCallbackKeeps,
     DtlsTimerKeeps, StartSendKeeps, CoapConnectionRemovedKeeps, CoapTimeoutKeeps,
     ResolveCloseKeeps, TakeTimedEventKeeps, ReattachKeeps, KeepAliveEventKeeps
     DEF QueueEvent
<1>3. CASE AsyncClose
  BY <1>3, AsyncCloseKeeps
<1>4. CASE Stop
  BY <1>4, StopKeeps
<1>5. CASE AddServerConnectToken
  BY <1>5, AddServerConnectTokenKeeps
<1> QED
  BY <1>1, <1>2, <1>3, <1>4, <1>5 DEF Next

\* The inductive invariant holds of every behaviour.
THEOREM Invariance == Spec => []IInv
<1>1. Init => IInv
  BY InitIInv
<1>2. IInv /\ [Next]_vars => IInv'
  BY NextIInv
<1> QED
  BY <1>1, <1>2, PTL DEF Spec

\* Every field of struct nc_attach_context keeps its type (TypeOK).
THEOREM TypeCorrect == Spec => []TypeOK
<1>1. IInv => TypeOK
  BY DEF IInv, Base, TypeOK
<1> QED
  BY <1>1, Invariance, PTL

\* In every state of a started attacher an event that moves it on is due,
\* provided that mbedtls_ssl_read does not return 0.
THEOREM AlwaysWakeup == ASSUME ~EofPossible PROVE Spec => []WakeupPending
<1>1. IInv => WakeupPending
  <2> SUFFICES ASSUME IInv, ctx.moduleState # "SETUP" PROVE WakeupPending
    BY DEF WakeupPending
  <2>1. ctx \in Context /\ ConnSettled(ctx)
    BY DEF IInv, Base, Settled
  <2>2. /\ ctx.state = "DNS" => ctx.dnsPending > 0
        /\ ctx.state \in WaitStates => ctx.reattachTimer \/ ctx.taken = "reattach"
        /\ ctx.state = "CLOSED" /\ ctx.closedCb => ctx.closeEv
    <3>1. QueueInv(ctx)
      BY DEF IInv, Base
    <3> QED
      BY <2>1, <3>1 DEF QueueInv, Context
  <2>3. ctx.dtls = "CONNECTING" /\ HasConnection => ctx.state = "DTLS_ATTACH_REQUEST"
    BY DEF IInv, Base, DtlsInv, Connected, HasConnection
  <2>4. HasConnection =>
         \/ ctx.dtls = "CONNECTING" /\ ctx.state = "DTLS_ATTACH_REQUEST"
         \/ ctx.dtls = "CLOSING" /\ ctx.udpSent
         \/ ctx.dtls = "DATA" /\ ctx.state = "DTLS_ATTACH_REQUEST" /\ ctx.req # {}
         \/ /\ ctx.dtls = "DATA" /\ ctx.state = "ATTACHED"
            /\ ctx.keepAlive \/ ctx.taken = "keepAlive"
    <3>1. ctx.dtls \in {"CONNECTING", "DATA", "CLOSING"}
      BY <2>1 DEF Context, SslStates
    <3> QED
      BY <2>1, <2>3, <3>1 DEF ConnSettled, Connected, HasConnection
  <2> QED
    BY <2>1, <2>2, <2>4 DEF WakeupPending, ConnSettled
<1> QED
  BY <1>1, Invariance, PTL

\* At most one resolution is outstanding, in state DNS (dns_start_resolve).
THEOREM OneResolution == Spec => []SingleResolution
<1>1. IInv => SingleResolution
  <2> SUFFICES ASSUME IInv PROVE SingleResolution
    OBVIOUS
  <2>1. SetupInv(ctx) /\ QueueInv(ctx) /\ ctx \in Context
    BY DEF IInv, Base
  <2> QED
    BY <2>1 DEF SetupInv, QueueInv, SingleResolution, Context
<1> QED
  BY <1>1, Invariance, PTL

\* `sending` of the DTLS client is set exactly while its send callback is due.
THEOREM SendingIsDue == Spec => []SendingFlag
<1>1. IInv => SendingFlag
  BY DEF IInv, Base, DtlsInv, SendingFlag
<1> QED
  BY <1>1, Invariance, PTL

\* A callback slot is set exactly while its one request is outstanding.
THEOREM SlotsMatchRequests == Spec => []CallbackSlots
<1>1. IInv => CallbackSlots
  BY DEF IInv, Base, RequestInv, CallbackSlots, Busy
<1> QED
  BY <1>1, Invariance, PTL

\* The handler of a request of a removed connection never meets a new one.
THEOREM HandlersNotStale == Spec => []NoStaleHandler
<1>1. IInv => NoStaleHandler
  BY DEF IInv, Base, RequestInv, NoStaleHandler
<1> QED
  BY <1>1, Invariance, PTL

\* synchronizedVersion is what the basestation accepted last.
THEOREM SctVersionExact == Spec => []SctNeverAhead
<1>1. IInv => SctNeverAhead
  BY DEF IInv, Base, SctInv, SctNeverAhead
<1> QED
  BY <1>1, Invariance, PTL

\* A token added at any time is uploaded while attached, or an upload failed.
THEOREM SctEventuallySent == Spec => []SctNotForgotten
<1>1. IInv => SctNotForgotten
  BY DEF IInv, Settled, SctSettled, SctNotForgotten, SctSynchronized, Busy
<1> QED
  BY <1>1, Invariance, PTL

\* At most MAX_REDIRECT_FOLLOW redirects are followed without a wait.
THEOREM RedirectsBounded == Spec => []RedirectBound
<1>1. IInv => RedirectBound
  BY DEF IInv, Base, RedirectInv, RedirectBound
<1> QED
  BY <1>1, Invariance, PTL

\* All together: flags, slots and counters have their types and agree with what is
\* outstanding.
THEOREM AllFlagsAgree == Spec => []FlagsAgree
  BY TypeCorrect, SendingIsDue, SlotsMatchRequests, RedirectsBounded, PTL DEF FlagsAgree

\* Tokens are neither ahead of the basestation nor forgotten.
THEOREM TokensInSync == Spec => []TokenSync
  BY SctVersionExact, SctEventuallySent, PTL DEF TokenSync

\* No event restarts a closed module.
THEOREM ClosedForGood == Spec => ClosedStaysClosed
<1>1. IInv /\ [Next]_vars =>
        [ctx.moduleState = "CLOSED" =>
          /\ ctx'.moduleState = "CLOSED"
          /\ ctx'.dnsPending <= ctx.dnsPending
          /\ ctx'.dtls = "CONNECTING" => ctx.dtls = "CONNECTING"
          /\ ctx'.req \subseteq ctx.req \cup {"sct"}
          /\ ctx'.lastEvent = ctx.lastEvent]_vars
  BY NextIInv DEF Allowed
<1> QED
  BY <1>1, Invariance, PTL DEF Spec, ClosedStaysClosed

\* resolve_close calls the closed callback only when nothing will follow.
THEOREM ClosedIsQuiet == Spec => CloseQuiescent
<1>1. IInv /\ [Next]_vars =>
        [ctx.closedCb /\ ~ctx'.closedCb =>
          /\ ctx'.moduleState = "SETUP" \/ ctx'.state = "CLOSED"
          /\ ctx'.dnsPending = 0
          /\ ~ctx'.reattachTimer /\ ctx'.taken # "reattach"]_vars
  BY NextIInv DEF Allowed
<1> QED
  BY <1>1, Invariance, PTL DEF Spec, CloseQuiescent

\* A closed attacher is quiet and stays closed.
THEOREM ClosedForeverHolds == Spec => ClosedForever
  BY ClosedForGood, ClosedIsQuiet DEF ClosedForever
=============================================================================
