---------------------------- MODULE DeviceProofs ----------------------------
(***************************************************************************)
(* Proofs about the connections of the device and about nc_device: what a  *)
(* connection waits for comes, the buffer of its keep alive is used once,  *)
(* it is not freed under a send of the socket, and a close is not lost.    *)
(***************************************************************************)
EXTENDS Device, SequenceTheorems, WellFoundedInduction, TLAPS

\* What a leaf is tried with, in this order, unless it names a prover of its own.
USE SMTT(30), Zenon, SMTT(60)

-----------------------------------------------------------------------------
(* Connections. *)

Entries == [owner: {"ka", "app"}, ch: Channels \cup {Default}]

\* Connection, with a sendList of any length.
Conn ==
    [active: BOOLEAN, state: {"CONNECTING", "DATA", "CLOSING"},
     flight: 0..FlightSize, round: 0..Rounds, tries: 0..MaxTries, timer: BOOLEAN,
     sending: BOOLEAN, udp: BOOLEAN, list: Seq(Entries),
     startSend: BOOLEAN, deferred: BOOLEAN, event: {"HANDSHAKE_COMPLETE", "CLOSED"},
     closeEv: BOOLEAN, cur: Channels, alt: Channels, max: Nat,
     ka: BOOLEAN, kaBusy: BOOLEAN, lostKeepAlives: 0..(KaMaxRetries + KaN + 1),
     recvd: BOOLEAN, sent: BOOLEAN, lostSend: BOOLEAN, stray: BOOLEAN]

\* The model's bound of sendList: one entry of the keep alive may come on top.
Short(k) ==
    /\ Len(k.list) <= MaxQueued + 1
    /\ KeepAlives(k) = {} => Len(k.list) <= MaxQueued

SendKnown(k) == (k.sending <=> k.udp \/ k.stray) /\ ~(k.udp /\ k.stray)
ClosedOnlyClosing(k) == k.deferred /\ k.event = "CLOSED" => k.state = "CLOSING"
RoundsLeft(k) == k.state = "CONNECTING" => (k.round = Rounds => k.flight > 0)

\* What holds of a connection in a slot, used or not.
Sound(k) ==
    /\ k \in Conn /\ SendKnown(k) /\ ClosedOnlyClosing(k) /\ RoundsLeft(k)
    /\ BufferOnce(k) /\ Short(k)

ClosingWaits(k) == k.state = "CLOSING" => Eof \/ k.closeEv \/ (k.deferred /\ k.event = "CLOSED")
HandshakeWaits(k) ==
    k.state = "CONNECTING" =>
        /\ k.flight = 0 => k.timer
        /\ k.flight > 0 => k.sending \/ k.lostSend
DataWaits(k) == k.state = "DATA" => k.ka \/ (k.deferred /\ k.event = "HANDSHAKE_COMPLETE")

\* What holds of a connection in use.
Waits(k) == ClosingWaits(k) /\ HandshakeWaits(k) /\ DataWaits(k)

\* The parts of a connection that the steps of the handshake leave alone.
SameQueue(k, m) ==
    /\ m.active = k.active /\ m.list = k.list /\ m.kaBusy = k.kaBusy /\ m.ka = k.ka
    /\ m.closeEv = k.closeEv /\ m.startSend = k.startSend

LEMMA QueueKept ==
    ASSUME NEW k, NEW m, SameQueue(k, m), m.state = k.state \/ m.state = "CLOSING" \/ k.state # "CLOSING"
    PROVE  /\ KeepAlives(m) = KeepAlives(k)
           /\ BufferOnce(k) => BufferOnce(m)
           /\ Short(k) => Short(m)
<1>1. KeepAlives(m) = KeepAlives(k) BY DEF SameQueue, KeepAlives
<1>2. BufferOnce(k) => BufferOnce(m) BY <1>1 DEF SameQueue, BufferOnce
<1>3. Short(k) => Short(m) BY <1>1 DEF SameQueue, Short
<1> QED BY <1>1, <1>2, <1>3

\* nm_mbedtls_srv_mbedtls_send takes a datagram when none is being sent.
SendFields(k, m) ==
    /\ m \in Conn /\ SameQueue(k, m)
    /\ m.state = k.state /\ m.flight = k.flight /\ m.round = k.round /\ m.tries = k.tries
    /\ m.timer = k.timer /\ m.deferred = k.deferred /\ m.event = k.event
    /\ m.lostSend = k.lostSend
    /\ m.sending
    /\ SendKnown(k) => SendKnown(m)

LEMMA SendResult ==
    ASSUME NEW k \in Conn, NEW ch
    PROVE  SendFields(k, Send(k, ch))
<1>1. CASE k.sending
  BY <1>1 DEF Send, SendFields, SameQueue, Conn
<1>2. CASE ~k.sending
  <2> DEFINE known == ch \in {k.cur, k.alt, Default}
             m == [k EXCEPT !.sending = TRUE, !.udp = known, !.stray = ~known]
  <2>0. known \in BOOLEAN OBVIOUS
  <2> HIDE DEF known
  <2>1. m \in Conn BY ZenonT(40), <2>0 DEF Conn
  <2>2. /\ m.active = k.active /\ m.list = k.list /\ m.kaBusy = k.kaBusy /\ m.ka = k.ka
        /\ m.closeEv = k.closeEv /\ m.startSend = k.startSend
        /\ m.state = k.state /\ m.flight = k.flight /\ m.round = k.round /\ m.tries = k.tries
        /\ m.timer = k.timer /\ m.deferred = k.deferred /\ m.event = k.event
        /\ m.lostSend = k.lostSend /\ m.sending /\ m.udp = known /\ m.stray = ~known
    BY DEF Conn
  <2>3. Send(k, ch) = m BY <1>2 DEF Send, AsyncSendToUdp, known, Conn
  <2> HIDE DEF m
  <2>4. SendFields(k, m) BY Zenon, <2>0, <2>1, <2>2 DEF SendFields, SameQueue, SendKnown
  <2> QED BY <2>3, <2>4
<1> QED BY <1>1, <1>2

LEMMA SendSound ==
    ASSUME NEW k, Sound(k), NEW ch
    PROVE  Sound(Send(k, ch)) /\ (Waits(k) => Waits(Send(k, ch)))
<1> DEFINE m == Send(k, ch)
<1>1. SendFields(k, m) BY SendResult DEF Sound
<1> HIDE DEF m
<1>2. BufferOnce(m) /\ Short(m) BY <1>1, QueueKept DEF SendFields, Sound
<1>3. Sound(m)
  BY <1>1, <1>2 DEF SendFields, Sound, ClosedOnlyClosing, RoundsLeft
<1>4. Waits(k) => Waits(m)
  BY <1>1 DEF SendFields, SameQueue, Waits, ClosingWaits, HandshakeWaits, DataWaits
<1> QED BY <1>3, <1>4 DEF m

\* A connection on which mbedtls may write: it is in the handshake, and whether
\* something wakes it is left open.
Writing(k) ==
    /\ k \in Conn /\ k.state = "CONNECTING" /\ SendKnown(k)
    /\ ClosedOnlyClosing(k) /\ BufferOnce(k) /\ Short(k)
    /\ k.round = Rounds => k.flight > 0

\* What mbedtls_ssl_handshake leaves when it writes a datagram.
Written(k, m) ==
    /\ m.active = k.active /\ m.round = k.round /\ m.tries = k.tries
    /\ \/ m.state = "CONNECTING" /\ m.sending /\ m.flight > 0
       \/ m.state = "CONNECTING" /\ m.timer /\ m.flight = 0
       \/ m.state = "DATA"

\* mbedtls_ssl_handshake writes one datagram of its flight: the send is under way,
\* and after the last datagram the timer runs or the handshake is complete.
LEMMA WriteSound ==
    ASSUME NEW k, Writing(k), k.flight > 0, ~k.sending, NEW ch
    PROVE  Sound(Write(k, ch)) /\ Waits(Write(k, ch)) /\ Written(k, Write(k, ch))
<1> DEFINE s == Send(k, ch)
           d0 == [s EXCEPT !.flight = k.flight - 1]
<1>0. k \in Conn /\ k.flight \in 0..FlightSize /\ k.round \in 0..Rounds
  BY DEF Writing, Conn
<1>1. SendFields(k, s) BY <1>0, SendResult
<1> HIDE DEF s
<1>2. /\ s \in Conn /\ s.sending /\ s.state = "CONNECTING" /\ s.round = k.round /\ s.tries = k.tries
      /\ s.active = k.active /\ s.list = k.list /\ s.kaBusy = k.kaBusy /\ s.ka = k.ka
      /\ s.closeEv = k.closeEv /\ s.startSend = k.startSend
      /\ s.deferred = k.deferred /\ s.event = k.event /\ SendKnown(s)
  BY <1>1 DEF SendFields, SameQueue, Writing
<1>3. k.flight - 1 \in 0..FlightSize BY <1>0, ConnectionAssumption
<1>4. d0 \in Conn BY <1>2, <1>3 DEF Conn
<1>5. /\ d0.sending /\ d0.state = "CONNECTING" /\ d0.round = k.round /\ d0.tries = k.tries
      /\ d0.active = k.active /\ d0.list = k.list /\ d0.kaBusy = k.kaBusy /\ d0.ka = k.ka
      /\ d0.closeEv = k.closeEv /\ d0.startSend = k.startSend
      /\ d0.deferred = k.deferred /\ d0.event = k.event
      /\ d0.udp = s.udp /\ d0.stray = s.stray /\ d0.flight = k.flight - 1
  BY <1>2 DEF Conn
<1>6. SendKnown(d0) BY <1>2, <1>5 DEF SendKnown
<1>7. Write(k, ch) = IF d0.flight > 0 THEN d0
                     ELSE IF k.round < Rounds THEN SetTimer(d0)
                     ELSE Defer([d0 EXCEPT !.state = "DATA", !.lostSend = FALSE], "HANDSHAKE_COMPLETE")
  BY <1>0 DEF Write, s
<1> HIDE DEF d0
<1>a. CASE d0.flight > 0
  <2>1. SameQueue(k, d0) BY <1>5 DEF SameQueue
  <2>2. BufferOnce(d0) /\ Short(d0) BY <2>1, <1>5, QueueKept DEF Writing
  <2>3. Sound(d0)
    BY <1>a, <1>4, <1>5, <1>6, <2>2 DEF Sound, Writing, ClosedOnlyClosing, RoundsLeft
  <2>4. Waits(d0) /\ Written(k, d0)
    BY <1>a, <1>5 DEF Waits, ClosingWaits, HandshakeWaits, DataWaits, Written
  <2> QED BY <1>a, <1>7, <2>3, <2>4
<1>b. CASE ~(d0.flight > 0) /\ k.round < Rounds
  <2> DEFINE m == [d0 EXCEPT !.timer = TRUE]
  <2>1. m \in Conn BY Zenon, <1>4 DEF Conn
  <2>2. /\ m.sending /\ m.state = "CONNECTING" /\ m.round = k.round /\ m.tries = k.tries
        /\ m.active = k.active /\ m.list = k.list /\ m.kaBusy = k.kaBusy /\ m.ka = k.ka
        /\ m.closeEv = k.closeEv /\ m.startSend = k.startSend
        /\ m.deferred = k.deferred /\ m.event = k.event /\ m.timer
        /\ m.udp = d0.udp /\ m.stray = d0.stray /\ m.flight = d0.flight
    BY <1>4, <1>5 DEF Conn
  <2>3. Write(k, ch) = m BY <1>b, <1>7 DEF SetTimer
  <2> HIDE DEF m
  <2>4. SameQueue(k, m) BY <2>2 DEF SameQueue
  <2>5. BufferOnce(m) /\ Short(m) BY <2>4, <2>2, QueueKept DEF Writing
  <2>6. m.flight = 0 BY <1>b, <2>2, <1>4 DEF Conn
  <2>7. SendKnown(m) BY <1>5, <1>6, <2>2 DEF SendKnown
  <2>8. Sound(m)
    BY <1>0, <1>b, <2>1, <2>2, <2>5, <2>7 DEF Sound, Writing, ClosedOnlyClosing, RoundsLeft, Rounds
  <2>9. Waits(m) /\ Written(k, m)
    BY <2>2, <2>6 DEF Waits, ClosingWaits, HandshakeWaits, DataWaits, Written
  <2> QED BY <2>3, <2>8, <2>9
<1>c. CASE ~(d0.flight > 0) /\ ~(k.round < Rounds)
  <2> DEFINE m == [d0 EXCEPT !.state = "DATA", !.lostSend = FALSE, !.deferred = TRUE,
                             !.event = "HANDSHAKE_COMPLETE"]
  <2>1. m \in Conn BY Zenon, <1>4 DEF Conn
  <2>2. /\ m.sending /\ m.state = "DATA" /\ m.round = k.round /\ m.tries = k.tries
        /\ m.active = k.active /\ m.list = k.list /\ m.kaBusy = k.kaBusy /\ m.ka = k.ka
        /\ m.closeEv = k.closeEv /\ m.startSend = k.startSend
        /\ m.deferred /\ m.event = "HANDSHAKE_COMPLETE"
        /\ m.udp = d0.udp /\ m.stray = d0.stray
    BY <1>4, <1>5 DEF Conn
  <2>3. Write(k, ch) = m BY <1>c, <1>7, <1>4 DEF Defer, Conn
  <2> HIDE DEF m
  <2>4. SameQueue(k, m) BY <2>2 DEF SameQueue
  <2>5. BufferOnce(m) /\ Short(m) BY <2>4, <2>2, QueueKept DEF Writing
  <2>7. SendKnown(m) BY <1>5, <1>6, <2>2 DEF SendKnown
  <2>8. Sound(m)
    BY <2>1, <2>2, <2>5, <2>7 DEF Sound, ClosedOnlyClosing, RoundsLeft
  <2>9. Waits(m) /\ Written(k, m)
    BY <2>2 DEF Waits, ClosingWaits, HandshakeWaits, DataWaits, Written
  <2> QED BY <2>3, <2>8, <2>9
<1> QED BY <1>a, <1>b, <1>c

\* The handshake failed, or the peer has gone: the CLOSED event is posted.
LEMMA FailedSound ==
    ASSUME NEW k, Writing(k)
    PROVE  Sound(Failed(k)) /\ Waits(Failed(k)) /\ Failed(k).active = k.active
<1> DEFINE m == [k EXCEPT !.timer = FALSE, !.state = "CLOSING", !.deferred = TRUE, !.event = "CLOSED"]
<1>0. k \in Conn BY DEF Writing
<1>1. m \in Conn BY Zenon, <1>0 DEF Conn
<1>2. /\ m.active = k.active /\ m.list = k.list /\ m.kaBusy = k.kaBusy /\ m.ka = k.ka
      /\ m.closeEv = k.closeEv /\ m.startSend = k.startSend
      /\ m.state = "CLOSING" /\ m.deferred /\ m.event = "CLOSED"
      /\ m.sending = k.sending /\ m.udp = k.udp /\ m.stray = k.stray
  BY <1>0 DEF Conn
<1>3. Failed(k) = m BY <1>0 DEF Failed, Defer, CancelTimer, Conn
<1> HIDE DEF m
<1>4. SameQueue(k, m) BY <1>2 DEF SameQueue
<1>5. BufferOnce(m) /\ Short(m) BY <1>4, <1>2, QueueKept DEF Writing
<1>6. SendKnown(m) BY <1>2 DEF SendKnown, Writing
<1>7. Sound(m) BY <1>1, <1>2, <1>5, <1>6 DEF Sound, ClosedOnlyClosing, RoundsLeft
<1>8. Waits(m) BY <1>2 DEF Waits, ClosingWaits, HandshakeWaits, DataWaits
<1> QED BY <1>2, <1>3, <1>7, <1>8

\* A flight is started (again) and its first datagram written, or it waits for
\* the datagram that is being sent.
LEMMA FlightSound ==
    ASSUME NEW k, Writing(k), k.flight = FlightSize, NEW ch
    PROVE  /\ Sound(Write(k, ch)) /\ Waits(Write(k, ch))
           /\ Write(k, ch).active = k.active
<1>0. k.flight > 0 BY ConnectionAssumption
<1>1. CASE ~k.sending
  BY <1>0, <1>1, WriteSound DEF Written
<1>2. CASE k.sending
  <2>1. Write(k, ch) = k BY <1>2 DEF Write
  <2>2. Sound(k) BY <1>0 DEF Writing, Sound, RoundsLeft
  <2>3. Waits(k) BY <1>0, <1>2 DEF Writing, Waits, ClosingWaits, HandshakeWaits, DataWaits
  <2> QED BY <2>1, <2>2, <2>3
<1> QED BY <1>1, <1>2

\* What wakes a connection in the handshake, when it handles the input in.
Woken(k, in) ==
    /\ k.flight = 0 => k.timer \/ in \in {"next", "bad", "timeout"}
    /\ k.flight > 0 => k.sending \/ k.lostSend \/ in = "none"

\* What the handshake does with its input once its flight is out.
Answer(d0, in, ch) ==
    CASE in = "next" ->
                Write([CancelTimer(d0) EXCEPT !.flight = FlightSize,
                                              !.round = d0.round + 1, !.tries = 0], ch)
      [] in = "timeout" /\ d0.tries < MaxTries ->
                Write([d0 EXCEPT !.flight = FlightSize, !.tries = d0.tries + 1], ch)
      [] in = "bad" \/ (in = "timeout" /\ d0.tries = MaxTries) -> Failed(d0)
      [] OTHER -> d0

LEMMA NextFlightType ==
    ASSUME NEW k \in Conn, NEW f \in 0..FlightSize, NEW r \in 0..Rounds, NEW t \in 0..MaxTries
    PROVE  [k EXCEPT !.timer = FALSE, !.flight = f, !.round = r, !.tries = t] \in Conn
  BY Zenon DEF Conn

LEMMA AnswerSound ==
    ASSUME NEW k, Writing(k), k.flight = 0, NEW in,
           k.timer \/ in \in {"next", "bad", "timeout"}, NEW ch
    PROVE  /\ Sound(Answer(k, in, ch)) /\ Waits(Answer(k, in, ch))
           /\ Answer(k, in, ch).active = k.active
<1>0. /\ k \in Conn /\ k.round \in 0..Rounds /\ k.tries \in 0..MaxTries
      /\ k.state = "CONNECTING" /\ k.round # Rounds
  BY DEF Writing, Conn
<1>1. /\ FlightSize \in 0..FlightSize /\ MaxTries \in Nat /\ FlightSize > 0
      /\ 0 \in 0..MaxTries
  BY ConnectionAssumption
<1>2. k.round + 1 \in 0..Rounds BY <1>0 DEF Rounds
<1>3. CASE in = "next"
  <2> DEFINE x == [k EXCEPT !.timer = FALSE, !.flight = FlightSize, !.round = k.round + 1, !.tries = 0]
  <2>1. x \in Conn BY ONLY Zenon, <1>0, <1>1, <1>2, NextFlightType
  <2>2. /\ x.active = k.active /\ x.list = k.list /\ x.kaBusy = k.kaBusy /\ x.ka = k.ka
        /\ x.closeEv = k.closeEv /\ x.startSend = k.startSend /\ x.flight = FlightSize
        /\ x.state = "CONNECTING" /\ x.deferred = k.deferred /\ x.event = k.event
        /\ x.sending = k.sending /\ x.udp = k.udp /\ x.stray = k.stray
    BY <1>0 DEF Conn
  <2>3. Answer(k, in, ch) = Write(x, ch) BY <1>0, <1>3 DEF Answer, CancelTimer, Conn
  <2> HIDE DEF x
  <2>4. SameQueue(k, x) BY <2>2 DEF SameQueue
  <2>5. BufferOnce(x) /\ Short(x) BY <1>0, <2>4, <2>2, QueueKept DEF Writing
  <2>6. Writing(x) BY <1>1, <2>1, <2>2, <2>5 DEF Writing, SendKnown, ClosedOnlyClosing
  <2> QED BY <2>2, <2>3, <2>6, FlightSound
<1>4. CASE in = "timeout" /\ k.tries < MaxTries
  <2> DEFINE x == [k EXCEPT !.flight = FlightSize, !.tries = k.tries + 1]
  <2>0. k.tries + 1 \in 0..MaxTries BY <1>0, <1>1, <1>4
  <2>1. x \in Conn BY ZenonT(40), <1>0, <1>1, <2>0 DEF Conn
  <2>2. /\ x.active = k.active /\ x.list = k.list /\ x.kaBusy = k.kaBusy /\ x.ka = k.ka
        /\ x.closeEv = k.closeEv /\ x.startSend = k.startSend /\ x.flight = FlightSize
        /\ x.state = "CONNECTING" /\ x.deferred = k.deferred /\ x.event = k.event
        /\ x.sending = k.sending /\ x.udp = k.udp /\ x.stray = k.stray
    BY <1>0 DEF Conn
  <2>3. Answer(k, in, ch) = Write(x, ch)
    <3> DEFINE y == Write(x, ch)
               z == Write([CancelTimer(k) EXCEPT !.flight = FlightSize,
                                                 !.round = k.round + 1, !.tries = 0], ch)
    <3>1. Answer(k, in, ch) = CASE in = "next" -> z
                                [] in = "timeout" /\ k.tries < MaxTries -> y
                                [] in = "bad" \/ (in = "timeout" /\ k.tries = MaxTries) -> Failed(k)
                                [] OTHER -> k
      BY DEF Answer
    <3> HIDE DEF x, y, z
    <3> QED BY <1>0, <1>1, <1>4, <3>1 DEF y
  <2> HIDE DEF x
  <2>4. SameQueue(k, x) BY <2>2 DEF SameQueue
  <2>5. BufferOnce(x) /\ Short(x) BY <1>0, <2>4, <2>2, QueueKept DEF Writing
  <2>6. Writing(x) BY <1>1, <2>1, <2>2, <2>5 DEF Writing, SendKnown, ClosedOnlyClosing
  <2> QED BY <2>2, <2>3, <2>6, FlightSound
<1>5. CASE in = "bad" \/ (in = "timeout" /\ k.tries = MaxTries)
  <2>1. Answer(k, in, ch) = Failed(k) BY <1>1, <1>5 DEF Answer
  <2> QED BY <2>1, FailedSound
<1>6. CASE in \notin {"next", "bad", "timeout"}
  <2>1. Answer(k, in, ch) = k BY <1>6 DEF Answer
  <2>2. Sound(k) BY <1>0 DEF Writing, Sound, RoundsLeft
  <2>3. Waits(k) BY <1>0, <1>6 DEF Writing, Waits, ClosingWaits, HandshakeWaits, DataWaits
  <2> QED BY <2>1, <2>2, <2>3
<1> QED BY <1>0, <1>1, <1>3, <1>4, <1>5, <1>6

LEMMA HandshakeSound ==
    ASSUME NEW k, Writing(k), NEW in \in Input, Woken(k, in), NEW ch
    PROVE  /\ Sound(Handshake(k, in, ch)) /\ Waits(Handshake(k, in, ch))
           /\ Handshake(k, in, ch).active = k.active
<1> DEFINE w == Write(k, ch)
           m == Handshake(k, in, ch)
<1>0. k \in Conn /\ k.flight \in 0..FlightSize /\ k.round \in 0..Rounds /\ k.tries \in 0..MaxTries
      /\ k.state = "CONNECTING"
  BY DEF Writing, Conn
<1>1. CASE k.flight > 0 /\ ~k.sending
  <2>1. Sound(w) /\ Waits(w) /\ Written(k, w) BY <1>1, WriteSound
  <2> HIDE DEF w
  <2>2. CASE w.flight > 0 \/ w.state = "DATA"
    <3>1. m = w BY <2>2 DEF Handshake, w
    <3> QED BY <2>1, <3>1 DEF Written
  <2>3. CASE ~(w.flight > 0 \/ w.state = "DATA")
    <3>1. w.flight = 0 /\ w.state = "CONNECTING" /\ w.timer
      BY <2>1, <2>3 DEF Written
    <3>2. m = Answer(w, in, ch) BY <2>3 DEF Handshake, Answer, w
    <3>3. Writing(w) BY <2>1, <3>1 DEF Writing, Sound, RoundsLeft
    <3> QED BY <2>1, <3>1, <3>2, <3>3, AnswerSound DEF Written
  <2> QED BY <2>2, <2>3
<1>2. CASE k.flight > 0 /\ k.sending
  <2>1. m = k BY <1>2 DEF Handshake, Write
  <2>2. Sound(k) BY <1>0, <1>2 DEF Writing, Sound, RoundsLeft
  <2>3. Waits(k) BY <1>0, <1>2 DEF Writing, Waits, ClosingWaits, HandshakeWaits, DataWaits
  <2> QED BY <2>1, <2>2, <2>3
<1>3. CASE k.flight = 0
  <2>1. w = k BY <1>3 DEF Write
  <2>2. m = Answer(k, in, ch) BY <1>0, <1>3, <2>1 DEF Handshake, Answer
  <2> QED BY <1>3, <2>2, AnswerSound DEF Woken
<1> QED BY <1>0, <1>1, <1>2, <1>3

-----------------------------------------------------------------------------
(* sendList and the buffer of the keep alive. *)

\* At most one entry of a list is the keep alive's.
Once(l) == \A p, q \in DOMAIN l : l[p].owner = "ka" /\ l[q].owner = "ka" => p = q
Has(l) == \E p \in DOMAIN l : l[p].owner = "ka"

LEMMA ListParts ==
    ASSUME NEW k
    PROVE  /\ BufferOnce(k) <=> /\ Once(k.list)
                                /\ Has(k.list) => k.kaBusy
                                /\ k.kaBusy => Has(k.list) \/ k.state = "CLOSING"
           /\ Short(k) <=> /\ Len(k.list) <= MaxQueued + 1
                           /\ ~Has(k.list) => Len(k.list) <= MaxQueued
<1>1. KeepAlives(k) # {} <=> Has(k.list) BY DEF KeepAlives, Has
<1>2. (\A p, q \in KeepAlives(k) : p = q) <=> Once(k.list) BY DEF KeepAlives, Once
<1> QED BY <1>1, <1>2 DEF BufferOnce, Short

LEMMA AppendList ==
    ASSUME NEW l \in Seq(Entries), NEW e \in Entries
    PROVE  /\ Append(l, e) \in Seq(Entries) /\ Len(Append(l, e)) = Len(l) + 1
           /\ Has(Append(l, e)) <=> Has(l) \/ e.owner = "ka"
           /\ Once(l) /\ (e.owner = "ka" => ~Has(l)) => Once(Append(l, e))
<1> DEFINE a == Append(l, e)
<1>1. /\ a \in Seq(Entries) /\ Len(a) = Len(l) + 1 /\ Len(l) \in Nat
      /\ DOMAIN a = 1..(Len(l) + 1) /\ DOMAIN l = 1..Len(l)
      /\ \A p \in 1..Len(l) : a[p] = l[p]
      /\ a[Len(l) + 1] = e
  OBVIOUS
<1> HIDE DEF a
<1>2. \A p \in 1..(Len(l) + 1) : p \in 1..Len(l) \/ p = Len(l) + 1 BY <1>1
<1>3. Has(a) <=> Has(l) \/ e.owner = "ka" BY <1>1, <1>2 DEF Has
<1>4. Once(l) /\ (e.owner = "ka" => ~Has(l)) => Once(a) BY <1>1, <1>2 DEF Has, Once
<1> QED BY <1>1, <1>3, <1>4 DEF a

LEMMA TailList ==
    ASSUME NEW l \in Seq(Entries), l # << >>
    PROVE  /\ Head(l) \in Entries /\ Tail(l) \in Seq(Entries) /\ Len(Tail(l)) = Len(l) - 1
           /\ Has(l) <=> Head(l).owner = "ka" \/ Has(Tail(l))
           /\ Once(l) => Once(Tail(l)) /\ (Head(l).owner = "ka" => ~Has(Tail(l)))
<1> DEFINE t == Tail(l)
<1>1. /\ t \in Seq(Entries) /\ Len(t) = Len(l) - 1 /\ Len(l) \in Nat /\ Len(l) > 0
      /\ DOMAIN t = 1..(Len(l) - 1) /\ DOMAIN l = 1..Len(l)
      /\ \A p \in 1..(Len(l) - 1) : t[p] = l[p + 1]
      /\ Head(l) = l[1] /\ Head(l) \in Entries
  OBVIOUS
<1> HIDE DEF t
<1>2. /\ \A p \in 1..Len(l) : p = 1 \/ (p - 1 \in 1..(Len(l) - 1) /\ (p - 1) + 1 = p)
      /\ \A p \in 1..(Len(l) - 1) : p + 1 \in 1..Len(l) /\ p + 1 # 1
      /\ 1 \in 1..Len(l)
      /\ \A p, q \in 1..(Len(l) - 1) : p + 1 = q + 1 => p = q
  BY <1>1
<1>3. Has(t) => Has(l) BY <1>1, <1>2 DEF Has
<1>4. Head(l).owner = "ka" => Has(l) BY <1>1, <1>2 DEF Has
<1>5. Has(l) => Head(l).owner = "ka" \/ Has(t)
  <2> SUFFICES ASSUME NEW p \in 1..Len(l), l[p].owner = "ka", p # 1 PROVE Has(t)
    BY <1>1 DEF Has
  <2>1. t[p - 1] = l[p] BY <1>1, <1>2
  <2> QED BY <1>1, <1>2, <2>1 DEF Has
<1>6. Once(l) => Once(t)
  <2> SUFFICES ASSUME Once(l), NEW p \in 1..(Len(l) - 1), NEW q \in 1..(Len(l) - 1),
                      t[p].owner = "ka", t[q].owner = "ka"
               PROVE  p = q
    BY <1>1 DEF Once
  <2>1. t[p] = l[p + 1] /\ t[q] = l[q + 1] BY <1>1
  <2>2. p + 1 \in DOMAIN l /\ q + 1 \in DOMAIN l BY <1>1, <1>2
  <2>3. p + 1 = q + 1 BY <2>1, <2>2 DEF Once
  <2> QED BY <2>3
<1>7. Once(l) /\ Head(l).owner = "ka" => ~Has(t) BY <1>1, <1>2 DEF Once, Has
<1> QED BY <1>1, <1>3, <1>4, <1>5, <1>6, <1>7 DEF t

\* A handler keeps a connection in use sound and awaiting something.
Kept(k, m) == Sound(m) /\ Waits(m) /\ m.active = k.active

\* The entry e may be put in sendList, and kaBusy is busy then.
MayQueue(k, e, busy) ==
    /\ k.state # "CLOSING" /\ e \in Entries /\ busy \in BOOLEAN
    /\ \/ e.owner = "app" /\ busy = k.kaBusy /\ Len(k.list) < MaxQueued
       \/ e.owner = "ka" /\ busy = TRUE /\ k.kaBusy = FALSE

WithEntry(k, e, busy) ==
    [k EXCEPT !.kaBusy = busy, !.list = Append(k.list, e), !.startSend = TRUE]

\* nm_mbedtls_srv_async_send_data of an entry that is not yet in the list.
LEMMA QueuedSound ==
    ASSUME NEW k, Sound(k), Waits(k), NEW e, NEW busy, MayQueue(k, e, busy)
    PROVE  /\ Kept(k, WithEntry(k, e, busy))
           /\ WithEntry(k, e, busy).ka = k.ka /\ WithEntry(k, e, busy).state = k.state
<1> DEFINE m == WithEntry(k, e, busy)
<1> USE DEF MayQueue
<1>0. k \in Conn /\ k.list \in Seq(Entries) /\ k.state # "CLOSING" /\ k.kaBusy \in BOOLEAN
  BY DEF Sound, Conn
<1> DEFINE l == Append(k.list, e)
<1>1. /\ l \in Seq(Entries) /\ Len(l) = Len(k.list) + 1
      /\ Has(l) <=> Has(k.list) \/ e.owner = "ka"
      /\ Once(k.list) /\ (e.owner = "ka" => ~Has(k.list)) => Once(l)
  BY <1>0, AppendList
<1>2. Len(k.list) \in Nat /\ MaxQueued \in Nat BY <1>0, ConnectionAssumption
<1>3. m = [k EXCEPT !.kaBusy = busy, !.list = l, !.startSend = TRUE] BY DEF WithEntry
<1> HIDE DEF l, m
<1>4. m \in Conn
  <2>1. l \in Seq(Entries) BY <1>1
  <2> QED BY ONLY ZenonT(40), <1>0, <2>1, <1>3, busy \in BOOLEAN DEF Conn
<1>5. /\ m.active = k.active /\ m.state = k.state /\ m.list = l /\ m.kaBusy = busy
      /\ m.sending = k.sending /\ m.udp = k.udp /\ m.stray = k.stray
      /\ m.deferred = k.deferred /\ m.event = k.event /\ m.ka = k.ka
      /\ m.flight = k.flight /\ m.round = k.round /\ m.timer = k.timer /\ m.lostSend = k.lostSend
  BY <1>0, <1>3 DEF Conn
<1>6. BufferOnce(m) /\ Short(m)
  <2>1. /\ Once(k.list)
        /\ Has(k.list) => k.kaBusy
        /\ k.kaBusy => Has(k.list)
        /\ Len(k.list) <= MaxQueued + 1
        /\ ~Has(k.list) => Len(k.list) <= MaxQueued
    BY <1>0, ListParts DEF Sound
  <2>2. /\ Once(l) /\ (Has(l) <=> busy)
        /\ Len(l) <= MaxQueued + 1 /\ (~Has(l) => Len(l) <= MaxQueued)
    <3>1. CASE e.owner = "app" /\ busy = k.kaBusy /\ Len(k.list) < MaxQueued
      BY ONLY <3>1, <2>1, <1>1, <1>2
    <3>2. CASE e.owner = "ka" /\ busy = TRUE /\ k.kaBusy = FALSE
      BY ONLY <3>2, <2>1, <1>1, <1>2
    <3> QED BY Zenon, <3>1, <3>2
  <2> QED BY <2>2, <1>5, ListParts
<1>7. Sound(m)
  BY <1>0, <1>4, <1>5, <1>6 DEF Sound, SendKnown, ClosedOnlyClosing, RoundsLeft
<1>8. Waits(m)
  BY <1>0, <1>5 DEF Waits, ClosingWaits, HandshakeWaits, DataWaits
<1> QED BY <1>5, <1>7, <1>8 DEF Kept, m

-----------------------------------------------------------------------------
(* The handlers of a connection. *)

\* Two connections that differ only in what no handler waits for.
Alike(k, m) ==
    /\ m.active = k.active /\ m.list = k.list /\ m.kaBusy = k.kaBusy /\ m.ka = k.ka
    /\ m.closeEv = k.closeEv /\ m.state = k.state /\ m.flight = k.flight /\ m.round = k.round
    /\ m.timer = k.timer /\ m.deferred = k.deferred /\ m.event = k.event
    /\ m.lostSend = k.lostSend /\ m.sending = k.sending /\ m.udp = k.udp /\ m.stray = k.stray

LEMMA AlikeSound ==
    ASSUME NEW k, NEW m \in Conn, Alike(k, m), Sound(k)
    PROVE  Sound(m) /\ (Waits(k) => Waits(m))
<1>1. BufferOnce(m) /\ Short(m) BY ListParts DEF Alike, Sound
<1>2. Sound(m) BY <1>1 DEF Alike, Sound, SendKnown, ClosedOnlyClosing, RoundsLeft
<1>3. Waits(k) => Waits(m) BY DEF Alike, Waits, ClosingWaits, HandshakeWaits, DataWaits
<1> QED BY <1>2, <1>3

LEMMA ReceivedSound ==
    ASSUME NEW k, Sound(k), Waits(k)
    PROVE  Kept(k, [k EXCEPT !.recvd = TRUE]) /\ [k EXCEPT !.recvd = TRUE].state = k.state
<1> DEFINE m == [k EXCEPT !.recvd = TRUE]
<1>0. k \in Conn BY DEF Sound
<1>1. m \in Conn BY Zenon, <1>0 DEF Conn
<1>2. Alike(k, m) BY <1>0 DEF Conn, Alike
<1> HIDE DEF m
<1>3. Sound(m) /\ Waits(m) BY <1>1, <1>2, AlikeSound
<1> QED BY <1>2, <1>3 DEF Kept, Alike, m

LEMMA HandleDataSound ==
    ASSUME NEW k, Sound(k), Waits(k), NEW ch \in Channels, NEW seq \in Nat
    PROVE  Kept(k, HandleData(k, ch, seq))
<1> DEFINE r == ReadCounter(seq)
<1>0. k \in Conn BY DEF Sound
<1>1. r \in Nat
  <2>1. Base \in Nat /\ Base > 0 BY ConnectionAssumption
  <2>2. seq % Base \in Nat /\ seq \div Base \in Nat BY <2>1
  <2>3. \A a, b, c \in Nat : a * b + c \in Nat OBVIOUS
  <2> QED BY <2>1, <2>2, <2>3 DEF ReadCounter
<1> HIDE DEF r
<1>2. CASE r <= k.max
  <2>1. HandleData(k, ch, seq) = k BY <1>2 DEF HandleData, r
  <2> QED BY <2>1 DEF Kept
<1>3. CASE ~(r <= k.max)
  <2> DEFINE c == IF k.alt = ch THEN ch ELSE k.cur
             m == [k EXCEPT !.max = r, !.cur = c]
  <2>1. c \in Channels BY <1>0 DEF Conn
  <2>2. HandleData(k, ch, seq) = m BY <1>3 DEF HandleData, r
  <2> HIDE DEF c
  <2>3. m \in Conn BY Zenon, <1>0, <1>1, <2>1 DEF Conn
  <2>4. Alike(k, m) BY <1>0 DEF Conn, Alike
  <2> HIDE DEF m
  <2>5. Sound(m) /\ Waits(m) BY <2>3, <2>4, AlikeSound
  <2> QED BY <2>2, <2>4, <2>5 DEF Kept, Alike
<1> QED BY <1>2, <1>3

LEMMA HandleKeepAliveSound ==
    ASSUME NEW k, Sound(k), Waits(k), k.state = "DATA", NEW ch \in Channels \cup {Default}
    PROVE  Kept(k, HandleKeepAlive(k, ch))
<1>0. k \in Conn BY DEF Sound
<1>1. CASE k.kaBusy
  <2>1. HandleKeepAlive(k, ch) = k BY <1>1 DEF HandleKeepAlive
  <2> QED BY <2>1 DEF Kept
<1>2. CASE ~k.kaBusy
  <2> DEFINE e == [owner |-> "ka", ch |-> ch]
  <2>1. e \in Entries /\ e.owner = "ka" BY DEF Entries
  <2>2. HandleKeepAlive(k, ch) = WithEntry(k, e, TRUE)
    BY <1>0, <1>2 DEF HandleKeepAlive, SendResponse, AsyncSendData, WithEntry, Conn
  <2> HIDE DEF e
  <2>3. k.kaBusy = FALSE BY <1>0, <1>2 DEF Conn
  <2>4. MayQueue(k, e, TRUE) BY <2>1, <2>3 DEF MayQueue
  <2> QED BY Zenon, <2>2, <2>4, QueuedSound
<1> QED BY <1>1, <1>2

\* The peer has gone: the CLOSED event is posted, or nothing is (end of file).
LEMMA UnreadSound ==
    ASSUME NEW k, Sound(k), k.state # "CLOSING"
    PROVE  /\ Kept(k, Defer(Unread(k), "CLOSED"))
           /\ Eof => Kept(k, Unread(k))
<1> DEFINE u == [k EXCEPT !.state = "CLOSING", !.max = 0]
           m == [k EXCEPT !.state = "CLOSING", !.max = 0, !.deferred = TRUE, !.event = "CLOSED"]
<1>0. k \in Conn BY DEF Sound
<1>1. u \in Conn BY Zenon, <1>0 DEF Conn
<1>2. m \in Conn BY Zenon, <1>0 DEF Conn
<1>3. /\ u.active = k.active /\ u.list = k.list /\ u.kaBusy = k.kaBusy /\ u.ka = k.ka
      /\ u.closeEv = k.closeEv /\ u.startSend = k.startSend /\ u.state = "CLOSING"
      /\ u.sending = k.sending /\ u.udp = k.udp /\ u.stray = k.stray
      /\ u.deferred = k.deferred /\ u.event = k.event
  BY <1>0 DEF Conn
<1>4. /\ m.active = k.active /\ m.list = k.list /\ m.kaBusy = k.kaBusy /\ m.ka = k.ka
      /\ m.closeEv = k.closeEv /\ m.startSend = k.startSend /\ m.state = "CLOSING"
      /\ m.sending = k.sending /\ m.udp = k.udp /\ m.stray = k.stray
      /\ m.deferred /\ m.event = "CLOSED"
  BY <1>0 DEF Conn
<1>5. Unread(k) = u /\ Defer(Unread(k), "CLOSED") = m BY <1>0 DEF Unread, Defer, Conn
<1> HIDE DEF u, m
<1>6. SameQueue(k, u) /\ SameQueue(k, m) BY <1>3, <1>4 DEF SameQueue
<1>7. BufferOnce(u) /\ Short(u) /\ BufferOnce(m) /\ Short(m)
  BY <1>3, <1>4, <1>6, QueueKept DEF Sound
<1>8. Sound(u) BY <1>1, <1>3, <1>7 DEF Sound, SendKnown, ClosedOnlyClosing, RoundsLeft
<1>9. Sound(m) BY <1>2, <1>4, <1>7 DEF Sound, SendKnown, ClosedOnlyClosing, RoundsLeft
<1>10. Waits(m) /\ (Eof => Waits(u))
  BY <1>3, <1>4 DEF Waits, ClosingWaits, HandshakeWaits, DataWaits
<1> QED BY <1>3, <1>4, <1>5, <1>8, <1>9, <1>10 DEF Kept

LEMMA ReadSound ==
    ASSUME NEW k, Sound(k), Waits(k), k.state = "DATA", NEW in \in Input,
           NEW ch \in Channels \cup {Default}, in = "app" => ch \in Channels, NEW seq \in Nat
    PROVE  Kept(k, Read(k, in, ch, seq))
<1> DEFINE r == [k EXCEPT !.recvd = TRUE]
<1>1. Kept(k, r) /\ r.state = "DATA" BY ReceivedSound
<1>2. Sound(r) /\ Waits(r) /\ r.active = k.active BY <1>1 DEF Kept
<1>3. CASE in = "app"
  <2>1. Read(k, in, ch, seq) = HandleData(r, ch, seq) BY <1>3 DEF Read
  <2> HIDE DEF r
  <2>2. Kept(r, HandleData(r, ch, seq)) BY <1>2, <1>3, HandleDataSound
  <2> QED BY <1>2, <2>1, <2>2 DEF Kept
<1>4. CASE in = "ka"
  <2>1. Read(k, in, ch, seq) = HandleKeepAlive(r, ch) BY <1>4 DEF Read
  <2> HIDE DEF r
  <2>2. Kept(r, HandleKeepAlive(r, ch)) BY <1>1, <1>2, HandleKeepAliveSound
  <2> QED BY <1>2, <2>1, <2>2 DEF Kept
<1>5. CASE in = "kaResponse"
  <2>1. Read(k, in, ch, seq) = r BY <1>5 DEF Read
  <2> HIDE DEF r
  <2> QED BY <1>1, <2>1
<1>6. CASE in \in {"closeNotify", "error"}
  <2>1. Read(k, in, ch, seq) = Defer(Unread(k), "CLOSED") BY <1>6 DEF Read
  <2> QED BY <2>1, UnreadSound
<1>7. CASE in = "eof"
  <2>1. Read(k, in, ch, seq) = Unread(k) BY <1>7 DEF Read
  <2>2. Eof BY <1>7 DEF Input
  <2> QED BY <2>1, <2>2, UnreadSound
<1>8. CASE in = "old"
  <2>1. Read(k, in, ch, seq) = Send(k, ch) BY <1>8 DEF Read
  <2>2. Send(k, ch).active = k.active BY SendResult DEF Sound, SendFields, SameQueue
  <2> QED BY <2>1, <2>2, SendSound DEF Kept
<1>9. CASE in \notin {"app", "ka", "kaResponse", "closeNotify", "error", "eof", "old"}
  <2>1. Read(k, in, ch, seq) = k BY <1>9 DEF Read
  <2> QED BY <2>1 DEF Kept
<1> QED BY <1>3, <1>4, <1>5, <1>6, <1>7, <1>8, <1>9

\* A connection in use that is woken by the input in: Waits, but for what the
\* input stands for.
Awake(k, in) ==
    /\ ClosingWaits(k) /\ DataWaits(k)
    /\ k.state = "CONNECTING" => Woken(k, in)

LEMMA DoOneSound ==
    ASSUME NEW k, Sound(k), NEW in \in Input, Awake(k, in),
           NEW ch \in Channels \cup {Default}, in = "app" => ch \in Channels, NEW seq \in Nat
    PROVE  Kept(k, DoOne(k, in, ch, seq))
<1>0. k \in Conn /\ k.state \in {"CONNECTING", "DATA", "CLOSING"} BY DEF Sound, Conn
<1>1. CASE k.state = "CONNECTING"
  <2>1. DoOne(k, in, ch, seq) = Handshake(k, in, ch) BY <1>1 DEF DoOne
  <2>2. Writing(k) BY <1>1 DEF Sound, Writing, RoundsLeft
  <2>3. Woken(k, in) BY <1>1 DEF Awake
  <2> QED BY <2>1, <2>2, <2>3, HandshakeSound DEF Kept
<1>2. CASE k.state = "DATA"
  <2>1. DoOne(k, in, ch, seq) = Read(k, in, ch, seq) BY <1>2 DEF DoOne
  <2>2. Waits(k) BY <1>2 DEF Awake, Waits, HandshakeWaits
  <2> QED BY <1>2, <2>1, <2>2, ReadSound
<1>3. CASE k.state = "CLOSING"
  <2>1. DoOne(k, in, ch, seq) = k BY <1>3 DEF DoOne
  <2>2. Waits(k) BY <1>3 DEF Awake, Waits, HandshakeWaits
  <2> QED BY <2>1, <2>2 DEF Kept
<1> QED BY <1>0, <1>1, <1>2, <1>3

LEMMA WaitsAwake ==
    ASSUME NEW k, Waits(k), NEW in PROVE Awake(k, in)
  BY DEF Waits, HandshakeWaits, Awake, Woken

\* nc_client_connection_handle_packet keeps a connection sound and waiting.
LEMMA PacketSound ==
    ASSUME NEW k, Sound(k), NEW in \in Input, Awake(k, in),
           NEW ch \in Channels, NEW seq \in Nat
    PROVE  Kept(k, HandlePacket(k, in, ch, seq))
<1> DEFINE c == IF ch # k.cur THEN ch ELSE k.alt
           m == [k EXCEPT !.alt = c]
<1>0. k \in Conn BY DEF Sound
<1>1. c \in Channels BY <1>0 DEF Conn
<1>2. HandlePacket(k, in, ch, seq) = DoOne(m, in, ch, seq) BY DEF HandlePacket
<1> HIDE DEF c
<1>3. m \in Conn BY <1>0, <1>1 DEF Conn
<1>4. Alike(k, m) BY <1>0 DEF Conn, Alike
<1> HIDE DEF m
<1>5. Sound(m) BY <1>3, <1>4, AlikeSound
<1>6. Awake(m, in) BY <1>4 DEF Alike, Awake, ClosingWaits, DataWaits, Woken
<1>7. Kept(m, DoOne(m, in, ch, seq)) BY <1>5, <1>6, DoOneSound
<1> QED BY <1>2, <1>4, <1>7 DEF Kept, Alike

\* A connection is opened by a client hello, or fails at once.
LEMMA OpenedSound ==
    ASSUME NEW ch \in Channels, NEW in \in {"next", "bad"}
    PROVE  Kept(Opened(ch), HandlePacket(Opened(ch), in, ch, 0)) /\ Opened(ch).active
<1> DEFINE k == Opened(ch)
<1>1. k \in Conn
  <2>1. << >> \in Seq(Entries) /\ 0 \in 0..FlightSize /\ 0 \in 0..Rounds /\ 0 \in 0..MaxTries
        /\ 0 \in 0..(KaMaxRetries + KaN + 1)
    BY ConnectionAssumption DEF Rounds
  <2> QED BY <2>1 DEF Conn, Opened, CreateConnection
<1>2. /\ k.active /\ k.state = "CONNECTING" /\ k.flight = 0 /\ k.round = 0 /\ k.sending = FALSE
      /\ k.udp = FALSE /\ k.stray = FALSE /\ k.deferred = FALSE /\ k.kaBusy = FALSE
      /\ k.list = << >>
  BY DEF Opened, CreateConnection
<1> HIDE DEF k
<1>3. Once(k.list) /\ ~Has(k.list) /\ Len(k.list) = 0 BY <1>2 DEF Once, Has
<1>4. BufferOnce(k) /\ Short(k) BY <1>2, <1>3, ListParts, ConnectionAssumption
<1>5. Sound(k) BY <1>1, <1>2, <1>4 DEF Sound, SendKnown, ClosedOnlyClosing, RoundsLeft, Rounds
<1>6. Awake(k, in) BY <1>2 DEF Awake, ClosingWaits, DataWaits, Woken
<1>7. in \in Input BY DEF Input
<1>8. Kept(k, HandlePacket(k, in, ch, 0)) BY <1>5, <1>6, <1>7, PacketSound
<1> QED BY <1>2, <1>8 DEF k

\* The slot of no connection.
LEMMA IdleSound == Sound(Idle) /\ Idle.active = FALSE /\ Idle.udp = FALSE
<1> DEFINE ch == CHOOSE c \in Channels : TRUE
           k == Idle
<1>0. ch \in Channels BY ConnectionAssumption
<1> HIDE DEF ch
<1>1. k \in Conn
  <2>1. << >> \in Seq(Entries) /\ 0 \in 0..FlightSize /\ 0 \in 0..Rounds /\ 0 \in 0..MaxTries
        /\ 0 \in 0..(KaMaxRetries + KaN + 1)
    BY ConnectionAssumption DEF Rounds
  <2>2. k = CreateConnection(FALSE, ch) BY DEF Idle, ch
  <2> QED BY <1>0, <2>1, <2>2 DEF Conn, CreateConnection
<1>2. /\ k.active = FALSE /\ k.state = "CONNECTING" /\ k.round = 0 /\ k.sending = FALSE
      /\ k.udp = FALSE /\ k.stray = FALSE /\ k.deferred = FALSE /\ k.kaBusy = FALSE
      /\ k.list = << >>
  BY DEF Idle, CreateConnection
<1> HIDE DEF k
<1>3. Once(k.list) /\ ~Has(k.list) /\ Len(k.list) = 0 BY <1>2 DEF Once, Has
<1>4. BufferOnce(k) /\ Short(k) BY <1>2, <1>3, ListParts, ConnectionAssumption
<1>5. Sound(k) BY <1>1, <1>2, <1>4 DEF Sound, SendKnown, ClosedOnlyClosing, RoundsLeft, Rounds
<1> QED BY <1>2, <1>5 DEF k

\* The event that starts the next send is posted.
LEMMA StartSendSound ==
    ASSUME NEW k, Sound(k), Waits(k), NEW b \in BOOLEAN
    PROVE  Kept(k, [k EXCEPT !.startSend = b])
<1> DEFINE m == [k EXCEPT !.startSend = b]
<1>0. k \in Conn BY DEF Sound
<1>1. m \in Conn BY <1>0 DEF Conn
<1>2. Alike(k, m) BY <1>0 DEF Conn, Alike
<1> HIDE DEF m
<1>3. Sound(m) /\ Waits(m) BY <1>1, <1>2, AlikeSound
<1> QED BY <1>2, <1>3 DEF Kept, Alike, m

\* nm_mbedtls_srv_connection_send_callback: after a send that failed only a lost
\* datagram of a handshake is waited for no more.
LEMMA SentSound ==
    ASSUME NEW k, Sound(k), Waits(k), k.udp, NEW ok \in BOOLEAN
    PROVE  Kept(k, SendToUdpCb(k, ok))
<1> DEFINE lost == k.lostSend \/ (~ok /\ k.state = "CONNECTING")
           m == [k EXCEPT !.udp = FALSE, !.sending = FALSE, !.lostSend = lost]
<1>0. k \in Conn BY DEF Sound
<1>1. lost \in BOOLEAN BY <1>0 DEF Conn
<1>2. SendToUdpCb(k, ok) = IF ~ok \/ k.state = "CLOSING" THEN m
                           ELSE [DoOne(m, "none", Default, 0) EXCEPT !.startSend = TRUE]
  BY <1>0 DEF SendToUdpCb, SendCallback, Conn
<1>3. ~ok /\ k.state = "CONNECTING" => lost OBVIOUS
<1>4. k.lostSend => lost OBVIOUS
<1> HIDE DEF lost
<1>5. m \in Conn BY ZenonT(40), <1>0, <1>1 DEF Conn
<1>6. /\ m.active = k.active /\ m.list = k.list /\ m.kaBusy = k.kaBusy /\ m.ka = k.ka
      /\ m.closeEv = k.closeEv /\ m.startSend = k.startSend
      /\ m.state = k.state /\ m.flight = k.flight /\ m.round = k.round /\ m.timer = k.timer
      /\ m.deferred = k.deferred /\ m.event = k.event
      /\ m.lostSend = lost /\ m.sending = FALSE /\ m.udp = FALSE /\ m.stray = k.stray
  BY <1>0 DEF Conn
<1> HIDE DEF m
<1>7. SameQueue(k, m) BY <1>6 DEF SameQueue
<1>8. BufferOnce(m) /\ Short(m) BY <1>6, <1>7, QueueKept DEF Sound
<1>9. Sound(m) BY <1>5, <1>6, <1>8 DEF Sound, SendKnown, ClosedOnlyClosing, RoundsLeft
<1>10. CASE ~ok \/ k.state = "CLOSING"
  <2>1. Waits(m)
    BY <1>0, <1>3, <1>6, <1>10 DEF Waits, ClosingWaits, HandshakeWaits, DataWaits
  <2> QED BY <1>2, <1>6, <1>9, <1>10, <2>1 DEF Kept
<1>11. CASE ~(~ok \/ k.state = "CLOSING")
  <2> DEFINE n == DoOne(m, "none", Default, 0)
  <2>1. Awake(m, "none")
    BY <1>6 DEF Waits, ClosingWaits, HandshakeWaits, DataWaits, Awake, Woken
  <2>2. "none" \in Input /\ Default \in Channels \cup {Default} /\ 0 \in Nat BY DEF Input
  <2>3. Kept(m, n) BY <1>9, <2>1, <2>2, DoOneSound
  <2> HIDE DEF n
  <2>4. Sound(n) /\ Waits(n) /\ n.active = k.active BY <1>6, <2>3 DEF Kept
  <2>5. Kept(n, [n EXCEPT !.startSend = TRUE]) BY Zenon, <2>4, StartSendSound
  <2> QED BY <1>2, <1>11, <2>4, <2>5 DEF Kept, n
<1> QED BY <1>10, <1>11

\* nm_mbedtls_srv_start_send_deferred takes the first entry of sendList; when it is
\* the keep alive's, its buffer is free again.
LEMMA StartSendDeferredSound ==
    ASSUME NEW k, Sound(k), Waits(k), NEW ok \in BOOLEAN
    PROVE  Kept(k, StartSendDeferred(k, ok))
<1>0. k \in Conn /\ k.list \in Seq(Entries) /\ k.kaBusy \in BOOLEAN BY DEF Sound, Conn
<1>1. CASE k.sending \/ k.list = << >>
  <2>1. StartSendDeferred(k, ok) = [k EXCEPT !.startSend = FALSE] BY <1>1 DEF StartSendDeferred
  <2> QED BY Zenon, <2>1, StartSendSound
<1>2. CASE ~(k.sending \/ k.list = << >>)
  <2> DEFINE next == Head(k.list)
             busy == k.kaBusy /\ next.owner # "ka"
             t == Tail(k.list)
             e == [k EXCEPT !.startSend = FALSE, !.list = t, !.kaBusy = busy]
  <2>1. /\ next \in Entries /\ t \in Seq(Entries) /\ Len(t) = Len(k.list) - 1
        /\ Has(k.list) <=> next.owner = "ka" \/ Has(t)
        /\ Once(k.list) => Once(t) /\ (next.owner = "ka" => ~Has(t))
        /\ Len(k.list) \in Nat /\ MaxQueued \in Nat
    BY <1>0, <1>2, TailList, ConnectionAssumption
  <2>2. StartSendDeferred(k, ok) = IF ok THEN [Send(e, next.ch) EXCEPT !.sent = TRUE] ELSE e
    BY <1>0, <1>2 DEF StartSendDeferred, Conn
  <2>3. busy \in BOOLEAN /\ (busy <=> k.kaBusy /\ next.owner # "ka") BY <1>0
  <2> HIDE DEF next, busy, t
  <2>4. e \in Conn BY Zenon, <1>0, <2>1, <2>3 DEF Conn
  <2>5. /\ e.active = k.active /\ e.list = t /\ e.kaBusy = busy /\ e.ka = k.ka
        /\ e.closeEv = k.closeEv
        /\ e.state = k.state /\ e.flight = k.flight /\ e.round = k.round /\ e.timer = k.timer
        /\ e.deferred = k.deferred /\ e.event = k.event
        /\ e.lostSend = k.lostSend /\ e.sending = k.sending /\ e.udp = k.udp /\ e.stray = k.stray
    BY <1>0 DEF Conn
  <2> HIDE DEF e
  <2>6. /\ Once(k.list)
        /\ Has(k.list) => k.kaBusy
        /\ k.kaBusy => Has(k.list) \/ k.state = "CLOSING"
        /\ Len(k.list) <= MaxQueued + 1
        /\ ~Has(k.list) => Len(k.list) <= MaxQueued
    BY ListParts DEF Sound
  <2>7. /\ Once(t) /\ (Has(t) => busy) /\ (busy => Has(t) \/ k.state = "CLOSING")
        /\ Len(t) <= MaxQueued + 1 /\ (~Has(t) => Len(t) <= MaxQueued)
    BY ONLY <2>1, <2>3, <2>6
  <2>8. BufferOnce(e) /\ Short(e) BY <2>5, <2>7, ListParts
  <2>9. Sound(e) BY <2>4, <2>5, <2>8 DEF Sound, SendKnown, ClosedOnlyClosing, RoundsLeft
  <2>10. Waits(e) BY <2>5 DEF Waits, ClosingWaits, HandshakeWaits, DataWaits
  <2>11. CASE ok
    <3> DEFINE s == Send(e, next.ch)
               m == [s EXCEPT !.sent = TRUE]
    <3>1. Sound(s) /\ Waits(s) BY <2>9, <2>10, SendSound
    <3>2. s.active = e.active BY <2>4, SendResult DEF SendFields, SameQueue
    <3> HIDE DEF s
    <3>3. s \in Conn BY <3>1 DEF Sound
    <3>4. m \in Conn BY Zenon, <3>3 DEF Conn
    <3>5. Alike(s, m) BY <3>3 DEF Conn, Alike
    <3> HIDE DEF m
    <3>6. Sound(m) /\ Waits(m) BY <3>1, <3>4, <3>5, AlikeSound
    <3>7. StartSendDeferred(k, ok) = m BY <2>2, <2>11 DEF m, s
    <3> QED BY <2>5, <3>2, <3>5, <3>6, <3>7 DEF Kept, Alike
  <2>12. CASE ~ok
    BY <2>2, <2>5, <2>9, <2>10, <2>12 DEF Kept
  <2> QED BY <2>11, <2>12
<1> QED BY <1>1, <1>2

\* nm_mbedtls_srv_async_close.
LEMMA AsyncCloseSound ==
    ASSUME NEW k, Sound(k)
    PROVE  /\ Sound(AsyncClose(k)) /\ AsyncClose(k).active = k.active
           /\ ClosingWaits(k) => Waits(AsyncClose(k))
<1> DEFINE d0 == [k EXCEPT !.state = "CLOSING", !.max = 0, !.closeEv = TRUE]
<1>0. k \in Conn /\ k.state \in {"CONNECTING", "DATA", "CLOSING"} BY DEF Sound, Conn
<1>1. CASE k.state = "CLOSING"
  <2>1. AsyncClose(k) = k BY <1>1 DEF AsyncClose
  <2>2. ClosingWaits(k) => Waits(k) BY <1>1 DEF Waits, HandshakeWaits, DataWaits
  <2> QED BY <2>1, <2>2
<1>2. CASE k.state # "CLOSING"
  <2>1. d0 \in Conn BY Zenon, <1>0 DEF Conn
  <2>2. /\ d0.active = k.active /\ d0.list = k.list /\ d0.kaBusy = k.kaBusy /\ d0.closeEv
        /\ d0.state = "CLOSING" /\ d0.sending = k.sending /\ d0.udp = k.udp /\ d0.stray = k.stray
    BY <1>0 DEF Conn
  <2>3. AsyncClose(k) = IF k.state = "DATA" THEN Send(d0, Default) ELSE d0
    BY <1>0, <1>2 DEF AsyncClose, Unread, Conn
  <2> HIDE DEF d0
  <2>4. BufferOnce(d0) /\ Short(d0) BY <1>2, <2>2, ListParts DEF Sound
  <2>5. Sound(d0) BY <2>1, <2>2, <2>4 DEF Sound, SendKnown, ClosedOnlyClosing, RoundsLeft
  <2>6. Waits(d0) BY <2>2 DEF Waits, ClosingWaits, HandshakeWaits, DataWaits
  <2>7. Sound(Send(d0, Default)) /\ Waits(Send(d0, Default)) BY <2>5, <2>6, SendSound
  <2>8. Send(d0, Default).active = d0.active BY <2>1, SendResult DEF SendFields, SameQueue
  <2> QED BY <2>2, <2>3, <2>5, <2>6, <2>7, <2>8
<1> QED BY <1>1, <1>2

\* nc_client_connection_keep_alive_event: the event is posted again, or the
\* connection closes.
LEMMA KeepAliveEventSound ==
    ASSUME NEW k, Sound(k), Waits(k)
    PROVE  Kept(k, KeepAliveEvent(k))
<1> DEFINE o == [k EXCEPT !.ka = FALSE]
           s == ShouldSend(o)
           c == s.conn
           lost == 0..(KaMaxRetries + KaN + 1)
<1>0. k \in Conn BY DEF Sound
<1>1. o \in Conn BY Zenon, <1>0 DEF Conn
<1>2. /\ o.active = k.active /\ o.list = k.list /\ o.kaBusy = k.kaBusy
      /\ o.closeEv = k.closeEv /\ o.state = k.state /\ o.flight = k.flight /\ o.round = k.round
      /\ o.timer = k.timer /\ o.deferred = k.deferred /\ o.event = k.event
      /\ o.lostSend = k.lostSend /\ o.sending = k.sending /\ o.udp = k.udp /\ o.stray = k.stray
  BY <1>0 DEF Conn
<1>3. /\ s.action \in {"DO_NOTHING", "KA_TIMEOUT", "SEND_KA"}
      /\ c \in Conn /\ Alike(o, c)
      /\ s.action = "SEND_KA" => c.kaBusy = FALSE
  <2> HIDE DEF o
  <2>0. KaMaxRetries \in Nat /\ KaN \in Nat /\ o.lostKeepAlives \in lost /\ o.kaBusy \in BOOLEAN
    BY <1>1, ConnectionAssumption DEF Conn
  <2>1. CASE o.recvd /\ o.sent
    <3> DEFINE m == [o EXCEPT !.lostKeepAlives = 0, !.recvd = FALSE, !.sent = FALSE]
    <3>1. s = [action |-> "DO_NOTHING", conn |-> m] BY <2>1 DEF ShouldSend
    <3>2. 0 \in lost BY <2>0
    <3>3. m \in Conn BY Zenon, <1>1, <3>2 DEF Conn
    <3>4. Alike(o, m) BY <1>1 DEF Conn, Alike
    <3> HIDE DEF m, s
    <3> QED BY <3>1, <3>3, <3>4
  <2>2. CASE ~(o.recvd /\ o.sent) /\ o.lostKeepAlives > KaMaxRetries + KaN
    <3>1. s = [action |-> "KA_TIMEOUT", conn |-> o] BY <2>2 DEF ShouldSend
    <3>2. Alike(o, o) BY DEF Alike
    <3> HIDE DEF s
    <3> QED BY <1>1, <3>1, <3>2
  <2>3. CASE ~(o.recvd /\ o.sent) /\ ~(o.lostKeepAlives > KaMaxRetries + KaN)
    <3> DEFINE a == IF ~o.kaBusy /\ o.lostKeepAlives + 1 > KaN THEN "SEND_KA" ELSE "DO_NOTHING"
               n == o.lostKeepAlives + 1
               m == [o EXCEPT !.lostKeepAlives = n]
    <3>1. s = [action |-> a, conn |-> m] BY <2>3 DEF ShouldSend
    <3>2. n \in lost BY <2>0, <2>3
    <3> HIDE DEF n
    <3>3. m \in Conn BY <1>1, <3>2 DEF Conn
    <3>4. Alike(o, m) BY <1>1 DEF Conn, Alike
    <3>5. a \in {"DO_NOTHING", "SEND_KA"} /\ (a = "SEND_KA" => o.kaBusy = FALSE) BY <2>0
    <3> HIDE DEF a, m, s
    <3>6. s.action = a /\ s.conn = m BY <3>1
    <3> QED BY <3>3, <3>4, <3>5, <3>6 DEF Alike
  <2> QED BY Zenon, <2>1, <2>2, <2>3
<1>4. KeepAliveEvent(k) = CASE s.action = "DO_NOTHING" -> [c EXCEPT !.ka = TRUE]
                            [] s.action = "SEND_KA" -> [SendRequest(c) EXCEPT !.ka = TRUE]
                            [] s.action = "KA_TIMEOUT" -> AsyncClose(c)
  BY DEF KeepAliveEvent
<1> HIDE DEF s, o
<1>5. BufferOnce(o) /\ Short(o) BY <1>2, ListParts DEF Sound
<1>6. Sound(o) BY <1>1, <1>2, <1>5 DEF Sound, SendKnown, ClosedOnlyClosing, RoundsLeft
<1>7. Sound(c) /\ ClosingWaits(c) /\ HandshakeWaits(c) /\ c.active = k.active
  <2>1. Sound(c) BY <1>3, <1>6, AlikeSound
  <2>2. ClosingWaits(c) /\ HandshakeWaits(c) /\ c.active = k.active
    BY <1>2, <1>3 DEF Alike, Waits, ClosingWaits, HandshakeWaits
  <2> QED BY <2>1, <2>2
<1> DEFINE b == [c EXCEPT !.ka = TRUE]
<1> HIDE DEF c
<1>8. b \in Conn BY Zenon, <1>3 DEF Conn
<1>9. /\ b.active = k.active /\ b.list = c.list /\ b.kaBusy = c.kaBusy /\ b.ka
      /\ b.closeEv = c.closeEv /\ b.state = c.state /\ b.flight = c.flight /\ b.round = c.round
      /\ b.timer = c.timer /\ b.deferred = c.deferred /\ b.event = c.event /\ b.cur = c.cur
      /\ b.lostSend = c.lostSend /\ b.sending = c.sending /\ b.udp = c.udp /\ b.stray = c.stray
  BY <1>3, <1>7 DEF Conn
<1> HIDE DEF b
<1>10. Sound(b) /\ Waits(b)
  <2>1. BufferOnce(b) /\ Short(b) BY <1>7, <1>9, ListParts DEF Sound
  <2>2. Sound(b) BY <1>7, <1>8, <1>9, <2>1 DEF Sound, SendKnown, ClosedOnlyClosing, RoundsLeft
  <2>3. Waits(b) BY <1>7, <1>9 DEF Waits, ClosingWaits, HandshakeWaits, DataWaits
  <2> QED BY <2>2, <2>3
<1>11. CASE s.action = "DO_NOTHING"
  <2>1. KeepAliveEvent(k) = b BY <1>4, <1>11 DEF b
  <2> QED BY <1>9, <1>10, <2>1 DEF Kept
<1>12. CASE s.action = "KA_TIMEOUT"
  <2>1. KeepAliveEvent(k) = AsyncClose(c) BY <1>4, <1>12
  <2>2. Kept(c, AsyncClose(c)) BY <1>7, AsyncCloseSound DEF Kept
  <2> QED BY <1>7, <2>1, <2>2 DEF Kept
<1>13. CASE s.action = "SEND_KA"
  <2> DEFINE e == [owner |-> "ka", ch |-> c.cur]
  <2>1. KeepAliveEvent(k) = [SendRequest(c) EXCEPT !.ka = TRUE] BY <1>4, <1>13
  <2>2. e \in Entries /\ e.owner = "ka" BY <1>3 DEF Entries, Conn
  <2>3. c.kaBusy = FALSE BY <1>3, <1>13
  <2>4. CASE c.state # "CLOSING"
    <3>1. [SendRequest(c) EXCEPT !.ka = TRUE] = WithEntry(b, e, TRUE)
      BY Zenon, <1>3, <2>4 DEF SendRequest, AsyncSendData, WithEntry, b, Conn
    <3> HIDE DEF e
    <3>2. MayQueue(b, e, TRUE) BY <1>9, <2>2, <2>3, <2>4 DEF MayQueue
    <3>3. Kept(b, WithEntry(b, e, TRUE)) BY Zenon, <1>10, <3>2, QueuedSound
    <3> QED BY Zenon, <1>9, <2>1, <3>1, <3>3 DEF Kept
  <2>5. CASE c.state = "CLOSING"
    <3> DEFINE m == [b EXCEPT !.kaBusy = TRUE]
    <3>1. [SendRequest(c) EXCEPT !.ka = TRUE] = m
      BY Zenon, <1>3, <2>5 DEF SendRequest, AsyncSendData, b, Conn
    <3>2. m \in Conn BY Zenon, <1>8 DEF Conn
    <3>3. /\ m.active = b.active /\ m.list = b.list /\ m.kaBusy = TRUE
          /\ m.closeEv = b.closeEv /\ m.state = b.state
          /\ m.deferred = b.deferred /\ m.event = b.event
          /\ m.sending = b.sending /\ m.udp = b.udp /\ m.stray = b.stray
      BY <1>8 DEF Conn
    <3> HIDE DEF m
    <3>4. m.state = "CLOSING" BY <1>9, <2>5, <3>3
    <3>5. BufferOnce(m) /\ Short(m) BY <1>10, <3>3, <3>4, ListParts DEF Sound
    <3>6. Sound(m)
      BY <1>10, <3>2, <3>3, <3>4, <3>5 DEF Sound, SendKnown, ClosedOnlyClosing, RoundsLeft
    <3>7. Waits(m)
      BY <1>10, <3>3, <3>4 DEF Waits, ClosingWaits, HandshakeWaits, DataWaits
    <3> QED BY Zenon, <1>9, <2>1, <3>1, <3>3, <3>6, <3>7 DEF Kept
  <2> QED BY <2>4, <2>5
<1> QED BY <1>3, <1>11, <1>12, <1>13

\* nc_client_connection_handle_event for HANDSHAKE_COMPLETE: the posted event is
\* taken, and the keep alive starts or the connection closes.
LEMMA HandshakeCompleteSound ==
    ASSUME NEW k, Sound(k), k.event # "CLOSED", NEW alpn \in BOOLEAN
    PROVE  LET o == [k EXCEPT !.deferred = FALSE] IN
           /\ Sound(HandshakeComplete(o, alpn))
           /\ HandshakeComplete(o, alpn).active = k.active
           /\ Waits(k) => Waits(HandshakeComplete(o, alpn))
<1> DEFINE o == [k EXCEPT !.deferred = FALSE]
<1>0. k \in Conn BY DEF Sound
<1>1. o \in Conn BY Zenon, <1>0 DEF Conn
<1>2. /\ o.active = k.active /\ o.list = k.list /\ o.kaBusy = k.kaBusy /\ o.ka = k.ka
      /\ o.closeEv = k.closeEv /\ o.state = k.state /\ o.flight = k.flight /\ o.round = k.round
      /\ o.timer = k.timer /\ o.deferred = FALSE /\ o.event = k.event
      /\ o.lostSend = k.lostSend /\ o.sending = k.sending /\ o.udp = k.udp /\ o.stray = k.stray
  BY <1>0 DEF Conn
<1> HIDE DEF o
<1>3. BufferOnce(o) /\ Short(o) BY <1>2, ListParts DEF Sound
<1>4. Sound(o) BY <1>1, <1>2, <1>3 DEF Sound, SendKnown, ClosedOnlyClosing, RoundsLeft
<1>5. CASE alpn
  <2> DEFINE m == [o EXCEPT !.ka = TRUE]
  <2>1. HandshakeComplete(o, alpn) = m BY <1>5 DEF HandshakeComplete
  <2>2. m \in Conn BY Zenon, <1>1 DEF Conn
  <2>3. /\ m.active = o.active /\ m.list = o.list /\ m.kaBusy = o.kaBusy /\ m.ka
        /\ m.closeEv = o.closeEv /\ m.state = o.state /\ m.flight = o.flight /\ m.round = o.round
        /\ m.timer = o.timer /\ m.deferred = o.deferred /\ m.event = o.event
        /\ m.lostSend = o.lostSend /\ m.sending = o.sending /\ m.udp = o.udp /\ m.stray = o.stray
    BY <1>1 DEF Conn
  <2> HIDE DEF m
  <2>4. BufferOnce(m) /\ Short(m) BY <1>3, <2>3, ListParts
  <2>5. Sound(m) BY <1>4, <2>2, <2>3, <2>4 DEF Sound, SendKnown, ClosedOnlyClosing, RoundsLeft
  <2>6. Waits(k) => Waits(m)
    BY <1>2, <2>3 DEF Waits, ClosingWaits, HandshakeWaits, DataWaits
  <2> QED BY <1>2, <2>1, <2>3, <2>5, <2>6 DEF o
<1>6. CASE ~alpn
  <2>1. HandshakeComplete(o, alpn) = AsyncClose(o) BY <1>6 DEF HandshakeComplete
  <2>2. Waits(k) => ClosingWaits(o) BY <1>2 DEF Waits, ClosingWaits
  <2> QED BY Zenon, <1>2, <1>4, <2>1, <2>2, AsyncCloseSound DEF o
<1> QED BY <1>5, <1>6

\* nm_mbedtls_srv_timed_event_do_one.
LEMMA TimerSound ==
    ASSUME NEW k, Sound(k), Waits(k)
    PROVE  Kept(k, DoOne([k EXCEPT !.timer = FALSE], "timeout", Default, 0))
<1> DEFINE m == [k EXCEPT !.timer = FALSE]
<1>0. k \in Conn BY DEF Sound
<1>1. m \in Conn BY Zenon, <1>0 DEF Conn
<1>2. /\ m.active = k.active /\ m.list = k.list /\ m.kaBusy = k.kaBusy /\ m.ka = k.ka
      /\ m.closeEv = k.closeEv /\ m.state = k.state /\ m.flight = k.flight /\ m.round = k.round
      /\ m.deferred = k.deferred /\ m.event = k.event
      /\ m.lostSend = k.lostSend /\ m.sending = k.sending /\ m.udp = k.udp /\ m.stray = k.stray
  BY <1>0 DEF Conn
<1> HIDE DEF m
<1>3. BufferOnce(m) /\ Short(m) BY <1>2, ListParts DEF Sound
<1>4. Sound(m) BY <1>1, <1>2, <1>3 DEF Sound, SendKnown, ClosedOnlyClosing, RoundsLeft
<1>5. Awake(m, "timeout")
  BY <1>2 DEF Awake, Woken, Waits, ClosingWaits, HandshakeWaits, DataWaits
<1>6. "timeout" \in Input /\ Default \in Channels \cup {Default} /\ 0 \in Nat BY DEF Input
<1>7. Kept(m, DoOne(m, "timeout", Default, 0)) BY <1>4, <1>5, <1>6, DoOneSound
<1> QED BY <1>2, <1>7 DEF Kept, m

\* A stream or a CoAP response puts its data in sendList.
LEMMA ApplicationSound ==
    ASSUME NEW k, Sound(k), Waits(k), k.state = "DATA", Len(k.list) < MaxQueued
    PROVE  Kept(k, AsyncSendData(k, "app", Default))
<1> DEFINE e == [owner |-> "app", ch |-> Default]
<1>0. k \in Conn /\ k.kaBusy \in BOOLEAN BY DEF Sound, Conn
<1>1. e \in Entries /\ e.owner = "app" BY DEF Entries
<1>2. AsyncSendData(k, "app", Default) = WithEntry(k, e, k.kaBusy)
  BY Zenon, <1>0 DEF AsyncSendData, WithEntry, Conn
<1> HIDE DEF e
<1>3. MayQueue(k, e, k.kaBusy) BY <1>0, <1>1 DEF MayQueue
<1> QED BY <1>2, <1>3, QueuedSound

LEMMA SoundType == ASSUME NEW k, Sound(k) PROVE k \in Connection
<1> DEFINE lists == UNION {[1..n -> [owner: {"ka", "app"}, ch: Channels \cup {Default}]] :
                             n \in 0..(MaxQueued + 1)}
<1>1. k \in Conn /\ k.list \in Seq(Entries) /\ Len(k.list) <= MaxQueued + 1
  BY DEF Sound, Short, Conn
<1>2. Len(k.list) \in 0..(MaxQueued + 1) BY <1>1, ConnectionAssumption
<1>3. k.list \in [1..Len(k.list) -> Entries] BY <1>1
<1>4. k.list \in lists BY <1>2, <1>3 DEF Entries
<1> HIDE DEF lists
<1>5. Connection =
    [active: BOOLEAN, state: {"CONNECTING", "DATA", "CLOSING"},
     flight: 0..FlightSize, round: 0..Rounds, tries: 0..MaxTries, timer: BOOLEAN,
     sending: BOOLEAN, udp: BOOLEAN, list: lists,
     startSend: BOOLEAN, deferred: BOOLEAN, event: {"HANDSHAKE_COMPLETE", "CLOSED"},
     closeEv: BOOLEAN, cur: Channels, alt: Channels, max: Nat,
     ka: BOOLEAN, kaBusy: BOOLEAN, lostKeepAlives: 0..(KaMaxRetries + KaN + 1),
     recvd: BOOLEAN, sent: BOOLEAN, lostSend: BOOLEAN, stray: BOOLEAN]
  BY DEF Connection, lists
<1> QED BY <1>1, <1>4, <1>5 DEF Conn

LEMMA SoundAwaited ==
    ASSUME NEW k, Sound(k), Waits(k)
    PROVE  Awaited(k) /\ BufferOnce(k)
<1>1. k.flight \in Nat BY DEF Sound, Conn
<1> QED BY <1>1 DEF Sound, Waits, SendKnown, ClosingWaits, HandshakeWaits, DataWaits, Awaited

-----------------------------------------------------------------------------
(* The device. *)

SocketStates == {"created", "bound", "receiving", "deaf", "aborted"}

\* The record of the device; what its connections are is said by Elements.
Devices ==
    [state: {"SETUP", "RUNNING", "STOPPED"}, bind: Sockets \cup {"none"},
     sock: [Sockets -> SocketStates],
     attacher: {"setup", "started", "closing", "closed", "stopped"},
     elm: [Slots -> Conn], closing: BOOLEAN, dispatchCb: BOOLEAN,
     closeCb: BOOLEAN, closeFut: CloseFutures \cup {"none"},
     fut: [CloseFutures -> 0..2], started: SUBSET CloseFutures,
     stopped: BOOLEAN, freed: BOOLEAN]

Element(c, i) == Sound(c.elm[i]) /\ (~c.stopped /\ c.elm[i].active => Waits(c.elm[i]))
Elements(c) == \A i \in Slots : Element(c, i)

\* A close that is not answered waits for the attacher or for a connection.
CloseChain(c) ==
    /\ c.closeCb /\ ~c.stopped =>
         c.attacher = "closing" \/ (c.closing /\ c.dispatchCb /\ \E i \in Slots : c.elm[i].active)
    /\ c.closeCb => c.state = "STOPPED"
    /\ c.attacher = "stopped" => c.stopped

\* How often the futures of nabto_device_close are resolved.
Futures(c) ==
    /\ \A f \in CloseFutures : f \notin c.started => c.fut[f] = 0
    /\ c.closeCb \/ c.state # "STOPPED" => \A f \in CloseFutures : c.fut[f] <= 1
    /\ c.closeCb => c.closeFut \in c.started
    /\ \A f \in CloseFutures :
          c.started = {f} => c.fut[f] <= 1 /\ (c.closeCb => c.fut[f] = 0)

\* The inductive invariant.
Inv(c) == c \in Devices /\ Elements(c) /\ CloseChain(c) /\ Futures(c)

\* A step of the device: the invariant holds, and no connection is gone that the
\* socket has a send of.
Keeps(c, u) ==
    /\ Inv(u)
    /\ \A i \in Slots : c.elm[i].active /\ c.elm[i].udp /\ ~u.stopped => u.elm[i].active

\* A step of a connection that stays in use, or of one that is opened.
LEMMA ElementStep ==
    ASSUME NEW c, Inv(c), NEW i \in Slots, NEW m, c.elm[i].active => m.active, Sound(m),
           ~c.stopped /\ m.active => Waits(m)
    PROVE  Keeps(c, [c EXCEPT !.elm[i] = m])
<1> DEFINE u == [c EXCEPT !.elm[i] = m]
<1>0. c \in Devices /\ c.elm \in [Slots -> Conn] /\ m \in Conn BY DEF Inv, Devices, Sound
<1>1. u \in Devices BY <1>0 DEF Devices
<1>2. /\ u.state = c.state /\ u.attacher = c.attacher /\ u.closing = c.closing
      /\ u.dispatchCb = c.dispatchCb /\ u.closeCb = c.closeCb /\ u.closeFut = c.closeFut
      /\ u.fut = c.fut /\ u.started = c.started /\ u.stopped = c.stopped
      /\ u.elm = [c.elm EXCEPT ![i] = m]
  BY <1>0 DEF Devices
<1> HIDE DEF u
<1>3. \A j \in Slots : u.elm[j] = IF j = i THEN m ELSE c.elm[j] BY <1>0, <1>2
<1>4. \A j \in Slots : c.elm[j].active => u.elm[j].active BY <1>3
<1>5. Elements(u)
  <2> SUFFICES ASSUME NEW j \in Slots PROVE Element(u, j) BY DEF Elements
  <2>1. CASE j = i BY <1>2, <1>3, <2>1 DEF Element
  <2>2. CASE j # i BY <1>2, <1>3, <2>2 DEF Element, Inv, Elements
  <2> QED BY <2>1, <2>2
<1>6. CloseChain(u) BY <1>2, <1>4 DEF Inv, CloseChain
<1>7. Futures(u) BY <1>2 DEF Inv, Futures
<1> QED BY <1>1, <1>2, <1>4, <1>5, <1>6, <1>7 DEF Inv, Keeps, u

\* The attacher after the connection of slot i is gone.
AttacherAfter(c, i) ==
    IF /\ c.closing /\ c.dispatchCb /\ c.attacher # "stopped"
       /\ \A j \in Slots : j # i => ~c.elm[j].active
    THEN "closing" ELSE c.attacher

LEMMA DestroyResult ==
    ASSUME NEW c \in Devices, NEW i \in Slots
    PROVE  Destroy(c, i) = [c EXCEPT !.elm = [c.elm EXCEPT ![i] = Idle],
                                     !.attacher = AttacherAfter(c, i)]
<1> DEFINE e == [c EXCEPT !.elm[i].active = FALSE]
           x == [c.elm[i] EXCEPT !.active = FALSE]
<1>0. c.elm \in [Slots -> Conn] BY DEF Devices
<1>1. e = [c EXCEPT !.elm = [c.elm EXCEPT ![i] = x]] BY DEF Devices
<1>2. x.active = FALSE BY <1>0 DEF Conn
<1> HIDE DEF x
<1>3. /\ e.closing = c.closing /\ e.dispatchCb = c.dispatchCb /\ e.attacher = c.attacher
      /\ e.elm = [c.elm EXCEPT ![i] = x]
  BY Zenon, <1>1 DEF Devices
<1>4. \A j \in Slots : e.elm[j].active <=> j # i /\ c.elm[j].active
  BY <1>0, <1>2, <1>3
<1>5. Active(e) = {} <=> \A j \in Slots : j # i => ~c.elm[j].active
  BY <1>4 DEF Active
<1>6. CloseConnection(c, i) = IF c.closing THEN TryClose(e) ELSE e BY DEF CloseConnection
<1> HIDE DEF e
<1> DEFINE y == [c.elm EXCEPT ![i] = x]
           z == [c.elm EXCEPT ![i] = Idle]
<1>y. z = [y EXCEPT ![i] = Idle] BY <1>0
<1> HIDE DEF y, z
<1>7. CASE c.closing /\ Active(e) = {} /\ e.dispatchCb
  <2> DEFINE a == IF e.attacher = "stopped" THEN e.attacher ELSE "closing"
  <2>1. CloseConnection(c, i) = [e EXCEPT !.attacher = a]
    BY <1>6, <1>7 DEF TryClose, ConnectionsClosed
  <2>2. a = AttacherAfter(c, i) BY <1>3, <1>5, <1>7 DEF AttacherAfter
  <2> HIDE DEF a
  <2>3. e = [c EXCEPT !.elm = y] BY <1>1 DEF y
  <2>4. Destroy(c, i) = [[[c EXCEPT !.elm = y] EXCEPT !.attacher = a] EXCEPT !.elm[i] = Idle]
    BY <2>1, <2>3 DEF Destroy
  <2>5. Destroy(c, i) = [c EXCEPT !.elm = [y EXCEPT ![i] = Idle], !.attacher = a]
    BY Zenon, <2>4 DEF Devices
  <2> QED BY Zenon, <1>y, <2>2, <2>5 DEF z
<1>8. CASE ~(c.closing /\ Active(e) = {} /\ e.dispatchCb)
  <2>1. CloseConnection(c, i) = e BY <1>6, <1>8 DEF TryClose
  <2>2. c.attacher = AttacherAfter(c, i) BY <1>3, <1>5, <1>8 DEF AttacherAfter
  <2>3. e = [c EXCEPT !.elm = y] BY <1>1 DEF y
  <2>4. Destroy(c, i) = [[c EXCEPT !.elm = y] EXCEPT !.elm[i] = Idle]
    BY <2>1, <2>3 DEF Destroy
  <2>5. Destroy(c, i) = [c EXCEPT !.elm = [y EXCEPT ![i] = Idle], !.attacher = c.attacher]
    BY Zenon, <2>4 DEF Devices
  <2> QED BY Zenon, <1>y, <2>2, <2>5 DEF z
<1> QED BY <1>7, <1>8

\* nc_client_connection_destroy_connection: the last connection of a dispatcher
\* that closes lets the close go on.
LEMMA DestroyStep ==
    ASSUME NEW c, Inv(c), ~c.stopped, NEW i \in Slots, NEW x \in Conn,
           NEW b, b = [c EXCEPT !.elm[i] = x]
    PROVE  /\ Inv(Destroy(b, i)) /\ Destroy(b, i).stopped = c.stopped
           /\ \A j \in Slots : j # i => Destroy(b, i).elm[j].active = c.elm[j].active
<1> DEFINE a == AttacherAfter(c, i)
           u == [c EXCEPT !.elm = [c.elm EXCEPT ![i] = Idle], !.attacher = a]
<1>0. c \in Devices /\ c.elm \in [Slots -> Conn] /\ Idle \in Conn
  BY IdleSound DEF Inv, Devices, Sound
<1>1. b \in Devices BY <1>0 DEF Devices
<1>2. /\ b.elm = [c.elm EXCEPT ![i] = x] /\ b.closing = c.closing /\ b.dispatchCb = c.dispatchCb
      /\ b.attacher = c.attacher
  BY <1>0 DEF Devices
<1>3. \A j \in Slots : j # i => b.elm[j] = c.elm[j] BY <1>0, <1>2
<1>4. AttacherAfter(b, i) = a BY <1>2, <1>3 DEF AttacherAfter
<1>5. a \in {"setup", "started", "closing", "closed", "stopped"} BY <1>0 DEF Devices, AttacherAfter
<1>6. /\ a = c.attacher \/ a = "closing"
      /\ a # "closing" => ~(c.closing /\ c.dispatchCb /\ c.attacher # "stopped"
                             /\ \A j \in Slots : j # i => ~c.elm[j].active)
  BY DEF AttacherAfter
<1> HIDE DEF a
<1>7. Destroy(b, i) = u
  <2>1. Destroy(b, i) = [b EXCEPT !.elm = [b.elm EXCEPT ![i] = Idle], !.attacher = a]
    BY Zenon, <1>1, <1>4, DestroyResult
  <2>2. [b.elm EXCEPT ![i] = Idle] = [c.elm EXCEPT ![i] = Idle] BY <1>0, <1>2
  <2> QED BY Zenon, <1>0, <2>1, <2>2 DEF Devices
<1>8. u \in Devices
  <2>1. [c.elm EXCEPT ![i] = Idle] \in [Slots -> Conn] BY <1>0
  <2> QED BY Zenon, <1>0, <1>5, <2>1 DEF Devices
<1>9. /\ u.state = c.state /\ u.attacher = a /\ u.closing = c.closing
      /\ u.dispatchCb = c.dispatchCb /\ u.closeCb = c.closeCb /\ u.closeFut = c.closeFut
      /\ u.fut = c.fut /\ u.started = c.started /\ u.stopped = c.stopped
      /\ u.elm = [c.elm EXCEPT ![i] = Idle]
  BY <1>0 DEF Devices
<1> HIDE DEF u
<1>10. \A j \in Slots : u.elm[j] = IF j = i THEN Idle ELSE c.elm[j] BY <1>0, <1>9
<1>11. Elements(u)
  <2> SUFFICES ASSUME NEW j \in Slots PROVE Element(u, j) BY DEF Elements
  <2>1. CASE j = i BY <1>10, <2>1, IdleSound DEF Element
  <2>2. CASE j # i BY <1>9, <1>10, <2>2 DEF Element, Inv, Elements
  <2> QED BY <2>1, <2>2
<1>12. CloseChain(u)
  <2>1. c.attacher = "stopped" => c.stopped BY DEF Inv, CloseChain
  <2>2. ASSUME c.closeCb, c.attacher # "closing", a # "closing"
        PROVE  c.closing /\ c.dispatchCb /\ \E j \in Slots : u.elm[j].active
    <3>1. c.closing /\ c.dispatchCb BY <2>2 DEF Inv, CloseChain
    <3>2. \E j \in Slots : j # i /\ c.elm[j].active BY <1>6, <2>1, <2>2, <3>1
    <3> QED BY <1>10, <3>1, <3>2
  <2>3. u.closeCb /\ ~u.stopped =>
          u.attacher = "closing" \/ (u.closing /\ u.dispatchCb /\ \E j \in Slots : u.elm[j].active)
    BY <1>6, <1>9, <2>2
  <2> QED BY <1>6, <1>9, <2>1, <2>3 DEF Inv, CloseChain
<1>13. Futures(u) BY <1>9 DEF Inv, Futures
<1> QED BY Zenon, <1>7, <1>8, <1>9, <1>10, <1>11, <1>12, <1>13 DEF Inv

\* The steps of the sockets and of the start leave the connections and the close
\* alone.
Plain(c, u) ==
    /\ u \in Devices /\ u.elm = c.elm /\ u.closing = c.closing /\ u.dispatchCb = c.dispatchCb
    /\ u.closeCb = c.closeCb /\ u.closeFut = c.closeFut /\ u.fut = c.fut
    /\ u.started = c.started /\ u.stopped = c.stopped
    /\ u.state = c.state \/ (u.state = "STOPPED" /\ ~c.closeCb) \/ c.state = "SETUP"
    /\ u.attacher = c.attacher \/ (u.attacher = "started" /\ c.state # "STOPPED")

LEMMA PlainStep ==
    ASSUME NEW c, Inv(c), NEW u, Plain(c, u) PROVE Keeps(c, u)
<1>1. Elements(u) BY DEF Inv, Plain, Elements, Element
<1>2. c.closeCb => c.state = "STOPPED" BY DEF Inv, CloseChain
<1>3. CloseChain(u) BY <1>2 DEF Inv, Plain, CloseChain
<1>4. Futures(u) BY <1>2 DEF Inv, Plain, Futures
<1> QED BY <1>1, <1>3, <1>4 DEF Keeps, Inv, Plain

LEMMA StartStep == ASSUME Inv(d), Start PROVE Keeps(d, d')
<1> DEFINE u == [d EXCEPT !.state = "RUNNING", !.bind = "udp"]
<1>0. d \in Devices BY DEF Inv
<1>1. u \in Devices BY Zenon, <1>0 DEF Devices, Sockets
<1>2. Plain(d, u) BY <1>0, <1>1 DEF Devices, Plain, Start
<1>3. d' = u BY DEF Start
<1> HIDE DEF u
<1> QED BY <1>2, <1>3, PlainStep

LEMMA ReceivingType ==
    ASSUME NEW c \in Devices, NEW s \in Sockets
    PROVE  /\ Receiving(c, s) \in Devices
           /\ LET r == Receiving(c, s) IN
              /\ r.elm = c.elm /\ r.closing = c.closing /\ r.dispatchCb = c.dispatchCb
              /\ r.closeCb = c.closeCb /\ r.closeFut = c.closeFut /\ r.fut = c.fut
              /\ r.started = c.started /\ r.stopped = c.stopped /\ r.state = c.state
              /\ r.attacher = c.attacher
<1> DEFINE v == IF c.sock[s] = "aborted" THEN c.sock[s] ELSE "receiving"
           r == [c EXCEPT !.sock[s] = v]
<1>0. c.sock \in [Sockets -> SocketStates] BY DEF Devices
<1>1. v \in SocketStates BY <1>0 DEF SocketStates
<1>2. Receiving(c, s) = r BY DEF Receiving
<1> HIDE DEF v
<1>3. r \in Devices BY <1>0, <1>1 DEF Devices
<1>4. /\ r.elm = c.elm /\ r.closing = c.closing /\ r.dispatchCb = c.dispatchCb
      /\ r.closeCb = c.closeCb /\ r.closeFut = c.closeFut /\ r.fut = c.fut
      /\ r.started = c.started /\ r.stopped = c.stopped /\ r.state = c.state
      /\ r.attacher = c.attacher
  BY DEF Devices
<1> QED BY <1>2, <1>3, <1>4

\* The callbacks of the three binds.
LEMMA BoundStep ==
    ASSUME Inv(d), NEW ok \in BOOLEAN,
           UdpBound(ok) \/ LocalUdpBound(ok) \/ SecondaryUdpBound(ok)
    PROVE  Keeps(d, d')
<1>0. d \in Devices /\ d.state \in {"SETUP", "RUNNING", "STOPPED"} BY DEF Inv, Devices
<1>1. ASSUME d' = [d EXCEPT !.bind = "none"] PROVE Keeps(d, d')
  <2> DEFINE u == [d EXCEPT !.bind = "none"]
  <2>1. u \in Devices BY <1>0 DEF Devices
  <2>2. Plain(d, u) BY <1>0, <2>1 DEF Devices, Plain
  <2> HIDE DEF u
  <2> QED BY <1>1, <2>2, PlainStep DEF u
<1>2. ASSUME d' = [d EXCEPT !.bind = "none", !.state = "STOPPED"], d.state # "STOPPED"
      PROVE  Keeps(d, d')
  <2> DEFINE u == [d EXCEPT !.bind = "none", !.state = "STOPPED"]
  <2>1. u \in Devices BY Zenon, <1>0 DEF Devices
  <2>2. d.closeCb => d.state = "STOPPED" BY DEF Inv, CloseChain
  <2>3. Plain(d, u) BY <1>0, <1>2, <2>1, <2>2 DEF Devices, Plain
  <2> HIDE DEF u
  <2> QED BY <1>2, <2>3, PlainStep DEF u
<1>3. ASSUME NEW s \in Sockets, NEW b \in Sockets \cup {"none"},
             d' = [Receiving(d, s) EXCEPT !.bind = b]
      PROVE  Keeps(d, d')
  <2> DEFINE r == Receiving(d, s)
             u == [r EXCEPT !.bind = b]
  <2>1. /\ r \in Devices /\ r.elm = d.elm /\ r.closing = d.closing /\ r.dispatchCb = d.dispatchCb
        /\ r.closeCb = d.closeCb /\ r.closeFut = d.closeFut /\ r.fut = d.fut
        /\ r.started = d.started /\ r.stopped = d.stopped /\ r.state = d.state
        /\ r.attacher = d.attacher
    BY <1>0, ReceivingType
  <2> HIDE DEF r
  <2>2. u \in Devices BY <2>1 DEF Devices
  <2>3. Plain(d, u) BY <2>1, <2>2 DEF Devices, Plain
  <2> HIDE DEF u
  <2> QED BY <1>3, <2>3, PlainStep DEF u, r
<1>4. ASSUME d.state # "STOPPED",
             d' = [Receiving(d, "udp") EXCEPT !.attacher = "started", !.bind = "localUdp"]
      PROVE  Keeps(d, d')
  <2> DEFINE r == Receiving(d, "udp")
             u == [r EXCEPT !.attacher = "started", !.bind = "localUdp"]
  <2>0. "udp" \in Sockets /\ "localUdp" \in Sockets BY DEF Sockets
  <2>1. /\ r \in Devices /\ r.elm = d.elm /\ r.closing = d.closing /\ r.dispatchCb = d.dispatchCb
        /\ r.closeCb = d.closeCb /\ r.closeFut = d.closeFut /\ r.fut = d.fut
        /\ r.started = d.started /\ r.stopped = d.stopped /\ r.state = d.state
        /\ r.attacher = d.attacher
    BY <1>0, <2>0, ReceivingType
  <2> HIDE DEF r
  <2>2. u \in Devices BY Zenon, <2>0, <2>1 DEF Devices
  <2>3. Plain(d, u) BY <1>4, <2>1, <2>2 DEF Devices, Plain
  <2> HIDE DEF u
  <2> QED BY <1>4, <2>3, PlainStep DEF u, r
<1>5. CASE UdpBound(ok) BY <1>1, <1>2, <1>4, <1>5 DEF UdpBound
<1>6. CASE LocalUdpBound(ok) BY <1>1, <1>3, <1>6 DEF LocalUdpBound, Sockets
<1>7. CASE SecondaryUdpBound(ok) BY <1>1, <1>3, <1>7 DEF SecondaryUdpBound, Sockets
<1> QED BY <1>5, <1>6, <1>7

LEMMA ReceiveFailsStep ==
    ASSUME Inv(d), NEW s \in FailingSockets, ReceiveFails(s) PROVE Keeps(d, d')
<1> DEFINE u == [d EXCEPT !.sock[s] = "deaf"]
<1>0. d \in Devices /\ s \in Sockets /\ d.sock \in [Sockets -> SocketStates] /\ "deaf" \in SocketStates
  BY DeviceAssumption DEF Inv, Devices, SocketStates
<1>1. u \in Devices BY <1>0 DEF Devices
<1>2. Plain(d, u) BY <1>0, <1>1 DEF Devices, Plain
<1>3. d' = u BY DEF ReceiveFails
<1> HIDE DEF u
<1> QED BY <1>2, <1>3, PlainStep

\* A set of numbers that is not empty has a smallest one.
LEMMA Smallest ==
    ASSUME NEW T, T \subseteq Nat, T # {}
    PROVE  \E n \in T : \A m \in T : n <= m
<1>1. \E n \in T : \A m \in T : ~(<<m, n>> \in OpToRel(<, Nat))
  BY Zenon, NatLessThanWellFounded, WFMin
<1>2. PICK n \in T : \A m \in T : ~(<<m, n>> \in OpToRel(<, Nat))
  BY Zenon, <1>1
<1>3. \A m \in T : ~(m < n)
  BY Zenon, <1>2 DEF OpToRel
<1> QED BY <1>3

\* The dispatcher takes a free slot.
LEMMA FirstFreeIsFree ==
    ASSUME Active(d) # Slots PROVE FirstFree \in Slots /\ ~d.elm[FirstFree].active
<1> DEFINE T == Slots \ Active(d)
<1>1. T # {} BY DEF Active
<1>2. T \subseteq Nat BY DeviceAssumption DEF Slots
<1>3. \E n \in T : \A m \in T : n <= m BY Zenon, <1>1, <1>2, Smallest
<1>4. FirstFree \in T BY <1>3 DEF FirstFree
<1> QED BY <1>4 DEF Active

LEMMA ElementOf ==
    ASSUME Inv(d), NEW i \in Slots
    PROVE  /\ Sound(d.elm[i]) /\ d.elm[i] \in Conn
           /\ d.elm[i].active /\ ~d.stopped => Waits(d.elm[i])
  BY DEF Inv, Elements, Element, Sound

\* A step of the connection in slot i that Kept describes.
LEMMA KeptStep ==
    ASSUME Inv(d), NEW i \in Slots, d.elm[i].active, ~d.stopped, NEW m, Kept(d.elm[i], m),
           d' = [d EXCEPT !.elm[i] = m]
    PROVE  Keeps(d, d')
  BY Zenon, ElementStep DEF Kept

LEMMA PacketStep ==
    ASSUME Inv(d), NEW i \in Slots, NEW in \in Input, NEW ch \in Channels, NEW seq \in Seqs,
           Packet(i, in, ch, seq)
    PROVE  Keeps(d, d')
<1> DEFINE k == d.elm[i]
           m == HandlePacket(k, in, ch, seq)
<1>1. Sound(k) /\ k.active /\ ~d.stopped /\ Waits(k) BY ElementOf DEF Packet, Clients
<1>2. seq \in Nat
  <2>1. Seqs \subseteq 0..(Base * Base - 1) BY ConnectionAssumption
  <2> QED BY <2>1
<1>3. d' = [d EXCEPT !.elm[i] = m] BY DEF Packet
<1>4. Kept(k, m) BY <1>1, <1>2, WaitsAwake, PacketSound
<1> HIDE DEF m
<1> QED BY <1>1, <1>3, <1>4, KeptStep

LEMMA NewConnectionStep ==
    ASSUME Inv(d), NEW in \in {"next", "bad"}, NewConnection(in) PROVE Keeps(d, d')
<1> DEFINE ch == CHOOSE c \in Channels : TRUE
           i == FirstFree
           m == HandlePacket(Opened(ch), in, ch, 0)
<1>1. ch \in Channels BY ConnectionAssumption
<1>2. ~d.stopped /\ Active(d) # Slots /\ d' = [d EXCEPT !.elm[i] = m] BY DEF NewConnection, Clients
<1>3. i \in Slots BY <1>2, FirstFreeIsFree
<1> HIDE DEF ch, i
<1>4. Kept(Opened(ch), m) /\ Opened(ch).active BY <1>1, OpenedSound
<1> HIDE DEF m
<1>5. Sound(m) /\ Waits(m) /\ m.active BY <1>4 DEF Kept
<1> QED BY <1>2, <1>3, <1>5, ElementStep

LEMMA EventCloseStep ==
    ASSUME Inv(d), NEW i \in Slots, EventClose(i) PROVE Keeps(d, d')
<1>1. d \in Devices /\ Sound(d.elm[i]) /\ d.elm[i] \in Conn BY ElementOf DEF Inv
<1>2. CASE d.elm[i].sending
  <2>1. d' = d BY <1>2 DEF EventClose
  <2> QED BY <2>1 DEF Keeps
<1>3. CASE ~d.elm[i].sending
  <2>1. d' = Destroy(d, i) /\ ~d.stopped BY <1>3 DEF EventClose
  <2>2. d = [d EXCEPT !.elm[i] = d.elm[i]] BY <1>1 DEF Devices
  <2>3. /\ Inv(Destroy(d, i)) /\ Destroy(d, i).stopped = d.stopped
        /\ \A j \in Slots : j # i => Destroy(d, i).elm[j].active = d.elm[j].active
    BY <1>1, <2>1, <2>2, DestroyStep
  <2>4. ~d.elm[i].udp BY <1>1, <1>3 DEF Sound, SendKnown
  <2> QED BY <2>1, <2>3, <2>4 DEF Keeps
<1> QED BY <1>2, <1>3

LEMMA DoEventCallbackStep ==
    ASSUME Inv(d), NEW i \in Slots, NEW alpn \in BOOLEAN, DoEventCallback(i, alpn)
    PROVE  Keeps(d, d')
<1> DEFINE k == d.elm[i]
           o == [k EXCEPT !.deferred = FALSE]
           b == [d EXCEPT !.elm[i] = o]
<1>1. /\ d \in Devices /\ Sound(k) /\ k \in Conn /\ ~d.stopped /\ k.deferred
      /\ k.active => Waits(k) /\ d.elm \in [Slots -> Conn]
  BY ElementOf DEF Inv, DoEventCallback, Devices
<1>2. CASE k.state = "CLOSING" /\ k.sending
  <2>1. d' = d BY <1>2 DEF DoEventCallback
  <2> QED BY <2>1 DEF Keeps
<1>3. CASE ~(k.state = "CLOSING" /\ k.sending)
  <2>1. d' = HandleEvent(b, i, alpn) BY <1>3 DEF DoEventCallback
  <2>2. o \in Conn /\ o.event = k.event BY ZenonT(40), <1>1 DEF Conn
  <2>3. b.elm[i] = o BY Zenon, <1>1 DEF Devices
  <2>4. CASE k.event = "CLOSED"
    <3>1. d' = Destroy(b, i) BY <2>1, <2>2, <2>3, <2>4 DEF HandleEvent
    <3> HIDE DEF o
    <3>2. /\ Inv(Destroy(b, i)) /\ Destroy(b, i).stopped = d.stopped
          /\ \A j \in Slots : j # i => Destroy(b, i).elm[j].active = d.elm[j].active
      BY <1>1, <2>2, DestroyStep
    <3> HIDE DEF b
    <3>3. ~k.udp BY <1>1, <1>3, <2>4 DEF Sound, SendKnown, ClosedOnlyClosing
    <3> QED BY <3>1, <3>2, <3>3 DEF Keeps
  <2>5. CASE k.event # "CLOSED"
    <3> DEFINE m == HandshakeComplete(o, alpn)
    <3>1. d' = [b EXCEPT !.elm[i] = m] BY Zenon, <2>1, <2>2, <2>3, <2>5 DEF HandleEvent
    <3>2. Sound(m) /\ m.active = k.active /\ (Waits(k) => Waits(m))
      BY <1>1, <2>5, HandshakeCompleteSound
    <3> HIDE DEF m, o
    <3>3. d' = [d EXCEPT !.elm[i] = m] BY Zenon, <1>1, <3>1 DEF Devices
    <3>4. Keeps(d, [d EXCEPT !.elm[i] = m]) BY <1>1, <3>2, ElementStep
    <3> QED BY <3>3, <3>4
  <2> QED BY <2>4, <2>5
<1> QED BY <1>2, <1>3

\* The events of a connection.
LEMMA EventsStep ==
    ASSUME Inv(d), NEW i \in Slots, Events(i) PROVE Keeps(d, d')
<1> DEFINE k == d.elm[i]
<1>1. Sound(k) /\ (k.active /\ ~d.stopped => Waits(k)) BY ElementOf
<1>2. ASSUME NEW ok \in BOOLEAN, SendStarts(i, ok) PROVE Keeps(d, d')
  BY <1>1, <1>2, StartSendDeferredSound, KeptStep DEF SendStarts, Step
<1>3. ASSUME NEW ok \in BOOLEAN, SendCompletes(i, ok) PROVE Keeps(d, d')
  BY <1>1, <1>3, SentSound, KeptStep DEF SendCompletes, Step
<1>4. CASE KeepAliveFires(i)
  BY <1>1, <1>4, KeepAliveEventSound, KeptStep DEF KeepAliveFires, Step
<1>5. CASE TimerFires(i)
  BY Zenon, <1>1, <1>5, TimerSound, KeptStep DEF TimerFires, Step
<1> QED BY <1>2, <1>3, <1>4, <1>5, EventCloseStep, DoEventCallbackStep DEF Events

LEMMA ApplicationSendsStep ==
    ASSUME Inv(d), NEW i \in Slots, ApplicationSends(i) PROVE Keeps(d, d')
<1>1. Sound(d.elm[i]) /\ (d.elm[i].active /\ ~d.stopped => Waits(d.elm[i])) BY ElementOf
<1> QED BY Zenon, <1>1, ApplicationSound, KeptStep DEF ApplicationSends, Step

\* nabto_device_close of a device that is not running: the future is resolved at
\* once.
LEMMA CloseAtOnce ==
    ASSUME Inv(d), NEW f \in CloseFutures, Close(f), d.state # "RUNNING" PROVE Keeps(d, d')
<1> DEFINE n == d.fut[f] + 1
           g == [d.fut EXCEPT ![f] = n]
           st == d.started \cup {f}
           u == [d EXCEPT !.closeFut = f, !.started = st, !.fut = g]
<1>0. /\ d \in Devices /\ d.fut \in [CloseFutures -> 0..2] /\ f \notin d.started
      /\ d.started \subseteq CloseFutures /\ ~d.stopped
  BY DEF Inv, Devices, Close
<1>1. d.fut[f] = 0 BY <1>0 DEF Inv, Futures
<1>2. n = 1 BY <1>1
<1>3. g \in [CloseFutures -> 0..2] /\ g[f] = 1 /\ \A h \in CloseFutures : h # f => g[h] = d.fut[h]
  BY <1>0, <1>2
<1>4. d' = u BY <1>0 DEF Close, Resolved, Devices
<1>5. st \subseteq CloseFutures /\ f \in st /\ \A h \in CloseFutures : h \notin st => h # f /\ h \notin d.started
  BY <1>0
<1>6. \A h \in CloseFutures : st = {h} => h = f /\ d.started = {} BY <1>0
<1> HIDE DEF n, g, st
<1>7. u \in Devices BY ZenonT(40), <1>0, <1>3, <1>5 DEF Devices
<1>8. /\ u.elm = d.elm /\ u.closing = d.closing /\ u.dispatchCb = d.dispatchCb /\ u.state = d.state
      /\ u.attacher = d.attacher /\ u.closeCb = d.closeCb /\ u.stopped = d.stopped
      /\ u.closeFut = f /\ u.started = st /\ u.fut = g
  BY <1>0 DEF Devices
<1> HIDE DEF u
<1>9. Elements(u) /\ CloseChain(u) BY <1>8 DEF Inv, Elements, Element, CloseChain
<1>10. Futures(u)
  <2>1. \A h \in CloseFutures : h \notin st => g[h] = 0 BY <1>3, <1>5 DEF Inv, Futures
  <2>2. (d.closeCb \/ d.state # "STOPPED") => \A h \in CloseFutures : g[h] <= 1
    BY <1>3 DEF Inv, Futures
  <2>3. \A h \in CloseFutures : st = {h} => g[h] <= 1 /\ ~d.closeCb
    BY <1>3, <1>6 DEF Inv, Futures
  <2> QED BY <1>5, <1>8, <2>1, <2>2, <2>3 DEF Futures
<1> QED BY <1>4, <1>7, <1>8, <1>9, <1>10 DEF Inv, Keeps

\* nabto_device_close of a running device: nc_device_close stops the device and
\* closes every connection; the attacher is closed now or with the last of them.
LEMMA CloseRunning ==
    ASSUME Inv(d), NEW f \in CloseFutures, Close(f), d.state = "RUNNING" PROVE Keeps(d, d')
<1> DEFINE st == d.started \cup {f}
           some == Active(d) # {}
           cb == d.dispatchCb \/ some
           els == [i \in Slots |-> IF d.elm[i].active THEN AsyncClose(d.elm[i]) ELSE d.elm[i]]
           at == IF some \/ d.attacher = "stopped" THEN d.attacher ELSE "closing"
           p == [d EXCEPT !.closeFut = f, !.started = st, !.closeCb = TRUE, !.state = "STOPPED"]
           u == [p EXCEPT !.closing = TRUE, !.dispatchCb = cb, !.elm = els, !.attacher = at]
<1>0. /\ d \in Devices /\ d.elm \in [Slots -> Conn] /\ f \notin d.started
      /\ d.started \subseteq CloseFutures /\ ~d.stopped /\ d.dispatchCb \in BOOLEAN
      /\ d.attacher \in {"setup", "started", "closing", "closed", "stopped"}
  BY DEF Inv, Devices, Close
<1>1. p \in Devices
  <2>1. st \subseteq CloseFutures BY <1>0
  <2> HIDE DEF st
  <2> QED BY Zenon, <1>0, <2>1 DEF Devices
<1>2. /\ p.elm = d.elm /\ p.dispatchCb = d.dispatchCb /\ p.closing = d.closing
      /\ p.attacher = d.attacher /\ p.fut = d.fut /\ p.stopped = d.stopped
      /\ p.closeFut = f /\ p.started = st /\ p.closeCb /\ p.state = "STOPPED"
  BY <1>0 DEF Devices
<1>e. /\ \A i \in Slots : els[i] = IF d.elm[i].active THEN AsyncClose(d.elm[i]) ELSE d.elm[i]
      /\ els = [i \in Slots |-> els[i]]
  OBVIOUS
<1> HIDE DEF els
<1>3. \A i \in Slots : /\ Sound(els[i]) /\ els[i].active = d.elm[i].active
                       /\ d.elm[i].active => Waits(els[i])
  <2> SUFFICES ASSUME NEW i \in Slots
               PROVE  /\ Sound(els[i]) /\ els[i].active = d.elm[i].active
                      /\ d.elm[i].active => Waits(els[i])
    OBVIOUS
  <2>1. Sound(d.elm[i]) /\ (d.elm[i].active => Waits(d.elm[i])) BY <1>0, ElementOf
  <2>2. CASE d.elm[i].active
    <3>1. els[i] = AsyncClose(d.elm[i]) BY <1>e, <2>2
    <3> QED BY Zenon, <2>1, <2>2, <3>1, AsyncCloseSound DEF Waits
  <2>3. CASE ~d.elm[i].active
    <3>1. els[i] = d.elm[i] BY <1>e, <2>3
    <3> QED BY <2>1, <2>3, <3>1
  <2> QED BY <2>2, <2>3
<1>4. els \in [Slots -> Conn]
  <2>1. \A i \in Slots : els[i] \in Conn BY <1>3 DEF Sound
  <2> QED BY <1>e, <2>1
<1>5. Active(p) = Active(d) BY <1>2 DEF Active
<1>6. d' = u
  <2> DEFINE c == [d EXCEPT !.closeFut = f, !.started = st]
             e == [p EXCEPT !.closing = TRUE, !.dispatchCb = cb, !.elm = els]
  <2>1. d' = IF d.state # "RUNNING" THEN Resolved(c, f) ELSE CloseDevice(c) BY DEF Close
  <2> DEFINE r == Resolved(c, f)
             q == CloseDevice(c)
  <2>2. d' = q
    <3> HIDE DEF r, q
    <3>1. d' = IF d.state # "RUNNING" THEN r ELSE q BY <2>1 DEF r, q
    <3> QED BY <3>1
  <2>3. [c EXCEPT !.closeCb = TRUE, !.state = "STOPPED"] = p BY <1>0 DEF Devices
  <2>4. Active(c) = Active(d)
    <3>1. c.elm = d.elm BY <1>0 DEF Devices
    <3> QED BY <3>1 DEF Active
  <2> HIDE DEF p
  <2>5. AsyncCloseAll(p) = [p EXCEPT !.closing = TRUE, !.dispatchCb = p.dispatchCb \/ Active(p) # {},
              !.elm = [i \in Slots |-> IF p.elm[i].active THEN AsyncClose(p.elm[i]) ELSE p.elm[i]]]
    BY <1>1 DEF AsyncCloseAll, Devices
  <2>6. AsyncCloseAll(p) = e BY <1>2, <1>5, <2>5 DEF els
  <2> HIDE DEF c
  <2>7. q = IF Active(c) = {} THEN ConnectionsClosed(AsyncCloseAll(p)) ELSE AsyncCloseAll(p)
    BY <2>3 DEF CloseDevice
  <2> HIDE DEF q, cb
  <2>8. e \in [DOMAIN p -> {e[x] : x \in DOMAIN p}] /\ e.attacher = d.attacher
    BY <1>1, <1>2 DEF Devices
  <2>9. CASE some
    <3>1. q = e BY <2>4, <2>6, <2>7, <2>9
    <3>2. at = d.attacher BY <2>9
    <3>3. u = e BY Zenon, <1>1, <1>2, <3>2 DEF Devices
    <3> QED BY <2>2, <3>1, <3>3
  <2>10. CASE ~some
    <3>1. q = ConnectionsClosed(e) BY <2>4, <2>6, <2>7, <2>10
    <3>2. q = [e EXCEPT !.attacher = at] BY Zenon, <2>8, <2>10, <3>1 DEF ConnectionsClosed
    <3> HIDE DEF at
    <3>3. u = [e EXCEPT !.attacher = at] BY <1>1 DEF Devices
    <3> QED BY <2>2, <3>2, <3>3
  <2> QED BY <2>9, <2>10
<1>7. cb \in BOOLEAN /\ at \in {"setup", "started", "closing", "closed", "stopped"} BY <1>0
<1>8. /\ at = d.attacher \/ at = "closing"
      /\ d.attacher # "stopped"
      /\ at = "closing" \/ (cb /\ \E i \in Slots : d.elm[i].active)
  <2>1. d.attacher # "stopped" BY <1>0 DEF Inv, CloseChain
  <2> QED BY <2>1 DEF Active
<1> HIDE DEF p, cb, at
<1>9. u \in Devices BY Zenon, <1>1, <1>4, <1>7 DEF Devices
<1>10. /\ u.elm = els /\ u.dispatchCb = cb /\ u.closing /\ u.attacher = at /\ u.fut = d.fut
       /\ u.stopped = d.stopped /\ u.closeFut = f /\ u.started = st /\ u.closeCb
       /\ u.state = "STOPPED"
  BY <1>1, <1>2 DEF Devices
<1> HIDE DEF u
<1>11. Elements(u) BY <1>0, <1>3, <1>10 DEF Elements, Element
<1>12. CloseChain(u)
  <2>1. at = "closing" \/ (cb /\ \E i \in Slots : els[i].active) BY <1>3, <1>8
  <2>2. at # "stopped" BY <1>8
  <2> QED BY <1>10, <2>1, <2>2 DEF CloseChain
<1>13. Futures(u)
  <2>1. /\ \A h \in CloseFutures : d.fut[h] <= 1
        /\ \A h \in CloseFutures : h \notin d.started => d.fut[h] = 0
    BY DEF Inv, Futures
  <2>2. \A h \in CloseFutures : h \notin st => d.fut[h] = 0 BY <2>1
  <2>3. \A h \in CloseFutures : st = {h} => d.fut[h] = 0 BY <1>0, <2>1
  <2>4. f \in st OBVIOUS
  <2> HIDE DEF st
  <2> QED BY <1>10, <2>1, <2>2, <2>3, <2>4 DEF Futures
<1>14. \A i \in Slots : d.elm[i].active => u.elm[i].active BY <1>3, <1>10
<1> QED BY <1>6, <1>9, <1>11, <1>12, <1>13, <1>14 DEF Inv, Keeps

LEMMA AbortedType ==
    ASSUME NEW c \in Devices, NEW ss
    PROVE  \E k \in [Sockets -> SocketStates] : Aborted(c, ss) = [c EXCEPT !.sock = k]
<1> DEFINE k == [s \in Sockets |-> IF s \in ss THEN "aborted" ELSE c.sock[s]]
<1>0. c.sock \in [Sockets -> SocketStates] /\ "aborted" \in SocketStates
  BY DEF Devices, SocketStates
<1>1. k \in [Sockets -> SocketStates] BY <1>0
<1>2. Aborted(c, ss) = [c EXCEPT !.sock = k] BY DEF Aborted
<1> QED BY Zenon, <1>1, <1>2

\* nc_device_attach_closed_cb: the close callback is called, once, and resolves the
\* future.
LEMMA AttacherClosedStep == ASSUME Inv(d), AttacherClosed PROVE Keeps(d, d')
<1>0. d \in Devices /\ ~d.stopped /\ d.fut \in [CloseFutures -> 0..2] BY DEF Inv, Devices, AttacherClosed
<1>1. PICK k \in [Sockets -> SocketStates] : Aborted(d, Sockets) = [d EXCEPT !.sock = k]
  BY <1>0, AbortedType
<1> DEFINE e == [d EXCEPT !.sock = k, !.attacher = "closed", !.closeCb = FALSE]
<1>2. d' = IF d.closeCb THEN CloseCb(e) ELSE e BY <1>0, <1>1 DEF AttacherClosed, Devices
<1>3. e \in Devices BY ZenonT(40), <1>0 DEF Devices
<1>4. /\ e.elm = d.elm /\ e.closing = d.closing /\ e.dispatchCb = d.dispatchCb /\ e.state = d.state
      /\ e.attacher = "closed" /\ e.closeCb = FALSE /\ e.stopped = d.stopped
      /\ e.closeFut = d.closeFut /\ e.started = d.started /\ e.fut = d.fut
  BY <1>0 DEF Devices
<1> HIDE DEF e
<1>5. CASE ~d.closeCb
  <2>1. Elements(e) /\ CloseChain(e) BY <1>4 DEF Inv, Elements, Element, CloseChain
  <2>2. Futures(e) BY <1>4 DEF Inv, Futures
  <2> QED BY <1>2, <1>3, <1>4, <1>5, <2>1, <2>2 DEF Inv, Keeps
<1>6. CASE d.closeCb
  <2> DEFINE f == d.closeFut
             n == d.fut[f] + 1
             g == [d.fut EXCEPT ![f] = n]
             u == [e EXCEPT !.fut = g]
  <2>1. /\ f \in d.started /\ d.started \subseteq CloseFutures /\ f \in CloseFutures
        /\ d.fut[f] \in 0..2 /\ d.fut[f] <= 1 /\ d.state = "STOPPED"
    BY <1>0, <1>6 DEF Inv, Futures, CloseChain, Devices
  <2>2. n \in 0..2 BY <2>1
  <2>3. d' = u BY <1>2, <1>4, <1>6 DEF CloseCb, Resolved
  <2>4. n = d.fut[f] + 1 OBVIOUS
  <2> HIDE DEF n
  <2>5. /\ g \in [CloseFutures -> 0..2] /\ g[f] = n
        /\ \A h \in CloseFutures : h # f => g[h] = d.fut[h]
    BY <1>0, <2>1, <2>2
  <2> HIDE DEF g
  <2>6. u \in Devices BY <1>3, <2>5 DEF Devices
  <2>7. /\ u.elm = d.elm /\ u.closing = d.closing /\ u.dispatchCb = d.dispatchCb
        /\ u.state = "STOPPED" /\ u.attacher = "closed" /\ u.closeCb = FALSE
        /\ u.stopped = d.stopped /\ u.closeFut = f /\ u.started = d.started /\ u.fut = g
    BY <1>3, <1>4, <2>1 DEF Devices
  <2> HIDE DEF u, f
  <2>8. Elements(u) /\ CloseChain(u) BY <2>7 DEF Inv, Elements, Element, CloseChain
  <2>9. Futures(u)
    <3>1. \A h \in CloseFutures : h \notin d.started => g[h] = 0
      BY <2>1, <2>5 DEF Inv, Futures
    <3>2. \A h \in CloseFutures : d.started = {h} => g[h] <= 1
      <4> SUFFICES ASSUME NEW h \in CloseFutures, d.started = {h} PROVE g[h] <= 1 OBVIOUS
      <4>1. h = f BY <2>1
      <4>2. d.fut[h] = 0 BY <1>6 DEF Inv, Futures
      <4> QED BY <2>4, <2>5, <4>1, <4>2
    <3> QED BY <2>7, <3>1, <3>2 DEF Futures
  <2> QED BY <1>0, <2>3, <2>6, <2>7, <2>8, <2>9 DEF Inv, Keeps
<1> QED BY <1>5, <1>6

\* An idle slot that counts as used, as nabto_device_stop leaves it.
LEMMA MarkedSound ==
    ASSUME NEW b \in BOOLEAN PROVE Sound([Idle EXCEPT !.active = b])
<1> DEFINE m == [Idle EXCEPT !.active = b]
<1>0. Sound(Idle) /\ Idle \in Conn BY IdleSound DEF Sound
<1>1. m \in Conn BY <1>0 DEF Conn
<1>2. /\ m.list = Idle.list /\ m.kaBusy = Idle.kaBusy /\ m.state = Idle.state
      /\ m.flight = Idle.flight /\ m.round = Idle.round /\ m.deferred = Idle.deferred
      /\ m.event = Idle.event /\ m.sending = Idle.sending /\ m.udp = Idle.udp
      /\ m.stray = Idle.stray
  BY <1>0 DEF Conn
<1> HIDE DEF m
<1>3. BufferOnce(m) /\ Short(m) BY <1>0, <1>2, ListParts DEF Sound
<1>4. Sound(m) BY <1>0, <1>1, <1>2, <1>3 DEF Sound, SendKnown, ClosedOnlyClosing, RoundsLeft
<1> QED BY <1>4 DEF m

LEMMA StopStep == ASSUME Inv(d), Stop PROVE Keeps(d, d')
<1>0. d \in Devices /\ ~d.stopped /\ d.elm \in [Slots -> Conn] BY DEF Inv, Devices, Stop
<1>1. PICK k \in [Sockets -> SocketStates] :
        Aborted(d, {"udp", "secondaryUdp"}) = [d EXCEPT !.sock = k]
  BY <1>0, AbortedType
<1> DEFINE els == [i \in Slots |-> [Idle EXCEPT !.active = d.elm[i].active]]
           p == [d EXCEPT !.sock = k, !.state = "STOPPED", !.attacher = "stopped"]
           u == [p EXCEPT !.stopped = TRUE, !.elm = els]
<1>2. \A i \in Slots : Sound(els[i])
  <2> SUFFICES ASSUME NEW i \in Slots PROVE Sound([Idle EXCEPT !.active = d.elm[i].active])
    OBVIOUS
  <2>1. d.elm[i].active \in BOOLEAN BY <1>0 DEF Conn
  <2> QED BY <2>1, MarkedSound
<1>3. els \in [Slots -> Conn]
  <2>1. els = [i \in Slots |-> els[i]] OBVIOUS
  <2> HIDE DEF els
  <2>2. \A i \in Slots : els[i] \in Conn BY <1>2 DEF Sound
  <2> QED BY <2>1, <2>2
<1>4. d' = u BY Zenon, <1>0, <1>1 DEF Stop, Devices
<1> HIDE DEF els
<1>5. p \in Devices BY Zenon, <1>0 DEF Devices
<1>6. p.closeCb = d.closeCb /\ p.closeFut = d.closeFut /\ p.fut = d.fut /\ p.started = d.started
      /\ p.state = "STOPPED"
  BY <1>0 DEF Devices
<1> HIDE DEF p
<1>7. u \in Devices BY ZenonT(40), <1>3, <1>5 DEF Devices
<1>8. /\ u.elm = els /\ u.stopped /\ u.closeCb = d.closeCb /\ u.closeFut = d.closeFut
      /\ u.fut = d.fut /\ u.started = d.started /\ u.state = "STOPPED"
  BY <1>5, <1>6 DEF Devices
<1> HIDE DEF u
<1>9. Elements(u) BY <1>2, <1>8 DEF Elements, Element
<1>10. CloseChain(u) BY <1>8 DEF CloseChain
<1>11. Futures(u) BY <1>8 DEF Inv, Futures
<1> QED BY <1>4, <1>7, <1>8, <1>9, <1>10, <1>11 DEF Inv, Keeps

LEMMA FreeStep == ASSUME Inv(d), Free PROVE Keeps(d, d')
<1> DEFINE els == [i \in Slots |-> Idle]
           u == [d EXCEPT !.freed = TRUE, !.elm = els]
<1>0. d \in Devices /\ d.stopped /\ d' = u BY DEF Inv, Free
<1>1. els \in [Slots -> Conn] /\ \A i \in Slots : els[i] = Idle BY IdleSound DEF Sound
<1> HIDE DEF els
<1>2. u \in Devices BY Zenon, <1>0, <1>1 DEF Devices
<1>3. /\ u.elm = els /\ u.stopped /\ u.closeCb = d.closeCb /\ u.closeFut = d.closeFut
      /\ u.fut = d.fut /\ u.started = d.started /\ u.state = d.state /\ u.attacher = d.attacher
  BY <1>0 DEF Devices
<1> HIDE DEF u
<1>4. Elements(u) BY <1>1, <1>3, IdleSound DEF Elements, Element
<1>5. CloseChain(u) BY <1>3 DEF Inv, CloseChain
<1>6. Futures(u) BY <1>3 DEF Inv, Futures
<1> QED BY <1>0, <1>2, <1>3, <1>4, <1>5, <1>6 DEF Inv, Keeps

LEMMA InitInv == Init => Inv(d)
<1> SUFFICES ASSUME Init PROVE Inv(d) OBVIOUS
<1> DEFINE els == [i \in Slots |-> Idle]
           socks == [s \in Sockets |-> "created"]
           futs == [f \in CloseFutures |-> 0]
<1>1. els \in [Slots -> Conn] /\ \A i \in Slots : els[i] = Idle BY IdleSound DEF Sound
<1>2. socks \in [Sockets -> SocketStates] BY DEF SocketStates
<1>3. futs \in [CloseFutures -> 0..2] /\ \A f \in CloseFutures : futs[f] = 0 OBVIOUS
<1>4. d = [state |-> "SETUP", bind |-> "none", sock |-> socks,
           attacher |-> "setup", elm |-> els, closing |-> FALSE,
           dispatchCb |-> FALSE, closeCb |-> FALSE, closeFut |-> "none",
           fut |-> futs, started |-> {}, stopped |-> FALSE, freed |-> FALSE]
  BY DEF Init
<1> HIDE DEF els, socks, futs
<1>5. d \in Devices BY <1>1, <1>2, <1>3, <1>4 DEF Devices
<1>6. /\ d.elm = els /\ d.fut = futs /\ d.closeCb = FALSE /\ d.attacher = "setup" /\ d.started = {}
  BY <1>4
<1>7. Elements(d) BY <1>1, <1>6, IdleSound DEF Elements, Element
<1>8. CloseChain(d) BY <1>6 DEF CloseChain
<1>9. Futures(d) BY <1>3, <1>6 DEF Futures
<1> QED BY <1>5, <1>7, <1>8, <1>9 DEF Inv

LEMMA NextKeeps == Inv(d) /\ [Next]_vars => Inv(d') /\ (d' # d => Keeps(d, d'))
<1> SUFFICES ASSUME Inv(d), [Next]_vars PROVE Inv(d') /\ (d' # d => Keeps(d, d'))
  OBVIOUS
<1>1. CASE UNCHANGED vars BY <1>1 DEF vars
<1>2. CASE Bound BY <1>2, BoundStep DEF Bound, Keeps
<1>3. CASE AttacherClosed BY <1>3, AttacherClosedStep DEF Keeps
<1>4. CASE Client
  <2>1. ASSUME NEW i \in Slots, NEW in \in Input \ {"none", "timeout"}, NEW ch \in Channels,
               NEW seq \in Seqs, Packet(i, in, ch, seq)
        PROVE  Keeps(d, d')
    BY <2>1, PacketStep
  <2>2. ASSUME NEW in \in {"next", "bad"}, NewConnection(in) PROVE Keeps(d, d')
    BY <2>2, NewConnectionStep
  <2>3. ASSUME NEW s \in FailingSockets, ReceiveFails(s) PROVE Keeps(d, d')
    BY <2>3, ReceiveFailsStep
  <2> QED BY <1>4, <2>1, <2>2, <2>3 DEF Client, Keeps
<1>5. CASE Application
  <2>1. ASSUME NEW f \in CloseFutures, Close(f) PROVE Keeps(d, d')
    BY <2>1, CloseAtOnce, CloseRunning
  <2> QED BY <1>5, <2>1, StartStep, StopStep, FreeStep, ApplicationSendsStep DEF Application, Keeps
<1>6. CASE Done BY <1>6 DEF Done
<1>7. CASE \E i \in Slots : Events(i) BY <1>7, EventsStep DEF Keeps
<1> QED BY <1>1, <1>2, <1>3, <1>4, <1>5, <1>6, <1>7 DEF Next

\* The invariant of the device holds in every state.
THEOREM DeviceInvariance == Spec => []Inv(d)
<1>1. Init => Inv(d) BY InitInv
<1>2. Inv(d) /\ [Next]_vars => Inv(d)' BY NextKeeps
<1> QED BY <1>1, <1>2, PTL DEF Spec

LEMMA InvNothingForgotten == Inv(d) => NothingForgotten
<1> SUFFICES ASSUME Inv(d) PROVE NothingForgotten OBVIOUS
<1>0. d \in Devices /\ d.elm \in [Slots -> Conn] BY DEF Inv, Devices
<1>1. d.elm \in [Slots -> Connection]
  <2>1. \A i \in Slots : d.elm[i] \in Connection BY ElementOf, SoundType
  <2> QED BY <1>0, <2>1
<1>2. TypeOK BY <1>0, <1>1 DEF TypeOK, Devices, SocketStates
<1>3. ~d.stopped => \A i \in Active(d) : Awaited(d.elm[i]) /\ BufferOnce(d.elm[i])
  BY ElementOf, SoundAwaited DEF Active
<1>4. d.closeCb /\ ~d.stopped =>
        d.attacher = "closing" \/ (d.closing /\ d.dispatchCb /\ Active(d) # {})
  BY DEF Inv, CloseChain, Active
<1>5. \A f \in CloseFutures : d.started = {f} => d.fut[f] <= 1 BY DEF Inv, Futures
<1> QED BY <1>2, <1>3, <1>4, <1>5 DEF NothingForgotten

\* For any number of slots, channels, retransmissions and queued entries the device
\* forgets nothing: every closing connection has an event that destroys it, every
\* handshake its timer or a datagram under way, every open connection its keep
\* alive; the send context of the keep alive is in sendList at most once; a close
\* that is not answered waits for the attacher or for a connection that will
\* report its end (nc_device_close, nc_client_connection_dispatch_try_close); and
\* the future of a single nabto_device_close is resolved at most once.
THEOREM DeviceForgetsNothing == Spec => []NothingForgotten
  BY DeviceInvariance, InvNothingForgotten, PTL

\* nc_client_connection_destroy_connection is not reached while the socket has a
\* send of the connection, whichever event, close or failure leads there.
THEOREM ConnectionKeptWhileSending == Spec => KeptWhileSending
<1> DEFINE A == \A i \in Slots :
                  d.elm[i].active /\ d.elm[i].udp /\ ~d'.stopped => d'.elm[i].active
<1>1. Inv(d) /\ [Next]_vars => [A]_vars
  BY NextKeeps DEF Keeps, vars
<1> HIDE DEF A
<1>2. Spec => [][A]_vars BY <1>1, DeviceInvariance, PTL DEF Spec
<1> QED BY <1>2 DEF KeptWhileSending, A
=============================================================================
