--------------------------- MODULE ServicesProofs ---------------------------
(***************************************************************************)
(* Proofs about the services of a device: the listeners tell the           *)
(* application of every event in order, a tunnel connection is freed with  *)
(* no callback left and leads where access was granted to, and the CoAP    *)
(* server and a stream have an event wherever something waits to be done;  *)
(* each for every value of the constants. A component has an invariant of  *)
(* its own (LisInv, TunInv, SrvInv, StrInv) on its state record; the       *)
(* theorems at the end are on the specification of Services, in which a    *)
(* component moves only by its own next-state relation.                    *)
(***************************************************************************)
EXTENDS Services, SequenceTheorems, WellFoundedInduction, TLAPS

\* What a leaf is tried with, in this order, unless it names a prover of its own.
USE SMTT(30), Zenon, SMTT(60)

-----------------------------------------------------------------------------
(* Listeners *)

\* The record with its types.
AnyEvent == CoreEvents["connection"] \cup CoreEvents["device"]

\* The types of the fields of a listener.
LisState ==
    [kind : Kinds, ec : {"NONE", "OK", "STOPPED", "OUT_OF_MEMORY"}, queue : Seq(AnyEvent),
     fut : BOOLEAN, where : BOOLEAN, context : BOOLEAN, inCore : BOOLEAN, notified : Seq(AnyEvent),
     delivered : Seq(AnyEvent), crashed : BOOLEAN]

\* d holds the first events of n.
FirstOf(d, n) == Len(d) <= Len(n) /\ \A i \in 1..Len(d) : d[i] = n[i]

\* What holds of a listener while one of its operations is at work: an open one has its context
\* and owes the application what is queued, any other owes nothing and is unknown to the core.
\* A future waits where a place for its event was given.
Owed(l) ==
    /\ l \in LisState
    /\ l.queue \in Seq(CoreEvents[l.kind]) /\ l.notified \in Seq(CoreEvents[l.kind])
    /\ l.delivered \in Seq(CoreEvents[l.kind])
    /\ Len(l.notified) <= MaxNotified
    /\ FirstOf(l.delivered, l.notified)
    /\ l.ec = "OK" => l.context /\ l.inCore /\ l.delivered \o l.queue = l.notified
    /\ l.ec # "OK" => l.queue = << >> /\ ~l.fut /\ ~l.inCore
    /\ l.ec = "NONE" => l.notified = << >> /\ l.delivered = << >>
    /\ l.fut = l.where
    /\ ~l.crashed

\* And no future waits while there is an event for it.
LisInv(l) == Owed(l) /\ (l.fut => l.queue = << >>)

\* Sequences: the first of q moves over to the end of d; another event behind q.
LEMMA MoveHead ==
    ASSUME NEW S, NEW d \in Seq(S), NEW q \in Seq(S), q # << >>
    PROVE  /\ Append(d, Head(q)) \o Tail(q) = d \o q
           /\ Append(d, Head(q)) \in Seq(S) /\ Tail(q) \in Seq(S)
OBVIOUS

\* Another event behind q is one behind the two together.
LEMMA MoreQueued ==
    ASSUME NEW S, NEW d \in Seq(S), NEW q \in Seq(S), NEW e \in S
    PROVE  /\ d \o Append(q, e) = Append(d \o q, e)
           /\ Append(q, e) \in Seq(S) /\ Len(Append(q, e)) = Len(q) + 1
OBVIOUS

\* A sequence is the first part of its concatenation with another.
LEMMA ConcatFirst ==
    ASSUME NEW S, NEW d \in Seq(S), NEW q \in Seq(S)
    PROVE  FirstOf(d, d \o q) /\ Len(d \o q) = Len(d) + Len(q)
BY DEF FirstOf

\* And stays the first part as more is told.
LEMMA FirstOfMore ==
    ASSUME NEW S, NEW d \in Seq(S), NEW n \in Seq(S), NEW e \in S, FirstOf(d, n)
    PROVE  FirstOf(d, Append(n, e))
BY DEF FirstOf

\* The events of a kind.
LEMMA KindEvents == ASSUME NEW k \in Kinds PROVE CoreEvents[k] \subseteq AnyEvent
BY DEF Kinds, CoreEvents, AnyEvent

\* Both callbacks deliver an event, and both let go of the context when they are told to clean up.
LEMMA CbIs ==
    ASSUME NEW l, NEW e
    PROVE  /\ Cb(l, "OK", e) = IF l.where THEN [l EXCEPT !.where = FALSE, !.delivered = Append(@, e)] ELSE l
           /\ Cb(l, "ABORTED", e) = [l EXCEPT !.inCore = FALSE, !.context = FALSE]
BY DEF Cb, ConnectionEventsListenerCb, DeviceEventsListenerCb

\* nabto_device_listener_try_resolve gives a waiting future the first event.
LEMMA TryResolveKeeps ==
    ASSUME NEW l, Owed(l)
    PROVE  LisInv(ListenerTryResolve(l))
<1>1. CASE ~l.fut \/ l.queue = << >>
  BY <1>1 DEF ListenerTryResolve, LisInv
<1>2. CASE ~(~l.fut \/ l.queue = << >>)
  <2> DEFINE q == Tail(l.queue)
             d == Append(l.delivered, Head(l.queue))
             t == [l EXCEPT !.queue = q, !.where = FALSE, !.delivered = d, !.fut = FALSE]
  <2>1. l \in LisState /\ l.fut /\ l.where /\ l.queue # << >> /\ l.ec = "OK"
    BY <1>2 DEF Owed
  <2>2. ListenerTryResolve(l) = t
    <3> DEFINE u == [l EXCEPT !.queue = Tail(@)]
    <3>1. ListenerTryResolve(l) = [Cb(u, "OK", Head(l.queue)) EXCEPT !.fut = FALSE]
      BY <1>2 DEF ListenerTryResolve
    <3>2. u.where /\ u.delivered = l.delivered
      BY <2>1 DEF LisState
    <3>3. Cb(u, "OK", Head(l.queue)) = [u EXCEPT !.where = FALSE, !.delivered = Append(@, Head(l.queue))]
      BY Zenon, <3>2, CbIs
    <3> QED BY Zenon, <3>1, <3>3, <2>1 DEF LisState
  <2>3. /\ l.delivered \in Seq(CoreEvents[l.kind]) /\ l.queue \in Seq(CoreEvents[l.kind])
        /\ l.delivered \o l.queue = l.notified
    BY Zenon, <2>1 DEF Owed
  <2>4. d \in Seq(CoreEvents[l.kind]) /\ q \in Seq(CoreEvents[l.kind]) /\ d \o q = l.notified
    <3> DEFINE S == CoreEvents[l.kind]
               D == l.delivered
               Q == l.queue
    <3>1. D \in Seq(S) /\ Q \in Seq(S) /\ Q # << >>
      BY <2>1, <2>3
    <3> HIDE DEF S, D, Q
    <3>2. Append(D, Head(Q)) \o Tail(Q) = D \o Q /\ Append(D, Head(Q)) \in Seq(S) /\ Tail(Q) \in Seq(S)
      BY <3>1, MoveHead
    <3> QED BY Zenon, <3>2, <2>3 DEF S, D, Q
  <2> HIDE DEF d, q
  <2>5. FirstOf(d, l.notified)
    BY Zenon, <2>4, ConcatFirst
  <2>6. CoreEvents[l.kind] \subseteq AnyEvent
    BY <2>1, KindEvents DEF LisState
  <2>7. d \in Seq(AnyEvent) /\ q \in Seq(AnyEvent)
    BY <2>4, <2>6, SeqMonotonic
  <2>8. t \in LisState
    BY Zenon, <2>1, <2>7 DEF LisState
  <2>9. /\ t.kind = l.kind /\ t.ec = l.ec /\ t.queue = q /\ t.fut = FALSE /\ t.where = FALSE
        /\ t.context = l.context /\ t.inCore = l.inCore /\ t.notified = l.notified /\ t.delivered = d
        /\ t.crashed = l.crashed
    BY <2>1 DEF LisState
  <2> HIDE DEF t
  <2>10. LisInv(t)
    BY Zenon, <2>1, <2>4, <2>5, <2>8, <2>9 DEF LisInv, Owed
  <2> QED BY <2>2, <2>10
<1> QED BY <1>1, <1>2

\* nabto_device_listener_set_error_code leaves nothing owed, and the core does not know the
\* listener any more.
LEMMA SetErrorKeeps ==
    ASSUME NEW l, l \in LisState, NEW ec \in {"STOPPED", "OUT_OF_MEMORY"},
           l.notified \in Seq(CoreEvents[l.kind]), l.delivered \in Seq(CoreEvents[l.kind]),
           Len(l.notified) <= MaxNotified, FirstOf(l.delivered, l.notified), ~l.crashed
    PROVE  LisInv(SetErrorCode(l, ec))
<1> DEFINE t == [l EXCEPT !.ec = ec, !.queue = << >>, !.fut = FALSE, !.where = FALSE, !.inCore = FALSE,
                          !.context = FALSE]
<1>1. SetErrorCode(l, ec) = t
  BY Zenon, CbIs DEF SetErrorCode, ResolveErrorState, LisState
<1>2. << >> \in Seq(AnyEvent) /\ << >> \in Seq(CoreEvents[l.kind])
  OBVIOUS
<1>3. t \in LisState
  BY Zenon, <1>2 DEF LisState
<1>4. /\ t.kind = l.kind /\ t.ec = ec /\ t.queue = << >> /\ t.fut = FALSE /\ t.where = FALSE
      /\ t.inCore = FALSE /\ t.notified = l.notified /\ t.delivered = l.delivered /\ t.crashed = l.crashed
  BY DEF LisState
<1> HIDE DEF t
<1> QED BY Zenon, <1>1, <1>2, <1>3, <1>4 DEF LisInv, Owed

\* The core tells a listener of an event (nabto_device_connection_events_core_cb,
\* nabto_device_events_core_cb).
LEMMA CoreCbKeeps ==
    ASSUME NEW l, LisInv(l), l.inCore, Len(l.notified) < MaxNotified,
           NEW e \in CoreEvents[l.kind], NEW memory \in BOOLEAN
    PROVE  /\ LisInv(ConnectionEventsCoreCb([l EXCEPT !.notified = Append(@, e)], e, memory))
           /\ LisInv(DeviceEventsCoreCb([l EXCEPT !.notified = Append(@, e)], e, memory))
<1> DEFINE S == CoreEvents[l.kind]
           n == Append(l.notified, e)
           s == [l EXCEPT !.notified = n]
<1>1. l \in LisState /\ l.ec = "OK" /\ l.context /\ ~l.crashed
  BY Zenon DEF LisInv, Owed
<1>2. /\ l.notified \in Seq(S) /\ l.delivered \in Seq(S) /\ l.queue \in Seq(S) /\ e \in S
      /\ l.delivered \o l.queue = l.notified /\ FirstOf(l.delivered, l.notified)
  BY Zenon, <1>1 DEF LisInv, Owed
<1>3. S \subseteq AnyEvent
  BY <1>1, KindEvents DEF LisState
<1> HIDE DEF S
<1>4. n \in Seq(S) /\ FirstOf(l.delivered, n) /\ Len(n) <= MaxNotified
  <2>1. n \in Seq(S) /\ Len(n) = Len(l.notified) + 1 /\ Len(l.notified) \in Nat
    BY <1>2, MoreQueued, LenProperties
  <2> QED BY <1>2, <2>1, FirstOfMore, NotifiedAssumption
<1>5. n \in Seq(AnyEvent)
  BY <1>3, <1>4, SeqMonotonic
<1> HIDE DEF n
<1>6. s \in LisState
  BY Zenon, <1>1, <1>5 DEF LisState
<1>7. /\ s.kind = l.kind /\ s.ec = l.ec /\ s.queue = l.queue /\ s.fut = l.fut /\ s.where = l.where
      /\ s.context = l.context /\ s.inCore = l.inCore /\ s.notified = n /\ s.delivered = l.delivered
      /\ s.crashed = l.crashed
  BY Zenon, <1>1 DEF LisState
<1> HIDE DEF s
<1>8. LisInv(SetErrorCode(s, "OUT_OF_MEMORY"))
  BY <1>1, <1>2, <1>4, <1>6, <1>7, SetErrorKeeps DEF S
<1>9. LisInv(ListenerAddEvent(s, e))
  <2> DEFINE q == Append(s.queue, e)
             t == [s EXCEPT !.queue = q]
  <2>1. ListenerAddEvent(s, e) = ListenerTryResolve(t)
    BY <1>1, <1>7 DEF ListenerAddEvent
  <2>2. q \in Seq(S) /\ l.delivered \o q = n
    <3> DEFINE d == l.delivered
               Q == l.queue
    <3>1. d \in Seq(S) /\ Q \in Seq(S) /\ q = Append(Q, e) /\ n = Append(d \o Q, e) /\ e \in S
      BY <1>2, <1>7 DEF n
    <3> HIDE DEF d, Q, q
    <3>2. q \in Seq(S) /\ d \o q = n
      BY ONLY <3>1, MoreQueued
    <3> QED BY <3>2 DEF d
  <2>3. q \in Seq(AnyEvent)
    BY <1>3, <2>2, SeqMonotonic
  <2> HIDE DEF q
  <2>4. t \in LisState
    BY <1>6, <2>3 DEF LisState
  <2>5. /\ t.kind = s.kind /\ t.ec = s.ec /\ t.queue = q /\ t.fut = s.fut /\ t.where = s.where
        /\ t.context = s.context /\ t.inCore = s.inCore /\ t.notified = s.notified
        /\ t.delivered = s.delivered /\ t.crashed = s.crashed
    BY <1>6 DEF LisState
  <2> HIDE DEF t
  <2>6. l.fut = l.where /\ l.inCore
    BY DEF LisInv, Owed
  <2>7. Owed(t)
    BY <1>1, <1>2, <1>4, <1>7, <2>2, <2>4, <2>5, <2>6 DEF Owed, S
  <2> QED BY <2>1, <2>7, TryResolveKeeps
<1> QED BY <1>1, <1>7, <1>8, <1>9 DEF ConnectionEventsCoreCb, DeviceEventsCoreCb, s, n

\* Every step of the core and of the application keeps the invariant.
LEMMA ListenersStep == LisInv(lis) /\ [ListenersNext]_lis => LisInv(lis')
<1> SUFFICES ASSUME LisInv(lis), [ListenersNext]_lis PROVE LisInv(lis')
  OBVIOUS
<1>1. lis \in LisState
  BY DEF LisInv, Owed
<1>2. CASE ConnectionEventsInitListener \/ DeviceEventsInitListener
  <2>1. lis' = [lis EXCEPT !.ec = "OK", !.context = TRUE, !.inCore = TRUE] /\ lis.ec = "NONE"
    BY <1>2 DEF ConnectionEventsInitListener, DeviceEventsInitListener, ListenerInit
  <2>2. lis' \in LisState
    BY ONLY Zenon, <1>1, <2>1 DEF LisState
  <2>3. /\ lis'.kind = lis.kind /\ lis'.ec = "OK" /\ lis'.queue = lis.queue /\ lis'.fut = lis.fut
        /\ lis'.where = lis.where /\ lis'.context /\ lis'.inCore /\ lis'.notified = lis.notified
        /\ lis'.delivered = lis.delivered /\ lis'.crashed = lis.crashed
    BY ONLY <1>1, <2>1 DEF LisState
  <2>4. lis.queue = << >> /\ lis.notified = << >> /\ lis.delivered = << >> /\ ~lis.fut
    BY <2>1 DEF LisInv, Owed
  <2>5. << >> \o << >> = << >>
    OBVIOUS
  <2> QED BY <2>2, <2>3, <2>4, <2>5 DEF LisInv, Owed
<1>3. CASE ListenConnectionEvent \/ ListenDeviceEvent
  <2> DEFINE t == [lis EXCEPT !.fut = TRUE, !.where = TRUE]
  <2>1. lis' = ListenerTryResolve(t) /\ lis.ec = "OK"
    BY <1>3 DEF ListenConnectionEvent, ListenDeviceEvent, ListenerInitFuture
  <2>2. t \in LisState
    BY ONLY Zenon, <1>1 DEF LisState
  <2>3. /\ t.kind = lis.kind /\ t.ec = lis.ec /\ t.queue = lis.queue /\ t.fut = TRUE /\ t.where = TRUE
        /\ t.context = lis.context /\ t.inCore = lis.inCore /\ t.notified = lis.notified
        /\ t.delivered = lis.delivered /\ t.crashed = lis.crashed
    BY ONLY <1>1 DEF LisState
  <2> HIDE DEF t
  <2>4. Owed(t)
    BY Zenon, <2>1, <2>2, <2>3 DEF LisInv, Owed
  <2> QED BY <2>1, <2>4, TryResolveKeeps
<1>4. CASE ListenerStop
  <2>1. lis' = SetErrorCode(lis, "STOPPED")
    BY <1>4 DEF ListenerStop
  <2> QED BY Zenon, <2>1, SetErrorKeeps DEF LisInv, Owed
<1>5. ASSUME NEW e \in CoreEvents[lis.kind], NEW memory \in BOOLEAN,
             NotifyConnectionEvent(e, memory) \/ NotifyDeviceEvent(e, memory)
      PROVE  LisInv(lis')
  BY <1>5, CoreCbKeeps DEF NotifyConnectionEvent, NotifyDeviceEvent
<1>6. CASE UNCHANGED lis
  BY <1>6
<1> QED BY <1>2, <1>3, <1>4, <1>5, <1>6 DEF ListenersNext

\* The invariant says what EventsInOrder does.
LEMMA OwedInOrder == LisInv(lis) => EventsInOrder
<1> SUFFICES ASSUME LisInv(lis) PROVE EventsInOrder
  OBVIOUS
<1> DEFINE S == CoreEvents[lis.kind]
<1>1. lis \in LisState /\ FirstOf(lis.delivered, lis.notified) /\ Len(lis.notified) <= MaxNotified
  BY DEF LisInv, Owed
<1>2. lis.notified \in Seq(S) /\ lis.delivered \in Seq(S) /\ lis.queue \in Seq(S)
  BY DEF LisInv, Owed
<1> HIDE DEF S
<1>3. Len(lis.notified) \in Nat /\ Len(lis.delivered) \in Nat /\ Len(lis.queue) \in Nat
  BY <1>2, LenProperties
<1>4. Len(lis.delivered) <= MaxNotified
  BY <1>1, <1>3, NotifiedAssumption DEF FirstOf
<1>5. Len(lis.queue) <= MaxNotified
  <2>1. CASE lis.ec = "OK"
    <3>1. Len(lis.notified) = Len(lis.delivered) + Len(lis.queue)
      BY ZenonT(40), <1>2, <2>1, ConcatFirst DEF LisInv, Owed
    <3> DEFINE a == Len(lis.notified)
               b == Len(lis.delivered)
               c == Len(lis.queue)
    <3>2. a = b + c /\ a <= MaxNotified /\ a \in Nat /\ b \in Nat /\ c \in Nat
      BY Zenon, <1>1, <1>3, <3>1
    <3> HIDE DEF a, b, c
    <3>3. c <= MaxNotified
      BY ONLY <3>2, NotifiedAssumption
    <3> QED BY <3>3 DEF c
  <2>2. CASE lis.ec # "OK"
    BY <2>2, NotifiedAssumption DEF LisInv, Owed
  <2> QED BY <2>1, <2>2
<1>6. /\ Range(lis.queue) \subseteq S /\ Range(lis.notified) \subseteq S /\ Range(lis.delivered) \subseteq S
  BY <1>2, RangeOfSeq
<1>7. /\ lis.kind \in Kinds /\ lis.ec \in {"NONE", "OK", "STOPPED", "OUT_OF_MEMORY"}
      /\ lis.fut \in BOOLEAN /\ lis.where \in BOOLEAN /\ lis.context \in BOOLEAN /\ lis.inCore \in BOOLEAN
      /\ lis.crashed \in BOOLEAN
  BY <1>1 DEF LisState
<1>8. ListenersTypeOK
  <2>1. \A f \in {"fut", "where", "context", "inCore", "crashed"} : lis[f] \in BOOLEAN
    BY <1>7
  <2>2. \A f \in {"queue", "notified", "delivered"} :
           Len(lis[f]) <= MaxNotified /\ Range(lis[f]) \subseteq CoreEvents[lis.kind]
    BY <1>1, <1>4, <1>5, <1>6 DEF S
  <2> QED BY <1>7, <2>1, <2>2 DEF ListenersTypeOK
<1>9. Len(lis.delivered) <= Len(lis.notified) /\ SubSeq(lis.notified, 1, Len(lis.delivered)) = lis.delivered
  <2> DEFINE d == lis.delivered
             n == lis.notified
  <2>1. d \in Seq(S) /\ n \in Seq(S) /\ Len(d) <= Len(n) /\ \A i \in 1..Len(d) : d[i] = n[i]
    BY <1>1, <1>2 DEF FirstOf
  <2> HIDE DEF d, n
  <2>2. SubSeq(n, 1, Len(d)) = d
    BY <2>1
  <2> QED BY <2>1, <2>2 DEF d, n
<1> QED BY Zenon, <1>8, <1>9 DEF EventsInOrder, LisInv, Owed

\* The application is given every event the core told of, once and in order, for any number of
\* them (nabto_device_listener_add_event, nabto_device_listener_try_resolve).
THEOREM EventsAlwaysInOrder == ListenersInit /\ [][ListenersNext]_lis => []EventsInOrder
<1> DEFINE Inv == LisInv(lis)
<1>1. ListenersInit => Inv
  <2> SUFFICES ASSUME ListenersInit PROVE LisInv(lis)
    OBVIOUS
  <2>1. PICK k \in Kinds :
        lis = [kind |-> k, ec |-> "NONE", queue |-> << >>, fut |-> FALSE, where |-> FALSE,
               context |-> FALSE, inCore |-> FALSE, notified |-> << >>, delivered |-> << >>,
               crashed |-> FALSE]
    BY Zenon DEF ListenersInit
  <2>2. << >> \in Seq(AnyEvent) /\ << >> \in Seq(CoreEvents[k]) /\ Len(<< >>) = 0
    OBVIOUS
  <2>3. lis \in LisState
    BY <2>1, <2>2 DEF LisState
  <2>4. /\ lis.kind = k /\ lis.ec = "NONE" /\ lis.queue = << >> /\ lis.notified = << >>
        /\ lis.delivered = << >> /\ lis.fut = FALSE /\ lis.where = FALSE /\ lis.inCore = FALSE /\ lis.crashed = FALSE
    BY <2>1
  <2>5. FirstOf(<< >>, << >>) /\ Len(<< >>) <= MaxNotified
    BY <2>2, NotifiedAssumption DEF FirstOf
  <2> QED BY Zenon, <2>2, <2>3, <2>4, <2>5 DEF LisInv, Owed
<1>2. Inv /\ [ListenersNext]_lis => Inv'
  BY ListenersStep
<1>3. Inv => EventsInOrder
  BY OwedInOrder
<1> HIDE DEF Inv
<1> QED BY <1>1, <1>2, <1>3, PTL

-----------------------------------------------------------------------------
(* Tunnel *)

\* The types of the fields of the tunnel.
TunState ==
    [service: 0..MaxServices, counter: 0..MaxServices, auth: 0..MaxServices,
     conn: {"none", "alive", "freed", "crashed"}, of: 0..MaxServices,
     listed: BOOLEAN, stream: BOOLEAN, connect: Completion, read: Completion,
     write: Completion, length: BOOLEAN, sRead: BOOLEAN, sWrite: BOOLEAN,
     sClose: BOOLEAN, tcpReadEnded: BOOLEAN, streamReadEnded: BOOLEAN,
     aborted: BOOLEAN, request: {"none", "list", "get", "2.05", "4.03", "4.04"},
     granted: SUBSET (1..MaxServices)]

\* What the socket reads goes to the stream: a read of the socket, a write of the stream, the close of
\* the stream, or the end of this half. Of these there is one at a time.
ToStream(t) ==
    /\ t.read # "none" => ~t.sWrite /\ ~t.sClose /\ ~t.tcpReadEnded
    /\ t.sWrite => ~t.sClose /\ ~t.tcpReadEnded
    /\ t.sClose => ~t.tcpReadEnded

\* And what the stream reads goes to the socket.
ToSocket(t) ==
    /\ t.write # "none" => ~t.sRead /\ ~t.streamReadEnded
    /\ t.sRead => ~t.streamReadEnded

\* Neither half has begun.
Resting(t) ==
    /\ t.read = "none" /\ t.write = "none" /\ ~t.sRead /\ ~t.sWrite /\ ~t.sClose
    /\ ~t.tcpReadEnded /\ ~t.streamReadEnded

\* The invariant: the two halves are in order, a connection that waits for its socket has not begun either,
\* one that is freed has no operation of its stream left, and a connection was made for a service that was granted.
TunInv(t) ==
    /\ t \in TunState
    /\ ToStream(t) /\ ToSocket(t)
    /\ t.conn = "none" => Resting(t) /\ t.connect = "none"
    /\ t.connect # "none" => Resting(t)
    /\ t.auth # 0 => t.conn = "none"
    /\ t.conn = "freed" => ~t.sRead /\ ~t.sWrite /\ ~t.sClose
    /\ t.of # 0 => t.of \in t.granted

\* The end of a connection without stream operations (the_end).
LEMMA FreeKeeps ==
    ASSUME NEW t, TunInv(t), ~t.sRead, ~t.sWrite, ~t.sClose, t.conn # "none"
    PROVE  TunInv(TheEnd(t)) /\ TheEnd(t).conn = "freed"
<1> DEFINE u == TheEnd(t)
<1>1. t \in TunState /\ "none" \in Completion
  BY DEF TunInv, Completion
<1>2. u = [t EXCEPT !.listed = FALSE, !.conn = "freed", !.connect = "none", !.read = "none", !.write = "none",
              !.stream = FALSE]
  BY DEF TheEnd, FreeConnection
<1>3. u \in TunState
  BY ZenonT(40), <1>1, <1>2 DEF TunState
<1>4. /\ u.auth = t.auth /\ u.conn = "freed" /\ u.of = t.of /\ u.connect = "none" /\ u.read = "none" /\ u.write = "none"
      /\ u.sRead = t.sRead /\ u.sWrite = t.sWrite /\ u.sClose = t.sClose /\ u.tcpReadEnded = t.tcpReadEnded
      /\ u.streamReadEnded = t.streamReadEnded /\ u.granted = t.granted
  BY <1>1, <1>2 DEF TunState
<1> HIDE DEF u
<1>5. TunInv(u)
  BY <1>3, <1>4 DEF TunInv, ToStream, ToSocket, Resting
<1> QED BY <1>4, <1>5 DEF u

\* abort_connection closes what is open and ends nothing by itself.
LEMMA AbortKeeps ==
    ASSUME NEW t, TunInv(t)
    PROVE  /\ TunInv(AbortConnection(t))
           /\ AbortConnection(t).conn = t.conn
           /\ AbortConnection(t).sRead = t.sRead /\ AbortConnection(t).sWrite = t.sWrite 
           /\ AbortConnection(t).sClose = t.sClose
<1> DEFINE Cut(c) == IF c = "pending" THEN "err" ELSE c
           a == Cut(t.connect)
           b == Cut(t.read)
           c == Cut(t.write)
           u == [t EXCEPT !.aborted = TRUE, !.connect = a, !.read = b, !.write = c, !.stream = FALSE]
<1>1. t \in TunState
  BY DEF TunInv
<1>2. AbortConnection(t) = u
  BY DEF AbortConnection, TcpAbort
<1>3. /\ a \in Completion /\ b \in Completion /\ c \in Completion
      /\ (a = "none" <=> t.connect = "none") /\ (b = "none" <=> t.read = "none") /\ (c = "none" <=> t.write = "none")
  BY <1>1 DEF TunState, Completion
<1> HIDE DEF a, b, c
<1>4. u \in TunState
  BY ZenonT(40), <1>1, <1>3 DEF TunState
<1>5. /\ u.auth = t.auth /\ u.conn = t.conn /\ u.of = t.of /\ u.connect = a /\ u.read = b /\ u.write = c
      /\ u.sRead = t.sRead /\ u.sWrite = t.sWrite /\ u.sClose = t.sClose /\ u.tcpReadEnded = t.tcpReadEnded
      /\ u.streamReadEnded = t.streamReadEnded /\ u.granted = t.granted
  BY <1>1 DEF TunState
<1> HIDE DEF u
<1>6. TunInv(u)
  BY <1>3, <1>4, <1>5 DEF TunInv, ToStream, ToSocket, Resting
<1> QED BY <1>2, <1>5, <1>6

\* is_ended: with both halves ended no operation of the stream is outstanding.
LEMMA IsEndedKeeps ==
    ASSUME NEW t, TunInv(t), t.conn # "none"
    PROVE  TunInv(IsEnded(t))
<1>1. CASE t.tcpReadEnded /\ t.streamReadEnded
  <2>1. ~t.sRead /\ ~t.sWrite /\ ~t.sClose
    BY <1>1 DEF TunInv, ToStream, ToSocket
  <2> QED BY <1>1, <2>1, FreeKeeps DEF IsEnded
<1>2. CASE ~(t.tcpReadEnded /\ t.streamReadEnded)
  BY <1>2 DEF IsEnded
<1> QED BY <1>1, <1>2

\* An operation of the stream, or a write of the socket, is outstanding only once the socket is
\* connected and while the connection is not freed.
LEMMA Connected ==
    ASSUME NEW t, TunInv(t), t.sRead \/ t.sWrite \/ t.sClose
    PROVE  t.conn # "none" /\ t.conn # "freed" /\ t.connect = "none" /\ t.auth = 0
BY DEF TunInv, Resting

\* start_stream_read, start_stream_write, close_stream, when their half has nothing outstanding.
LEMMA StartStreamReadKeeps ==
    ASSUME NEW t, TunInv(t), t.conn = "alive", t.connect = "none", t.write = "none", ~t.streamReadEnded
    PROVE  TunInv(StartStreamRead(t))
<1> DEFINE v == t.stream
           u == IF v THEN [t EXCEPT !.sRead = TRUE] ELSE [t EXCEPT !.conn = "crashed"]
<1>1. t \in TunState
  BY DEF TunInv
<1>2. StartStreamRead(t) = u
  BY DEF StartStreamRead
<1> HIDE DEF v
<1>3. u \in TunState
  BY ZenonT(40), <1>1 DEF TunState
<1>4. /\ u.auth = t.auth /\ u.conn \in {"alive", "crashed"} /\ u.of = t.of /\ u.connect = t.connect
      /\ u.read = t.read /\ u.write = t.write /\ u.sWrite = t.sWrite /\ u.sClose = t.sClose
      /\ u.tcpReadEnded = t.tcpReadEnded /\ u.streamReadEnded = t.streamReadEnded /\ u.granted = t.granted
  BY <1>1 DEF TunState
<1> HIDE DEF u
<1>5. TunInv(u)
  BY <1>3, <1>4 DEF TunInv, ToStream, ToSocket, Resting
<1> QED BY <1>2, <1>5

\* What the socket has read is written to the stream.
LEMMA StartStreamWriteKeeps ==
    ASSUME NEW t, TunInv(t), t.conn = "alive", t.connect = "none", t.read = "none", ~t.sClose, ~t.tcpReadEnded
    PROVE  TunInv(StartStreamWrite(t))
<1> DEFINE v == t.stream
           u == IF v THEN [t EXCEPT !.sWrite = TRUE] ELSE [t EXCEPT !.conn = "crashed"]
<1>1. t \in TunState
  BY DEF TunInv
<1>2. StartStreamWrite(t) = u
  BY DEF StartStreamWrite
<1> HIDE DEF v
<1>3. u \in TunState
  BY ZenonT(40), <1>1 DEF TunState
<1>4. /\ u.auth = t.auth /\ u.conn \in {"alive", "crashed"} /\ u.of = t.of /\ u.connect = t.connect
      /\ u.read = t.read /\ u.write = t.write /\ u.sRead = t.sRead /\ u.sClose = t.sClose
      /\ u.tcpReadEnded = t.tcpReadEnded /\ u.streamReadEnded = t.streamReadEnded /\ u.granted = t.granted
  BY <1>1 DEF TunState
<1> HIDE DEF u
<1>5. TunInv(u)
  BY <1>3, <1>4 DEF TunInv, ToStream, ToSocket, Resting
<1> QED BY <1>2, <1>5

\* The stream is closed after the socket has ended.
LEMMA CloseStreamKeeps ==
    ASSUME NEW t, TunInv(t), t.conn = "alive", t.connect = "none", t.read = "none", ~t.sWrite, ~t.sClose, ~t.tcpReadEnded
    PROVE  TunInv(CloseTunnelStream(t))
<1>1. t \in TunState
  BY DEF TunInv
<1>2. CASE t.stream
  <2> DEFINE u == [t EXCEPT !.sClose = TRUE]
  <2>1. u \in TunState
    BY Zenon, <1>1 DEF TunState
  <2>2. /\ u.auth = t.auth /\ u.conn = t.conn /\ u.of = t.of /\ u.connect = t.connect
        /\ u.read = t.read /\ u.write = t.write /\ u.sRead = t.sRead /\ u.sWrite = t.sWrite
        /\ u.tcpReadEnded = t.tcpReadEnded /\ u.streamReadEnded = t.streamReadEnded /\ u.granted = t.granted
    BY <1>1 DEF TunState
  <2> HIDE DEF u
  <2>3. TunInv(u)
    BY <2>1, <2>2 DEF TunInv, ToStream, ToSocket, Resting
  <2> QED BY <1>2, <2>3 DEF CloseTunnelStream, u
<1>3. CASE ~t.stream
  <2> DEFINE u == [t EXCEPT !.tcpReadEnded = TRUE]
  <2>1. u \in TunState
    BY Zenon, <1>1 DEF TunState
  <2>2. /\ u.auth = t.auth /\ u.conn = t.conn /\ u.of = t.of /\ u.connect = t.connect
        /\ u.read = t.read /\ u.write = t.write /\ u.sRead = t.sRead /\ u.sWrite = t.sWrite
        /\ u.sClose = t.sClose /\ u.streamReadEnded = t.streamReadEnded /\ u.granted = t.granted
    BY <1>1 DEF TunState
  <2>3. CloseTunnelStream(t) = IsEnded(u)
    BY <1>3 DEF CloseTunnelStream
  <2> HIDE DEF u
  <2>4. TunInv(u)
    BY <2>1, <2>2 DEF TunInv, ToStream, ToSocket, Resting
  <2> QED BY <2>2, <2>3, <2>4, IsEndedKeeps
<1> QED BY <1>2, <1>3

\* stream_readen.
LEMMA StreamReadenKeeps ==
    ASSUME NEW t, TunInv(t), t.sRead, NEW data \in BOOLEAN
    PROVE  TunInv(StreamReaden(t, data))
<1>1. t \in TunState /\ t.conn # "none" /\ t.conn # "freed" /\ t.connect = "none"
  BY Connected DEF TunInv
<1>2. CASE data
  <2> DEFINE v == IF t.aborted THEN "err" ELSE "pending"
             u == [t EXCEPT !.sRead = FALSE, !.write = v]
  <2>1. StreamReaden(t, data) = u
    BY <1>1, <1>2 DEF StreamReaden, StartTcpWrite, TunState
  <2>2. v \in Completion
    BY DEF Completion
  <2> HIDE DEF v
  <2>3. u \in TunState
    BY Zenon, <1>1, <2>2 DEF TunState
  <2>4. /\ u.auth = t.auth /\ u.conn = t.conn /\ u.of = t.of /\ u.connect = t.connect /\ u.read = t.read /\ u.write = v
        /\ u.sRead = FALSE /\ u.sWrite = t.sWrite /\ u.sClose = t.sClose /\ u.tcpReadEnded = t.tcpReadEnded
        /\ u.streamReadEnded = t.streamReadEnded /\ u.granted = t.granted
    BY <1>1 DEF TunState
  <2> HIDE DEF u
  <2>5. TunInv(u)
    BY <1>1, <2>3, <2>4 DEF TunInv, ToStream, ToSocket, Resting
  <2> QED BY <2>1, <2>5
<1>3. CASE ~data
  <2> DEFINE u == [t EXCEPT !.sRead = FALSE, !.streamReadEnded = TRUE]
  <2>1. StreamReaden(t, data) = IsEnded(u)
    BY <1>3 DEF StreamReaden, CloseTcp
  <2>2. u \in TunState
    BY Zenon, <1>1 DEF TunState
  <2>3. /\ u.auth = t.auth /\ u.conn = t.conn /\ u.of = t.of /\ u.connect = t.connect /\ u.read = t.read
        /\ u.write = t.write /\ u.sRead = FALSE /\ u.sWrite = t.sWrite /\ u.sClose = t.sClose
        /\ u.tcpReadEnded = t.tcpReadEnded /\ u.streamReadEnded = TRUE /\ u.granted = t.granted
    BY <1>1 DEF TunState
  <2> HIDE DEF u
  <2>4. TunInv(u)
    BY <1>1, <2>2, <2>3 DEF TunInv, ToStream, ToSocket, Resting
  <2> QED BY <1>1, <2>1, <2>3, <2>4, IsEndedKeeps
<1> QED BY <1>2, <1>3

\* stream_written.
LEMMA StreamWrittenKeeps ==
    ASSUME NEW t, TunInv(t), t.sWrite, NEW ok \in BOOLEAN
    PROVE  TunInv(StreamWritten(t, ok))
<1>1. t \in TunState /\ t.conn # "none" /\ t.conn # "freed" /\ t.connect = "none"
  BY Connected DEF TunInv
<1>2. CASE ok
  <2> DEFINE v == IF t.aborted THEN "err" ELSE "pending"
             u == [t EXCEPT !.sWrite = FALSE, !.read = v]
  <2>1. StreamWritten(t, ok) = u
    BY <1>1, <1>2 DEF StreamWritten, StartTcpRead, TunState
  <2>2. v \in Completion
    BY DEF Completion
  <2> HIDE DEF v
  <2>3. u \in TunState
    BY Zenon, <1>1, <2>2 DEF TunState
  <2>4. /\ u.auth = t.auth /\ u.conn = t.conn /\ u.of = t.of /\ u.connect = t.connect /\ u.read = v
        /\ u.write = t.write /\ u.sRead = t.sRead /\ u.sWrite = FALSE /\ u.sClose = t.sClose
        /\ u.tcpReadEnded = t.tcpReadEnded /\ u.streamReadEnded = t.streamReadEnded /\ u.granted = t.granted
    BY <1>1 DEF TunState
  <2> HIDE DEF u
  <2>5. TunInv(u)
    BY <1>1, <2>3, <2>4 DEF TunInv, ToStream, ToSocket, Resting
  <2> QED BY <2>1, <2>5
<1>3. CASE ~ok
  <2> DEFINE u == [t EXCEPT !.sWrite = FALSE, !.tcpReadEnded = TRUE]
  <2>1. StreamWritten(t, ok) = IsEnded(AbortConnection(u))
    BY <1>3 DEF StreamWritten
  <2>2. u \in TunState
    BY ZenonT(40), <1>1 DEF TunState
  <2>3. /\ u.auth = t.auth /\ u.conn = t.conn /\ u.of = t.of /\ u.connect = t.connect /\ u.read = t.read
        /\ u.write = t.write /\ u.sRead = t.sRead /\ u.sWrite = FALSE /\ u.sClose = t.sClose
        /\ u.tcpReadEnded = TRUE /\ u.streamReadEnded = t.streamReadEnded /\ u.granted = t.granted
    BY <1>1 DEF TunState
  <2> HIDE DEF u
  <2>4. TunInv(u)
    BY <1>1, <2>2, <2>3 DEF TunInv, ToStream, ToSocket, Resting
  <2>5. TunInv(AbortConnection(u)) /\ AbortConnection(u).conn # "none"
    BY <1>1, <2>3, <2>4, AbortKeeps
  <2> QED BY <2>1, <2>5, IsEndedKeeps
<1> QED BY <1>2, <1>3

\* stream_closed.
LEMMA StreamClosedKeeps ==
    ASSUME NEW t, TunInv(t), t.sClose
    PROVE  TunInv(StreamClosed(t))
<1> DEFINE u == [t EXCEPT !.sClose = FALSE, !.tcpReadEnded = TRUE]
<1>1. t \in TunState /\ t.conn # "none" /\ t.conn # "freed" /\ t.connect = "none"
  BY Connected DEF TunInv
<1>2. StreamClosed(t) = IsEnded(u)
  BY DEF StreamClosed
<1>3. u \in TunState
  BY ZenonT(40), <1>1 DEF TunState
<1>4. /\ u.auth = t.auth /\ u.conn = t.conn /\ u.of = t.of /\ u.connect = t.connect /\ u.read = t.read
      /\ u.write = t.write /\ u.sRead = t.sRead /\ u.sWrite = t.sWrite /\ u.sClose = FALSE
      /\ u.tcpReadEnded = TRUE /\ u.streamReadEnded = t.streamReadEnded /\ u.granted = t.granted
  BY <1>1 DEF TunState
<1> HIDE DEF u
<1>5. TunInv(u)
  BY <1>1, <1>3, <1>4 DEF TunInv, ToStream, ToSocket, Resting
<1> QED BY <1>1, <1>2, <1>4, <1>5, IsEndedKeeps

\* connected: a read of the socket and one of the stream are started, unless the stream is gone.
LEMMA ConnectedKeeps ==
    ASSUME TunInv(tun), ConnectCallback
    PROVE  TunInv(tun')
<1>1. tun \in TunState /\ tun.conn = "alive" /\ Resting(tun) /\ tun.auth = 0
  BY DEF ConnectCallback, Alive, TunInv
<1>2. CASE tun.connect = "err"
  <2>1. tun' = TheEnd(tun)
    BY <1>2 DEF ConnectCallback
  <2> QED BY <1>1, <2>1, FreeKeeps DEF Resting
<1>3. CASE tun.connect # "err"
  <2> DEFINE v == IF tun.aborted THEN "err" ELSE "pending"
             u == [tun EXCEPT !.connect = "none", !.read = v]
  <2>1. tun' = StartStreamRead(u)
    BY <1>1, <1>3 DEF ConnectCallback, StartTcpRead, TunState
  <2>2. v \in Completion /\ "none" \in Completion
    BY DEF Completion
  <2> HIDE DEF v
  <2>3. u \in TunState
    BY ZenonT(40), <1>1, <2>2 DEF TunState
  <2>4. /\ u.auth = tun.auth /\ u.conn = tun.conn /\ u.of = tun.of /\ u.connect = "none" /\ u.read = v
        /\ u.write = tun.write /\ u.sRead = tun.sRead /\ u.sWrite = tun.sWrite /\ u.sClose = tun.sClose
        /\ u.tcpReadEnded = tun.tcpReadEnded /\ u.streamReadEnded = tun.streamReadEnded
        /\ u.granted = tun.granted
    BY <1>1 DEF TunState
  <2> HIDE DEF u
  <2>5. TunInv(u)
    BY <1>1, <2>3, <2>4 DEF TunInv, ToStream, ToSocket, Resting
  <2> QED BY <1>1, <2>1, <2>4, <2>5, StartStreamReadKeeps DEF Resting
<1> QED BY <1>2, <1>3

\* tcp_readen.
LEMMA TcpReadenKeeps ==
    ASSUME TunInv(tun), TcpReaden
    PROVE  TunInv(tun')
<1> DEFINE u == [tun EXCEPT !.read = "none"]
<1>1. tun \in TunState /\ tun.conn = "alive" /\ tun.read # "none" /\ tun.connect = "none" /\ "none" \in Completion
  BY DEF TcpReaden, Alive, TunInv, Resting, Completion
<1>2. ~tun.sWrite /\ ~tun.sClose /\ ~tun.tcpReadEnded
  BY <1>1 DEF TunInv, ToStream
<1>3. u \in TunState
  BY <1>1 DEF TunState
<1>4. /\ u.auth = tun.auth /\ u.conn = tun.conn /\ u.of = tun.of /\ u.connect = tun.connect
      /\ u.read = "none" /\ u.write = tun.write /\ u.sRead = tun.sRead /\ u.sWrite = tun.sWrite
      /\ u.sClose = tun.sClose /\ u.tcpReadEnded = tun.tcpReadEnded
      /\ u.streamReadEnded = tun.streamReadEnded /\ u.granted = tun.granted
  BY <1>1 DEF TunState
<1>5. tun' = IF ~tun.length \/ tun.read = "eof" THEN CloseTunnelStream(u)
             ELSE IF tun.read = "err" THEN AbortConnection([u EXCEPT !.tcpReadEnded = TRUE])
             ELSE StartStreamWrite(u)
  BY DEF TcpReaden
<1> HIDE DEF u
<1>6. TunInv(u)
  BY <1>1, <1>3, <1>4 DEF TunInv, ToStream, ToSocket, Resting
<1>7. TunInv(CloseTunnelStream(u)) /\ TunInv(StartStreamWrite(u))
  BY <1>1, <1>2, <1>4, <1>6, CloseStreamKeeps, StartStreamWriteKeeps
<1>8. TunInv(AbortConnection([u EXCEPT !.tcpReadEnded = TRUE]))
  <2> DEFINE w == [u EXCEPT !.tcpReadEnded = TRUE]
  <2>1. w \in TunState
    BY Zenon, <1>3 DEF TunState
  <2>2. /\ w.auth = u.auth /\ w.conn = u.conn /\ w.of = u.of /\ w.connect = u.connect
        /\ w.read = u.read /\ w.write = u.write /\ w.sRead = u.sRead /\ w.sWrite = u.sWrite
        /\ w.sClose = u.sClose /\ w.tcpReadEnded = TRUE /\ w.streamReadEnded = u.streamReadEnded
        /\ w.granted = u.granted
    BY <1>3 DEF TunState
  <2> HIDE DEF w
  <2>3. TunInv(w)
    BY <1>1, <1>2, <1>4, <1>6, <2>1, <2>2 DEF TunInv, ToStream, ToSocket, Resting
  <2> QED BY <2>3, AbortKeeps DEF w
<1> QED BY <1>5, <1>7, <1>8

\* tcp_written.
LEMMA TcpWrittenKeeps ==
    ASSUME TunInv(tun), TcpWritten
    PROVE  TunInv(tun')
<1> DEFINE u == [tun EXCEPT !.write = "none"]
<1>1. tun \in TunState /\ tun.conn = "alive" /\ tun.write # "none" /\ tun.connect = "none" /\ "none" \in Completion
  BY DEF TcpWritten, Alive, TunInv, Resting, Completion
<1>2. ~tun.sRead /\ ~tun.streamReadEnded
  BY <1>1 DEF TunInv, ToSocket
<1>3. u \in TunState
  BY <1>1 DEF TunState
<1>4. /\ u.auth = tun.auth /\ u.conn = tun.conn /\ u.of = tun.of /\ u.connect = tun.connect
      /\ u.read = tun.read /\ u.write = "none" /\ u.sRead = tun.sRead /\ u.sWrite = tun.sWrite
      /\ u.sClose = tun.sClose /\ u.tcpReadEnded = tun.tcpReadEnded
      /\ u.streamReadEnded = tun.streamReadEnded /\ u.granted = tun.granted
  BY <1>1 DEF TunState
<1>5. tun' = IF tun.write = "ok" THEN StartStreamRead(u)
             ELSE IsEnded(AbortConnection([u EXCEPT !.streamReadEnded = TRUE]))
  BY DEF TcpWritten
<1> HIDE DEF u
<1>6. TunInv(u)
  BY <1>1, <1>3, <1>4 DEF TunInv, ToStream, ToSocket, Resting
<1>7. TunInv(StartStreamRead(u))
  BY <1>1, <1>2, <1>4, <1>6, StartStreamReadKeeps
<1>8. TunInv(IsEnded(AbortConnection([u EXCEPT !.streamReadEnded = TRUE])))
  <2> DEFINE w == [u EXCEPT !.streamReadEnded = TRUE]
  <2>1. w \in TunState
    BY Zenon, <1>3 DEF TunState
  <2>2. /\ w.auth = u.auth /\ w.conn = u.conn /\ w.of = u.of /\ w.connect = u.connect
        /\ w.read = u.read /\ w.write = u.write /\ w.sRead = u.sRead /\ w.sWrite = u.sWrite
        /\ w.sClose = u.sClose /\ w.tcpReadEnded = u.tcpReadEnded /\ w.streamReadEnded = TRUE
        /\ w.granted = u.granted
    BY <1>3 DEF TunState
  <2> HIDE DEF w
  <2>3. TunInv(w)
    BY <1>1, <1>2, <1>4, <1>6, <2>1, <2>2 DEF TunInv, ToStream, ToSocket, Resting
  <2>4. TunInv(AbortConnection(w)) /\ AbortConnection(w).conn # "none"
    BY <1>1, <1>4, <2>2, <2>3, AbortKeeps
  <2> QED BY <2>4, IsEndedKeeps DEF w
<1> QED BY <1>5, <1>7, <1>8

\* The network thread completes an operation.
LEMMA CompleteKeeps ==
    ASSUME TunInv(tun), Complete
    PROVE  TunInv(tun')
<1> DEFINE u == tun'
<1>1. tun \in TunState /\ tun.conn = "alive"
  BY DEF Complete, Alive, TunInv
<1>2. PICK ec \in {"ok", "eof", "err"} :
        \/ tun.connect = "pending" /\ tun' = [tun EXCEPT !.connect = ec]
        \/ tun.read = "pending" /\ tun' = [tun EXCEPT !.read = ec, !.length = @ \/ ec = "ok"]
        \/ tun.write = "pending" /\ tun' = [tun EXCEPT !.write = ec]
  BY DEF Complete
<1>3. ec \in Completion /\ ec # "none"
  BY DEF Completion
<1>4. CASE tun.connect = "pending" /\ tun' = [tun EXCEPT !.connect = ec]
  <2>1. u \in TunState
    BY <1>1, <1>3, <1>4 DEF TunState
  <2>2. /\ u.auth = tun.auth /\ u.conn = tun.conn /\ u.of = tun.of /\ u.connect = ec
        /\ u.read = tun.read /\ u.write = tun.write /\ u.sRead = tun.sRead
        /\ u.sWrite = tun.sWrite /\ u.sClose = tun.sClose /\ u.tcpReadEnded = tun.tcpReadEnded
        /\ u.streamReadEnded = tun.streamReadEnded /\ u.granted = tun.granted
    BY <1>1, <1>4 DEF TunState
  <2> QED BY <1>1, <1>3, <1>4, <2>1, <2>2 DEF TunInv, ToStream, ToSocket, Resting
<1>5. CASE tun.read = "pending" /\ tun' = [tun EXCEPT !.read = ec, !.length = @ \/ ec = "ok"]
  <2> DEFINE length == tun.length \/ ec = "ok"
  <2>1. length \in BOOLEAN /\ tun' = [tun EXCEPT !.read = ec, !.length = length]
    BY <1>5
  <2> HIDE DEF length
  <2>2. u \in TunState
    BY Zenon, <1>1, <1>3, <2>1 DEF TunState
  <2>3. /\ u.auth = tun.auth /\ u.conn = tun.conn /\ u.of = tun.of /\ u.connect = tun.connect
        /\ u.read = ec /\ u.write = tun.write /\ u.sRead = tun.sRead /\ u.sWrite = tun.sWrite
        /\ u.sClose = tun.sClose /\ u.tcpReadEnded = tun.tcpReadEnded
        /\ u.streamReadEnded = tun.streamReadEnded /\ u.granted = tun.granted
    BY <1>1, <2>1 DEF TunState
  <2> QED BY <1>1, <1>3, <1>5, <2>2, <2>3 DEF TunInv, ToStream, ToSocket, Resting
<1>6. CASE tun.write = "pending" /\ tun' = [tun EXCEPT !.write = ec]
  <2>1. u \in TunState
    BY <1>1, <1>3, <1>6 DEF TunState
  <2>2. /\ u.auth = tun.auth /\ u.conn = tun.conn /\ u.of = tun.of /\ u.connect = tun.connect
        /\ u.read = tun.read /\ u.write = ec /\ u.sRead = tun.sRead /\ u.sWrite = tun.sWrite
        /\ u.sClose = tun.sClose /\ u.tcpReadEnded = tun.tcpReadEnded
        /\ u.streamReadEnded = tun.streamReadEnded /\ u.granted = tun.granted
    BY <1>1, <1>6 DEF TunState
  <2> QED BY <1>1, <1>3, <1>6, <2>1, <2>2 DEF TunInv, ToStream, ToSocket, Resting
<1> QED BY <1>2, <1>4, <1>5, <1>6

\* service_stream_iam_callback: the service is found by the weak pointer that access was asked for.
LEMMA StreamIamKeeps ==
    ASSUME TunInv(tun), NEW allow \in BOOLEAN, StreamIam(allow)
    PROVE  TunInv(tun')
<1> DEFINE g == IF allow THEN tun.granted \cup {tun.auth} ELSE tun.granted
           u == [tun EXCEPT !.auth = 0, !.granted = g]
<1>1. tun \in TunState /\ tun.auth # 0 /\ tun.conn = "none" /\ Resting(tun) /\ tun.connect = "none"
  BY DEF StreamIam, TunInv
<1>2. tun' = IF FindByWeakPtr(u, tun.auth) /\ allow THEN StartConnection(u) ELSE u
  BY DEF StreamIam
<1>3. g \in SUBSET (1..MaxServices) /\ tun.granted \subseteq g /\ (allow => tun.auth \in g)
  BY <1>1, ServicesAssumption DEF TunState
<1> HIDE DEF g
<1> PICK zero \in 0..MaxServices : zero = 0
  BY ServicesAssumption
<1>4. u = [tun EXCEPT !.auth = zero, !.granted = g]
  OBVIOUS
<1> HIDE DEF u
<1>5. u \in TunState
  BY Zenon, <1>1, <1>3, <1>4 DEF TunState
<1>6. /\ u.service = tun.service
      /\ u.auth = zero /\ u.conn = tun.conn /\ u.of = tun.of /\ u.connect = tun.connect
      /\ u.read = tun.read /\ u.write = tun.write /\ u.sRead = tun.sRead
      /\ u.sWrite = tun.sWrite /\ u.sClose = tun.sClose /\ u.tcpReadEnded = tun.tcpReadEnded
      /\ u.streamReadEnded = tun.streamReadEnded /\ u.granted = g
  BY <1>1, <1>4 DEF TunState
<1>7. TunInv(u)
  BY <1>1, <1>3, <1>5, <1>6 DEF TunInv, ToStream, ToSocket, Resting
<1>8. CASE FindByWeakPtr(u, tun.auth) /\ allow
  <2> DEFINE w == [u EXCEPT !.conn = "alive", !.of = u.service, !.listed = TRUE, !.stream = TRUE,
                            !.connect = "pending"]
  <2>1. tun' = w
    BY <1>2, <1>8 DEF StartConnection
  <2>2. u.service \in g /\ "pending" \in Completion
    BY <1>3, <1>8 DEF FindByWeakPtr, Completion
  <2>3. w \in TunState
    BY Zenon, <1>5, <2>2 DEF TunState
  <2>4. /\ w.auth = u.auth /\ w.conn = "alive" /\ w.of = u.service /\ w.connect = "pending" /\ w.read = u.read
        /\ w.write = u.write /\ w.sRead = u.sRead /\ w.sWrite = u.sWrite /\ w.sClose = u.sClose
        /\ w.tcpReadEnded = u.tcpReadEnded /\ w.streamReadEnded = u.streamReadEnded /\ w.granted = u.granted
    BY <1>5 DEF TunState
  <2> HIDE DEF w
  <2>5. TunInv(w)
    BY <1>1, <1>6, <2>2, <2>3, <2>4 DEF TunInv, ToStream, ToSocket, Resting
  <2> QED BY <2>1, <2>5
<1>9. CASE ~(FindByWeakPtr(u, tun.auth) /\ allow)
  BY <1>2, <1>7, <1>9
<1> QED BY <1>8, <1>9

\* Services and requests come and go.
LEMMA ServiceKeeps ==
    ASSUME TunInv(tun), ServiceInit \/ ServiceDestroy \/ StreamArrives
    PROVE  TunInv(tun')
<1>1. tun \in TunState
  BY DEF TunInv
<1>2. CASE ServiceInit
  <2> DEFINE n == tun.counter + 1
             u == tun'
  <2>1. n \in 0..MaxServices
    BY <1>1, <1>2, ServicesAssumption DEF ServiceInit, TunState
  <2>2. u = [tun EXCEPT !.counter = n, !.service = n]
    BY <1>2 DEF ServiceInit
  <2> HIDE DEF n
  <2>3. u \in TunState
    BY Zenon, <1>1, <2>1, <2>2 DEF TunState
  <2>4. /\ u.auth = tun.auth /\ u.conn = tun.conn /\ u.of = tun.of /\ u.connect = tun.connect
        /\ u.read = tun.read /\ u.write = tun.write /\ u.sRead = tun.sRead
        /\ u.sWrite = tun.sWrite /\ u.sClose = tun.sClose /\ u.tcpReadEnded = tun.tcpReadEnded
        /\ u.streamReadEnded = tun.streamReadEnded /\ u.granted = tun.granted
    BY <1>1, <2>2 DEF TunState
  <2> QED BY <2>3, <2>4 DEF TunInv, ToStream, ToSocket, Resting
<1>3. CASE ServiceDestroy
  <2> PICK zero \in 0..MaxServices : zero = 0
    BY ServicesAssumption
  <2> DEFINE s == [tun EXCEPT !.service = zero]
             u == [tun EXCEPT !.service = zero, !.listed = FALSE]
  <2>1. tun' = AbortConnection(u) \/ tun' = s
    BY <1>3 DEF ServiceDestroy
  <2>2. u \in TunState /\ s \in TunState
    BY ZenonT(40), <1>1 DEF TunState
  <2>3. /\ u.auth = tun.auth /\ u.conn = tun.conn /\ u.of = tun.of /\ u.connect = tun.connect
        /\ u.read = tun.read /\ u.write = tun.write /\ u.sRead = tun.sRead
        /\ u.sWrite = tun.sWrite /\ u.sClose = tun.sClose /\ u.tcpReadEnded = tun.tcpReadEnded
        /\ u.streamReadEnded = tun.streamReadEnded /\ u.granted = tun.granted
    BY <1>1 DEF TunState
  <2>4. /\ s.auth = tun.auth /\ s.conn = tun.conn /\ s.of = tun.of /\ s.connect = tun.connect
        /\ s.read = tun.read /\ s.write = tun.write /\ s.sRead = tun.sRead
        /\ s.sWrite = tun.sWrite /\ s.sClose = tun.sClose /\ s.tcpReadEnded = tun.tcpReadEnded
        /\ s.streamReadEnded = tun.streamReadEnded /\ s.granted = tun.granted
    BY <1>1 DEF TunState
  <2> HIDE DEF u, s
  <2>5. TunInv(u)
    BY <2>2, <2>3 DEF TunInv, ToStream, ToSocket, Resting
  <2>6. TunInv(s)
    BY <2>2, <2>4 DEF TunInv, ToStream, ToSocket, Resting
  <2> QED BY <2>1, <2>5, <2>6, AbortKeeps
<1>4. CASE StreamArrives
  <2> DEFINE u == tun'
  <2>1. u = [tun EXCEPT !.auth = tun.service] /\ tun.conn = "none"
    BY <1>4 DEF StreamArrives
  <2>2. u \in TunState
    BY <1>1, <2>1 DEF TunState
  <2>3. /\ u.auth = tun.service /\ u.conn = tun.conn /\ u.of = tun.of /\ u.connect = tun.connect
        /\ u.read = tun.read /\ u.write = tun.write /\ u.sRead = tun.sRead
        /\ u.sWrite = tun.sWrite /\ u.sClose = tun.sClose /\ u.tcpReadEnded = tun.tcpReadEnded
        /\ u.streamReadEnded = tun.streamReadEnded /\ u.granted = tun.granted
    BY <1>1, <2>1 DEF TunState
  <2> QED BY <2>1, <2>2, <2>3 DEF TunInv, ToStream, ToSocket, Resting
<1> QED BY <1>2, <1>3, <1>4

\* The CoAP requests that list and show the services.
LEMMA RequestKeeps ==
    ASSUME TunInv(tun), NEW allow \in BOOLEAN,
           ListServices \/ GetService \/ ListServicesIam(allow) \/ GetServiceIam(allow)
    PROVE  TunInv(tun')
<1> DEFINE u == tun'
<1>1. tun \in TunState
  BY DEF TunInv
<1>2. PICK r \in {"none", "list", "get", "2.05", "4.03", "4.04"} : u = [tun EXCEPT !.request = r]
  BY DEF ListServices, GetService, ListServicesIam, GetServiceIam
<1>3. u \in TunState
  BY <1>1, <1>2 DEF TunState
<1>4. /\ u.auth = tun.auth /\ u.conn = tun.conn /\ u.of = tun.of /\ u.connect = tun.connect
      /\ u.read = tun.read /\ u.write = tun.write /\ u.sRead = tun.sRead
      /\ u.sWrite = tun.sWrite /\ u.sClose = tun.sClose /\ u.tcpReadEnded = tun.tcpReadEnded
      /\ u.streamReadEnded = tun.streamReadEnded /\ u.granted = tun.granted
  BY <1>1, <1>2 DEF TunState
<1> QED BY <1>3, <1>4 DEF TunInv, ToStream, ToSocket, Resting

\* The stream completes what is outstanding, one operation or, when it is destroyed, all.
LEMMA StreamOperationsKeep ==
    ASSUME TunInv(tun), StreamCompletes \/ StreamDestroyed
    PROVE  TunInv(tun')
<1>1. CASE StreamCompletes
  BY <1>1, StreamReadenKeeps, StreamWrittenKeeps, StreamClosedKeeps DEF StreamCompletes
<1>2. CASE StreamDestroyed
  <2> DEFINE r == IF tun.sRead THEN StreamReaden(tun, FALSE) ELSE tun
             w == IF r.sWrite THEN StreamWritten(r, FALSE) ELSE r
  <2>1. tun' = IF w.sClose THEN StreamClosed(w) ELSE w
    BY <1>2 DEF StreamDestroyed
  <2>2. TunInv(r)
    BY Zenon, StreamReadenKeeps
  <2> HIDE DEF r
  <2>3. TunInv(w)
    BY Zenon, <2>2, StreamWrittenKeeps
  <2> HIDE DEF w
  <2> QED BY <2>1, <2>3, StreamClosedKeeps
<1> QED BY <1>1, <1>2

\* No callback of the stream is outstanding when a tunnel connection is freed, and a connection
\* belongs to the service that access was granted to, for any number of services
\* (is_ended, nm_tcp_tunnels_find_service_by_weak_ptr).
THEOREM TunnelAlwaysSafe == TunnelInit /\ [][TunnelNext]_tun => []TunnelSafe
<1> DEFINE Inv == TunInv(tun)
<1>1. TunnelInit => Inv
  <2> SUFFICES ASSUME TunnelInit PROVE TunInv(tun)
    OBVIOUS
  <2> PICK zero \in 0..MaxServices : zero = 0
    BY ServicesAssumption
  <2>1. tun = [service |-> zero, counter |-> zero, auth |-> zero, conn |-> "none", of |-> zero,
           listed |-> FALSE, stream |-> FALSE, connect |-> "none", read |-> "none",
           write |-> "none", length |-> FALSE, sRead |-> FALSE, sWrite |-> FALSE,
           sClose |-> FALSE, tcpReadEnded |-> FALSE, streamReadEnded |-> FALSE,
           aborted |-> FALSE, request |-> "none", granted |-> {}]
    BY DEF TunnelInit
  <2>2. "none" \in Completion
    BY DEF Completion
  <2>3. tun \in TunState
    BY <2>1, <2>2 DEF TunState
  <2>4. /\ tun.auth = zero /\ tun.conn = "none" /\ tun.of = zero /\ tun.connect = "none" /\ tun.read = "none"
        /\ tun.write = "none" /\ tun.sRead = FALSE /\ tun.sWrite = FALSE /\ tun.sClose = FALSE
        /\ tun.tcpReadEnded = FALSE /\ tun.streamReadEnded = FALSE
    BY <2>1
  <2> QED BY <2>3, <2>4 DEF TunInv, ToStream, ToSocket, Resting
<1>2. Inv /\ [TunnelNext]_tun => Inv'
  <2> SUFFICES ASSUME TunInv(tun), [TunnelNext]_tun PROVE TunInv(tun')
    OBVIOUS
  <2>1. CASE UNCHANGED tun
    BY <2>1
  <2> QED BY Zenon, <2>1, ServiceKeeps, StreamIamKeeps, RequestKeeps, CompleteKeeps, ConnectedKeeps, TcpReadenKeeps,
             TcpWrittenKeeps, StreamOperationsKeep DEF TunnelNext
<1>3. Inv => TunnelSafe
  BY DEF TunInv, TunnelSafe, TunnelTypeOK, TunState
<1> HIDE DEF Inv
<1> QED BY <1>1, <1>2, <1>3, PTL

-----------------------------------------------------------------------------
(* CoapServer *)

\* The types of a request and of the server.
ReqState ==
    [of: Peers \cup {NoPeer}, st: {"none", "listed", "user", "ready", "sent", "done"},
     times: 0..MaxTransmits, held: {"nobody", "app", "lost"}]

SrvState ==
    [peer : [Peers -> {"none", "open", "closing"}], req : [Requests -> ReqState], queue : Seq(Requests),
     listener : {"open", "stopped"}, future : BOOLEAN, isSending : BOOLEAN, sendOf : Peers \cup {NoPeer},
     ev : BOOLEAN, timer : BOOLEAN]

\* A request that is not answered has not been sent; one that is to be sent, or to be sent again, has a
\* connection, and a transmission left.
ReqOK(q) ==
    /\ q \in ReqState
    /\ q.st \in {"listed", "user"} => q.times = 0
    /\ q.st = "ready" => q.times < MaxTransmits
    /\ q.st \in {"ready", "sent"} => q.of # NoPeer

\* The queue of the listener holds requests that nobody has taken, each once.
QueueOK(q, req) ==
    /\ \A i \in 1..Len(q) : req[q[i]].st = "listed"
    /\ \A i, j \in 1..Len(q) : q[i] = q[j] => i = j

\* What holds between the steps of a handler, with a listener that may be resolved,
SrvQueued(s) ==
    /\ s \in SrvState
    /\ \A r \in Requests : ReqOK(s.req[r])
    /\ QueueOK(s.queue, s.req)

\* after the listener has been looked at, and
SrvBase(s) == SrvQueued(s) /\ (s.future => s.queue = << >>)

\* between the events: a response that is ready is being sent or has an event that will send it.
SrvInv(s) == SrvBase(s) /\ (In(s, "ready") # {} => s.isSending \/ s.ev)

\* A step with either continuation is the continuation.
LEMMA StepIs ==
    ASSUME NEW s
    PROVE  Step(s, ServerEvent) = ServerEvent(s) /\ Step(s, SendToCallback) = SendToCallback(s)
BY DEF Step

\* Requests may change as long as those in the queue stay as they are.
LEMMA ReqChange ==
    ASSUME NEW s, SrvBase(s), NEW f \in [Requests -> ReqState],
           \A r \in Requests : ReqOK(f[r]),
           \A r \in Requests : s.req[r].st = "listed" => f[r].st = "listed"
    PROVE  /\ SrvBase([s EXCEPT !.req = f])
           /\ [s EXCEPT !.req = f].req = f /\ [s EXCEPT !.req = f].isSending = s.isSending
           /\ [s EXCEPT !.req = f].ev = s.ev /\ [s EXCEPT !.req = f].queue = s.queue
           /\ [s EXCEPT !.req = f].listener = s.listener
<1> DEFINE t == [s EXCEPT !.req = f]
<1>1. s \in SrvState
  BY DEF SrvBase, SrvQueued
<1>2. t \in SrvState
  BY <1>1 DEF SrvState
<1>3. /\ t.req = f /\ t.queue = s.queue /\ t.future = s.future /\ t.isSending = s.isSending /\ t.ev = s.ev
      /\ t.listener = s.listener
  BY <1>1 DEF SrvState
<1>4. \A i \in 1..Len(s.queue) : s.queue[i] \in Requests
  <2>1. s.queue \in Seq(Requests)
    BY <1>1 DEF SrvState
  <2> QED BY <2>1, ElementOfSeq
<1> HIDE DEF t
<1>5. QueueOK(t.queue, t.req)
  BY <1>3, <1>4 DEF SrvBase, SrvQueued, QueueOK
<1>6. SrvBase(t)
  BY <1>2, <1>3, <1>5 DEF SrvBase, SrvQueued
<1> QED BY <1>3, <1>6 DEF t

\* One request changes.
LEMMA OneChange ==
    ASSUME NEW s, SrvBase(s), NEW r \in Requests, NEW q, ReqOK(q), s.req[r].st = "listed" => q.st = "listed"
    PROVE  /\ SrvBase([s EXCEPT !.req[r] = q])
           /\ [s EXCEPT !.req[r] = q].req = [s.req EXCEPT ![r] = q]
           /\ [s EXCEPT !.req[r] = q].isSending = s.isSending
           /\ [s EXCEPT !.req[r] = q].ev = s.ev /\ [s EXCEPT !.req[r] = q].queue = s.queue
           /\ [s EXCEPT !.req[r] = q].listener = s.listener
<1> DEFINE f == [s.req EXCEPT ![r] = q]
<1>1. s \in SrvState /\ s.req \in [Requests -> ReqState] /\ q \in ReqState
  BY DEF SrvBase, SrvQueued, SrvState, ReqOK
<1>2. f \in [Requests -> ReqState] /\ f[r] = q /\ \A o \in Requests : o # r => f[o] = s.req[o]
  BY <1>1
<1>3. [s EXCEPT !.req[r] = q] = [s EXCEPT !.req = f]
  BY <1>1 DEF SrvState
<1> HIDE DEF f
<1>4. /\ \A o \in Requests : ReqOK(f[o])
      /\ \A o \in Requests : s.req[o].st = "listed" => f[o].st = "listed"
  BY <1>2 DEF SrvBase, SrvQueued
<1> DEFINE t == [s EXCEPT !.req = f]
<1>5. /\ SrvBase(t) /\ t.req = f /\ t.isSending = s.isSending /\ t.ev = s.ev /\ t.queue = s.queue
      /\ t.listener = s.listener
  BY ONLY <1>2, <1>4, SrvBase(s), ReqChange
<1>6. [s EXCEPT !.req[r] = q] = t
  BY <1>3
<1> HIDE DEF t
<1> QED BY ONLY <1>5, <1>6 DEF f

\* Only what the wake-up is about changes.
LEMMA FlagChange ==
    ASSUME NEW s, SrvBase(s), NEW b \in BOOLEAN
    PROVE  /\ SrvBase([s EXCEPT !.isSending = b]) /\ SrvBase([s EXCEPT !.ev = b])
           /\ SrvBase([s EXCEPT !.timer = b])
           /\ \A p \in Peers \cup {NoPeer} : SrvBase([s EXCEPT !.sendOf = p])
           /\ \A p \in [Peers -> {"none", "open", "closing"}] : SrvBase([s EXCEPT !.peer = p])
BY Zenon DEF SrvBase, SrvQueued, SrvState

\* The event of the server: with a response ready it sends, or is sending already
\* (nc_coap_server_event, nc_coap_server_handle_send).
LEMMA ServerEventKeeps ==
    ASSUME NEW s, SrvBase(s)
    PROVE  SrvInv(ServerEvent(s))
<1>1. s \in SrvState
  BY DEF SrvBase, SrvQueued
<1>2. CASE In(s, "ready") # {} /\ s.isSending
  BY <1>2 DEF ServerEvent, HandleSend, SrvInv
<1>3. CASE In(s, "ready") # {} /\ ~s.isSending
  <2> DEFINE r == CHOOSE r \in In(s, "ready") : TRUE
             q == [s.req[r] EXCEPT !.st = "sent", !.times = @ + 1]
             p == s.req[r].of
             f == [s.req EXCEPT ![r] = q]
             t == [s EXCEPT !.req = f]
             u == [t EXCEPT !.isSending = TRUE]
  <2>1. r \in Requests /\ s.req[r].st = "ready"
    <3>1. r \in In(s, "ready")
      BY <1>3
    <3> QED BY <3>1 DEF In
  <2>2. ServerEvent(s) = CoapSendData([s EXCEPT !.isSending = TRUE, !.req[r].st = "sent", !.req[r].times = @ + 1],
                                        s.req[r].of)
    BY <1>3 DEF ServerEvent, HandleSend
  <2> HIDE DEF r
  <2>3. ReqOK(s.req[r]) /\ s.req[r] \in ReqState
    BY <2>1 DEF SrvBase, SrvQueued, ReqOK
  <2>4. p \in Peers /\ s.req[r].times + 1 \in 0..MaxTransmits
    BY <2>1, <2>3, TransmitsAssumption DEF ReqOK, ReqState
  <2>5. q \in ReqState /\ q.st = "sent" /\ q.of = p
    BY Zenon, <2>3, <2>4 DEF ReqState
  <2>6. ReqOK(q)
    BY <2>1, <2>3, <2>5 DEF ReqOK
  <2>7. s.req \in [Requests -> ReqState]
    BY <1>1 DEF SrvState
  <2>8. [s EXCEPT !.isSending = TRUE, !.req[r].st = "sent", !.req[r].times = @ + 1] = u
    <3>1. [s EXCEPT !.isSending = TRUE, !.req[r].st = "sent", !.req[r].times = @ + 1]
            = [s EXCEPT !.isSending = TRUE, !.req = f]
      BY ZenonT(40), <1>1, <2>1, <2>7 DEF SrvState, ReqState
    <3> HIDE DEF f
    <3>2. [s EXCEPT !.isSending = TRUE, !.req = f] = u
      BY Zenon, <1>1 DEF SrvState
    <3> QED BY <3>1, <3>2
  <2> HIDE DEF q
  <2>9. f \in [Requests -> ReqState] /\ f[r] = q /\ \A o \in Requests : o # r => f[o] = s.req[o]
    BY <2>1, <2>5, <2>7
  <2> HIDE DEF f
  <2>10. /\ \A o \in Requests : ReqOK(f[o])
         /\ \A o \in Requests : s.req[o].st = "listed" => f[o].st = "listed"
    BY <2>1, <2>6, <2>9 DEF SrvBase, SrvQueued
  <2>11. SrvBase(t)
    BY <2>9, <2>10, ReqChange
  <2>12. SrvBase(u) /\ u.isSending = TRUE
    <3>1. t \in SrvState
      BY <2>11 DEF SrvBase, SrvQueued
    <3> HIDE DEF t
    <3> QED BY Zenon, <2>11, <3>1, FlagChange DEF SrvState
  <2>13. ServerEvent(s) = u \/ ServerEvent(s) = [u EXCEPT !.sendOf = p]
    BY Zenon, <2>2, <2>8 DEF CoapSendData
  <2> HIDE DEF u, t, p
  <2>14. SrvBase([u EXCEPT !.sendOf = p]) /\ [u EXCEPT !.sendOf = p].isSending = TRUE
    <3>1. u \in SrvState
      BY <2>12 DEF SrvBase, SrvQueued
    <3> QED BY Zenon, <2>4, <2>12, <3>1, FlagChange DEF SrvState
  <2> QED BY Zenon, <2>12, <2>13, <2>14 DEF SrvInv
<1>4. CASE In(s, "ready") = {}
  <2> DEFINE u == [s EXCEPT !.timer = TRUE]
  <2>1. ServerEvent(s) = s \/ ServerEvent(s) = u
    BY <1>4 DEF ServerEvent, HandleWaitTimer
  <2>2. SrvBase(u) /\ u.req = s.req
    BY Zenon, <1>1, FlagChange DEF SrvState
  <2>3. In(u, "ready") = {}
    BY <1>4, <2>2 DEF In
  <2> HIDE DEF u
  <2> QED BY <1>4, <2>1, <2>2, <2>3 DEF SrvInv
<1> QED BY <1>2, <1>3, <1>4

\* The library forgets requests that are done.
LEMMA ReapedKeeps ==
    ASSUME NEW s, SrvBase(s)
    PROVE  /\ SrvBase(Reaped(s))
           /\ In(Reaped(s), "ready") = In(s, "ready") /\ Reaped(s).isSending = s.isSending /\ Reaped(s).ev = s.ev
<1> DEFINE f == [r \in Requests |->
                   IF s.req[r].st = "done" /\ s.req[r].held = "nobody" THEN FreeRequest ELSE s.req[r]]
<1>1. FreeRequest \in ReqState /\ FreeRequest.st = "none" /\ ReqOK(FreeRequest)
  BY TransmitsAssumption DEF FreeRequest, ReqState, ReqOK
<1>2. s \in SrvState /\ s.req \in [Requests -> ReqState]
  BY DEF SrvBase, SrvQueued, SrvState
<1>3. f \in [Requests -> ReqState]
  BY <1>1, <1>2
<1>4. /\ \A r \in Requests : ReqOK(f[r])
      /\ \A r \in Requests : s.req[r].st = "listed" => f[r].st = "listed"
      /\ \A r \in Requests : s.req[r].st = "ready" <=> f[r].st = "ready"
  BY <1>1 DEF SrvBase, SrvQueued
<1>5. Reaped(s) = [s EXCEPT !.req = f]
  BY DEF Reaped
<1> HIDE DEF f
<1> DEFINE t == [s EXCEPT !.req = f]
<1>6. SrvBase(t) /\ t.req = f /\ t.isSending = s.isSending /\ t.ev = s.ev
  BY <1>3, <1>4, ReqChange
<1> HIDE DEF t
<1>7. In(t, "ready") = In(s, "ready")
  BY <1>4, <1>6 DEF In
<1> QED BY <1>5, <1>6, <1>7 DEF t

\* An answer is ready, and the event is posted, or there is nobody to send it to.
LEMMA RespondKeeps ==
    ASSUME NEW s, SrvBase(s), NEW r \in Requests,
           s.req[r].st \in {"listed", "user"}, \A i \in 1..Len(s.queue) : s.queue[i] # r
    PROVE  /\ SrvBase(Respond(s, r))
           /\ (In(s, "ready") # {} => s.isSending \/ s.ev) => SrvInv(Respond(s, r))
<1> DEFINE st == IF s.req[r].of = NoPeer THEN "done" ELSE "ready"
           q == [s.req[r] EXCEPT !.st = st]
           f == [s.req EXCEPT ![r] = q]
           t == [s EXCEPT !.req = f]
           u == [t EXCEPT !.ev = TRUE]
<1>1. s \in SrvState /\ s.req \in [Requests -> ReqState] /\ s.req[r] \in ReqState /\ ReqOK(s.req[r])
  BY DEF SrvBase, SrvQueued, SrvState
<1>2. Respond(s, r) = IF s.req[r].of = NoPeer THEN t ELSE u
  BY Zenon, <1>1 DEF Respond, Notify, SrvState
<1>3. st \in {"done", "ready"} /\ (st = "ready" => s.req[r].of # NoPeer) /\ (s.req[r].of = NoPeer => st = "done")
  OBVIOUS
<1> HIDE DEF st
<1>4. q \in ReqState /\ q.st = st /\ q.of = s.req[r].of /\ q.times = s.req[r].times
  BY <1>1, <1>3 DEF ReqState
<1>5. ReqOK(q)
  <2>1. s.req[r].times = 0
    BY <1>1 DEF ReqOK
  <2> QED BY <1>3, <1>4, <2>1, TransmitsAssumption DEF ReqOK
<1> HIDE DEF q
<1>6. f \in [Requests -> ReqState] /\ f[r] = q /\ \A o \in Requests : o # r => f[o] = s.req[o]
  BY <1>1, <1>4
<1> HIDE DEF f
<1>7. t \in SrvState
  BY Zenon, <1>1, <1>6 DEF SrvState
<1>8. /\ t.req = f /\ t.queue = s.queue /\ t.future = s.future /\ t.isSending = s.isSending /\ t.ev = s.ev
  BY <1>1 DEF SrvState
<1> HIDE DEF t
<1>9. \A i \in 1..Len(s.queue) : s.queue[i] \in Requests
  <2>1. s.queue \in Seq(Requests)
    BY <1>1 DEF SrvState
  <2> QED BY <2>1, ElementOfSeq
<1>10. SrvBase(t)
  <2>1. \A o \in Requests : ReqOK(f[o])
    BY <1>5, <1>6 DEF SrvBase, SrvQueued
  <2>2. QueueOK(s.queue, f)
    BY <1>6, <1>9 DEF SrvBase, SrvQueued, QueueOK
  <2> QED BY <1>7, <1>8, <2>1, <2>2 DEF SrvBase, SrvQueued
<1>11. SrvBase(u) /\ u.ev = TRUE
  BY Zenon, <1>7, <1>10, FlagChange DEF SrvState
<1>12. s.req[r].of = NoPeer /\ (In(s, "ready") # {} => s.isSending \/ s.ev) => SrvInv(t)
  <2> SUFFICES ASSUME s.req[r].of = NoPeer, In(s, "ready") # {} => s.isSending \/ s.ev
               PROVE  In(t, "ready") # {} => t.isSending \/ t.ev
    BY <1>10 DEF SrvInv
  <2>1. In(t, "ready") \subseteq In(s, "ready")
    BY <1>3, <1>4, <1>6, <1>8 DEF In
  <2> QED BY <1>8, <2>1
<1> HIDE DEF u
<1> QED BY <1>2, <1>10, <1>11, <1>12 DEF SrvInv

\* A waiting future gets the first request of the queue (nabto_device_coap_listener_callback).
LEMMA ListenerCallbackKeeps ==
    ASSUME NEW s, SrvQueued(s)
    PROVE  /\ SrvBase(ListenerCallback(s))
           /\ (In(s, "ready") # {} => s.isSending \/ s.ev) => SrvInv(ListenerCallback(s))
<1>1. s \in SrvState /\ s.req \in [Requests -> ReqState] /\ s.queue \in Seq(Requests)
  BY DEF SrvQueued, SrvState
<1>2. CASE ~s.future \/ s.queue = << >>
  BY <1>2 DEF ListenerCallback, SrvBase, SrvInv
<1>3. CASE ~(~s.future \/ s.queue = << >>)
  <2> DEFINE r == Head(s.queue)
             tail == Tail(s.queue)
             q == [s.req[r] EXCEPT !.st = "user"]
             f == [s.req EXCEPT ![r] = q]
             t == [s EXCEPT !.future = FALSE, !.queue = tail, !.req = f]
  <2>1. ListenerCallback(s) = [s EXCEPT !.future = FALSE, !.queue = Tail(@), !.req[Head(s.queue)].st = "user"]
    BY <1>3 DEF ListenerCallback
  <2>2. ListenerCallback(s) = t
    BY <1>1, <2>1 DEF SrvState
  <2>3. /\ r = s.queue[1] /\ 1 \in 1..Len(s.queue) /\ r \in Requests /\ tail \in Seq(Requests)
        /\ \A i \in 1..Len(tail) : tail[i] = s.queue[i + 1] /\ i + 1 \in 1..Len(s.queue) /\ i + 1 # 1
    BY <1>1, <1>3
  <2> HIDE DEF r, tail
  <2>4. s.req[r].st = "listed" /\ \A i \in 1..Len(tail) : tail[i] # r /\ s.req[tail[i]].st = "listed" /\ tail[i] \in Requests
    BY <2>3, <1>1, ElementOfSeq DEF SrvQueued, QueueOK
  <2>5. \A i, j \in 1..Len(tail) : tail[i] = tail[j] => i = j
    <3> SUFFICES ASSUME NEW i \in 1..Len(tail), NEW j \in 1..Len(tail), tail[i] = tail[j] PROVE i = j
      OBVIOUS
    <3>1. i + 1 = j + 1
      BY Zenon, <2>3 DEF SrvQueued, QueueOK
    <3>2. i \in Int /\ j \in Int
      OBVIOUS
    <3> QED BY ONLY <3>1, <3>2
  <2>6. ReqOK(s.req[r]) /\ s.req[r] \in ReqState
    BY <2>3 DEF SrvQueued, ReqOK
  <2>7. q \in ReqState /\ q.st = "user" /\ q.times = s.req[r].times
    BY <2>6 DEF ReqState
  <2>8. ReqOK(q)
    BY <2>4, <2>6, <2>7 DEF ReqOK
  <2> HIDE DEF q
  <2>9. f \in [Requests -> ReqState] /\ f[r] = q /\ \A o \in Requests : o # r => f[o] = s.req[o]
    BY <1>1, <2>3, <2>7
  <2> HIDE DEF f
  <2>10. t \in SrvState
    BY Zenon, <1>1, <2>3, <2>9 DEF SrvState
  <2>11. t.future = FALSE /\ t.queue = tail /\ t.req = f /\ t.isSending = s.isSending /\ t.ev = s.ev
    BY <1>1 DEF SrvState
  <2> HIDE DEF t
  <2>12. SrvBase(t)
    <3>1. \A o \in Requests : ReqOK(f[o])
      BY <2>8, <2>9 DEF SrvQueued
    <3>2. QueueOK(tail, f)
      BY <2>4, <2>5, <2>9 DEF QueueOK
    <3> QED BY <2>10, <2>11, <3>1, <3>2 DEF SrvBase, SrvQueued
  <2>13. In(t, "ready") \subseteq In(s, "ready")
    BY <2>7, <2>9, <2>11 DEF In
  <2> QED BY <2>2, <2>11, <2>12, <2>13 DEF SrvInv
<1> QED BY <1>2, <1>3

\* A new request goes to the listener, or is answered (nabto_device_coap_resource_handler).
LEMMA RequestArrivesKeeps ==
    ASSUME SrvInv(srv), NEW p \in Peers, RequestArrives(p)
    PROVE  SrvInv(srv')
<1> DEFINE r == CHOOSE r \in In(srv, "none") : TRUE
           q == [of |-> p, st |-> "listed", times |-> 0, held |-> "app"]
           s == [srv EXCEPT !.req[r] = q]
<1>1. srv' = ServerEvent(ResourceHandler(s, r)) /\ r \in In(srv, "none")
  BY DEF RequestArrives
<1> HIDE DEF r
<1>2. r \in Requests /\ srv.req[r].st = "none" /\ SrvBase(srv)
  BY <1>1 DEF In, SrvInv
<1>3. ReqOK(q) /\ q.st = "listed"
  BY TransmitsAssumption DEF ReqOK, ReqState
<1> HIDE DEF q
<1>4. SrvBase(s) /\ s.req = [srv.req EXCEPT ![r] = q] /\ s.queue = srv.queue
  BY <1>2, <1>3, OneChange
<1> HIDE DEF s
<1>5. s.req[r].st = "listed"
  BY <1>2, <1>3, <1>4 DEF SrvBase, SrvQueued, SrvState
<1>6. \A i \in 1..Len(s.queue) : s.queue[i] # r
  BY <1>2, <1>4 DEF SrvBase, SrvQueued, QueueOK
<1>7. CASE s.listener = "open"
  <2> DEFINE n == Append(s.queue, r)
             t == [s EXCEPT !.queue = n]
  <2>1. s \in SrvState /\ s.queue \in Seq(Requests)
    BY <1>4 DEF SrvBase, SrvQueued, SrvState
  <2>2. /\ n \in Seq(Requests) /\ Len(n) = Len(s.queue) + 1 /\ Len(s.queue) \in Nat
        /\ \A i \in 1..Len(n) : (i \in 1..Len(s.queue) /\ n[i] = s.queue[i]) \/ (i = Len(n) /\ n[i] = r)
    BY <1>2, <2>1
  <2> HIDE DEF n
  <2>3. t \in SrvState
    BY <2>1, <2>2 DEF SrvState
  <2>4. t.queue = n /\ t.req = s.req
    BY <2>1 DEF SrvState
  <2>5. ResourceHandler(s, r) = ListenerCallback(t)
    BY <1>7 DEF ResourceHandler, n
  <2> HIDE DEF t
  <2>6. QueueOK(n, s.req)
    BY <1>4, <1>5, <1>6, <2>2 DEF QueueOK, SrvBase, SrvQueued
  <2>7. SrvQueued(t)
    BY <1>4, <2>3, <2>4, <2>6 DEF SrvBase, SrvQueued
  <2> QED BY <1>1, <2>5, <2>7, ListenerCallbackKeeps, ServerEventKeeps
<1>8. CASE s.listener # "open"
  <2> DEFINE h == [s.req[r] EXCEPT !.held = "nobody"]
             t == [s EXCEPT !.req[r] = h]
  <2>1. s \in SrvState /\ s.req[r] \in ReqState /\ ReqOK(s.req[r])
    BY <1>2, <1>4 DEF SrvBase, SrvQueued, SrvState
  <2>2. ResourceHandler(s, r) = Respond(t, r)
    BY <1>8 DEF ResourceHandler
  <2>3. h \in ReqState /\ h.st = s.req[r].st /\ h.times = s.req[r].times /\ h.of = s.req[r].of
    BY <2>1 DEF ReqState
  <2>4. ReqOK(h)
    BY <2>1, <2>3 DEF ReqOK
  <2> HIDE DEF h
  <2>5. SrvBase(t) /\ t.req = [s.req EXCEPT ![r] = h] /\ t.queue = s.queue
    <3>1. SrvBase(s) /\ r \in Requests /\ (s.req[r].st = "listed" => h.st = "listed")
      BY <1>2, <1>4, <2>3
    <3> QED BY ONLY <3>1, <2>4, OneChange
  <2> HIDE DEF t
  <2>6. t.req[r].st = "listed"
    BY <1>2, <1>5, <2>1, <2>3, <2>5 DEF SrvState
  <2> QED BY ZenonT(40), <1>1, <1>2, <1>6, <2>2, <2>5, <2>6, RespondKeeps, ServerEventKeeps
<1> QED BY <1>7, <1>8

\* The last transmission of a response is acknowledged.
LEMMA AckArrivesKeeps ==
    ASSUME SrvInv(srv), NEW p \in Peers, AckArrives(p)
    PROVE  SrvInv(srv')
<1>1. PICK r \in In(srv, "sent") : srv' = ServerEvent(Reaped([srv EXCEPT !.req[r].st = "done"]))
  BY Zenon, StepIs DEF AckArrives
<1> DEFINE q == [srv.req[r] EXCEPT !.st = "done"]
           t == [srv EXCEPT !.req[r] = q]
<1>2. r \in Requests /\ srv.req[r].st = "sent" /\ SrvBase(srv) /\ ReqOK(srv.req[r]) /\ srv.req[r] \in ReqState
  BY DEF In, SrvInv, SrvBase, SrvQueued, ReqOK
<1>3. srv' = ServerEvent(Reaped(t))
  BY <1>1
<1>4. q \in ReqState /\ q.st = "done"
  BY <1>2 DEF ReqState
<1>5. ReqOK(q)
  BY <1>4 DEF ReqOK
<1> HIDE DEF q
<1>6. SrvBase(t)
  BY ONLY <1>2, <1>5, OneChange
<1> HIDE DEF t
<1> QED BY <1>3, <1>6, ReapedKeeps, ServerEventKeeps

\* The application asks for a request, answers one or frees it.
LEMMA NewCoapRequestKeeps ==
    ASSUME SrvInv(srv), NewCoapRequest
    PROVE  SrvInv(srv')
<1> DEFINE t == [srv EXCEPT !.future = TRUE]
<1>1. srv \in SrvState /\ srv' = ListenerCallback(t)
  BY DEF NewCoapRequest, SrvInv, SrvBase, SrvQueued
<1>2. t \in SrvState
  BY Zenon, <1>1 DEF SrvState
<1>3. t.req = srv.req /\ t.queue = srv.queue /\ t.isSending = srv.isSending /\ t.ev = srv.ev
  BY <1>1 DEF SrvState
<1> HIDE DEF t
<1>4. SrvQueued(t)
  BY <1>2, <1>3 DEF SrvInv, SrvBase, SrvQueued
<1>5. In(t, "ready") # {} => t.isSending \/ t.ev
  BY <1>3 DEF SrvInv, In
<1> QED BY <1>1, <1>4, <1>5, ListenerCallbackKeeps

\* A request that somebody has taken is not in the queue.
LEMMA NotQueued ==
    ASSUME NEW s, SrvBase(s), NEW r \in Requests, s.req[r].st # "listed"
    PROVE  \A i \in 1..Len(s.queue) : s.queue[i] # r
BY DEF SrvBase, SrvQueued, QueueOK

\* The application answers a request.
LEMMA ResponseReadyKeeps ==
    ASSUME SrvInv(srv), NEW r \in Requests, ResponseReady(r)
    PROVE  SrvInv(srv')
<1>1. srv.req[r].st = "user" /\ srv' = Respond(srv, r) /\ SrvBase(srv)
  BY DEF ResponseReady, SrvInv
<1>2. \A i \in 1..Len(srv.queue) : srv.queue[i] # r
  BY <1>1, NotQueued
<1> QED BY <1>1, <1>2, RespondKeeps DEF SrvInv

\* The application frees a request, answered or not.
LEMMA RequestFreeKeeps ==
    ASSUME SrvInv(srv), NEW r \in Requests, RequestFree(r)
    PROVE  SrvInv(srv')
<1> DEFINE q == [srv.req[r] EXCEPT !.held = "nobody"]
           t == [srv EXCEPT !.req[r] = q]
           u == IF srv.req[r].st = "user" THEN Respond(t, r) ELSE t
<1>1. srv' = Reaped(u) /\ SrvBase(srv) /\ ReqOK(srv.req[r]) /\ srv.req[r] \in ReqState
  BY DEF RequestFree, SrvInv, SrvBase, SrvQueued, ReqOK
<1>2. q \in ReqState /\ q.st = srv.req[r].st /\ q.times = srv.req[r].times /\ q.of = srv.req[r].of
  BY <1>1 DEF ReqState
<1>3. ReqOK(q)
  BY <1>1, <1>2 DEF ReqOK
<1> HIDE DEF q
<1>4. /\ SrvBase(t) /\ t.req = [srv.req EXCEPT ![r] = q] /\ t.queue = srv.queue
      /\ t.isSending = srv.isSending /\ t.ev = srv.ev
  <2>1. srv.req[r].st = "listed" => q.st = "listed"
    BY <1>2
  <2> QED BY ONLY <1>1, <1>3, <2>1, r \in Requests, OneChange
<1> HIDE DEF t
<1>5. srv.req \in [Requests -> ReqState]
  BY <1>1 DEF SrvBase, SrvQueued, SrvState
<1>6. t.req[r].st = srv.req[r].st /\ \A o \in Requests : t.req[o].st = srv.req[o].st
  BY <1>2, <1>4, <1>5
<1>7. In(t, "ready") # {} => t.isSending \/ t.ev
  BY <1>4, <1>6 DEF SrvInv, In
<1>8. SrvInv(u)
  <2>1. CASE srv.req[r].st = "user"
    <3>1. \A i \in 1..Len(t.queue) : t.queue[i] # r
      BY ZenonT(40), <1>4, <1>6, <2>1, NotQueued
    <3> QED BY Zenon, <1>4, <1>6, <1>7, <2>1, <3>1, RespondKeeps
  <2>2. CASE srv.req[r].st # "user"
    BY <1>4, <1>7, <2>2 DEF SrvInv
  <2> QED BY <2>1, <2>2
<1> HIDE DEF u
<1> QED BY <1>1, <1>8, ReapedKeeps DEF SrvInv

\* The listener is stopped: what is queued is answered.
LEMMA StopCoapListenerKeeps ==
    ASSUME SrvInv(srv), StopCoapListener
    PROVE  SrvInv(srv')
<1> DEFINE queued == {srv.queue[i] : i \in 1..Len(srv.queue)}
           s == [srv EXCEPT !.listener = "stopped", !.future = FALSE, !.queue = << >>]
           live == {r \in queued : srv.req[r].of # NoPeer}
           f == [r \in Requests |->
                   CASE r \in live -> [srv.req[r] EXCEPT !.st = "ready", !.held = "lost"]
                     [] r \in queued \ live -> [srv.req[r] EXCEPT !.st = "done", !.held = "lost"]
                     [] OTHER -> srv.req[r]]
           ev == srv.ev \/ live # {}
           t == [srv EXCEPT !.listener = "stopped", !.future = FALSE, !.queue = << >>, !.ev = ev, !.req = f]
<1>1. /\ srv \in SrvState /\ srv.req \in [Requests -> ReqState] /\ srv.queue \in Seq(Requests)
      /\ srv.ev \in BOOLEAN
  BY DEF SrvInv, SrvBase, SrvQueued, SrvState
<1>2. s.req = srv.req /\ s.ev = srv.ev
  BY <1>1 DEF SrvState
<1>3. srv' = t
  <2>1. srv' = [s EXCEPT !.ev = @ \/ live # {}, !.req = [r \in Requests |->
                   CASE r \in live -> [s.req[r] EXCEPT !.st = "ready", !.held = "lost"]
                     [] r \in queued \ live -> [s.req[r] EXCEPT !.st = "done", !.held = "lost"]
                     [] OTHER -> s.req[r]]]
    BY DEF StopCoapListener
  <2> HIDE DEF live, queued
  <2>2. [r \in Requests |->
                   CASE r \in live -> [s.req[r] EXCEPT !.st = "ready", !.held = "lost"]
                     [] r \in queued \ live -> [s.req[r] EXCEPT !.st = "done", !.held = "lost"]
                     [] OTHER -> s.req[r]] = f
    BY <1>2
  <2>3. (s.ev \/ live # {}) = ev
    BY <1>2
  <2>4. srv' = [s EXCEPT !.ev = ev, !.req = f]
    BY <2>1, <2>2, <2>3
  <2> HIDE DEF f, ev
  <2> QED BY <2>4
<1>4. \A r \in Requests : r \in queued => srv.req[r].st = "listed" /\ srv.req[r].times = 0
  <2>1. \A i \in 1..Len(srv.queue) : srv.req[srv.queue[i]].st = "listed"
    BY DEF SrvInv, SrvBase, SrvQueued, QueueOK
  <2> QED BY <2>1 DEF SrvInv, SrvBase, SrvQueued, ReqOK
<1>5. \A r \in Requests : r \in live => r \in queued /\ srv.req[r].of # NoPeer
  OBVIOUS
<1> HIDE DEF live, queued
<1>6. \A r \in Requests : f[r] \in ReqState /\ ReqOK(f[r])
                          /\ (f[r].st = "ready" => srv.req[r].st = "ready" \/ r \in live)
  <2> SUFFICES ASSUME NEW r \in Requests
               PROVE  f[r] \in ReqState /\ ReqOK(f[r]) /\ (f[r].st = "ready" => srv.req[r].st = "ready" \/ r \in live)
    BY Zenon
  <2>1. srv.req[r] \in ReqState /\ ReqOK(srv.req[r])
    BY <1>1 DEF SrvInv, SrvBase, SrvQueued
  <2>2. CASE r \in live
    <3>1. f[r] = [srv.req[r] EXCEPT !.st = "ready", !.held = "lost"]
      BY <2>2
    <3>2. f[r] \in ReqState /\ f[r].st = "ready" /\ f[r].times = srv.req[r].times /\ f[r].of = srv.req[r].of
      BY Zenon, <2>1, <3>1 DEF ReqState
    <3> QED BY <1>4, <1>5, <2>2, <3>2, TransmitsAssumption DEF ReqOK
  <2>3. CASE r \in queued \ live
    <3>1. f[r] = [srv.req[r] EXCEPT !.st = "done", !.held = "lost"]
      BY <2>3
    <3>2. f[r] \in ReqState /\ f[r].st = "done"
      BY Zenon, <2>1, <3>1 DEF ReqState
    <3> QED BY <3>2 DEF ReqOK
  <2>4. CASE ~(r \in live) /\ ~(r \in queued \ live)
    <3>1. f[r] = srv.req[r]
      BY <2>4
    <3> QED BY <2>1, <3>1
  <2> QED BY <2>2, <2>3, <2>4
<1>7. f \in [Requests -> ReqState]
  BY Zenon, <1>6
<1>8. ev \in BOOLEAN /\ (live # {} => ev) /\ (srv.ev => ev)
  BY <1>1
<1> HIDE DEF f, ev
<1>9. << >> \in Seq(Requests) /\ Len(<< >>) = 0
  OBVIOUS
<1>10. t \in SrvState
  BY Zenon, <1>1, <1>7, <1>8, <1>9 DEF SrvState
<1>11. t.req = f /\ t.ev = ev /\ t.queue = << >> /\ t.future = FALSE /\ t.isSending = srv.isSending
  BY <1>1 DEF SrvState
<1> HIDE DEF t
<1>12. SrvBase(t)
  BY <1>6, <1>9, <1>10, <1>11 DEF SrvBase, SrvQueued, QueueOK
<1>13. In(t, "ready") # {} => t.isSending \/ t.ev
  <2> SUFFICES ASSUME NEW r \in Requests, f[r].st = "ready" PROVE t.isSending \/ t.ev
    BY <1>11 DEF In
  <2>1. CASE srv.req[r].st = "ready"
    BY <1>8, <1>11, <2>1 DEF SrvInv, In
  <2>2. CASE r \in live
    BY <1>8, <1>11, <2>2
  <2> QED BY <1>6, <2>1, <2>2
<1> QED BY <1>3, <1>12, <1>13 DEF SrvInv

\* A datagram is written, the event runs.
LEMMA SendToCallbackKeeps ==
    ASSUME NEW s, SrvBase(s)
    PROVE  SrvInv(SendToCallback(s))
<1> DEFINE t == [s EXCEPT !.isSending = FALSE]
           u == [t EXCEPT !.sendOf = NoPeer]
<1>1. SendToCallback(s) = ServerEvent(u)
  BY DEF SendToCallback
<1>2. SrvBase(t)
  BY Zenon, FlagChange
<1> HIDE DEF t
<1>3. SrvBase(u)
  BY Zenon, <1>2, FlagChange
<1> HIDE DEF u
<1> QED BY <1>1, <1>3, ServerEventKeeps

\* The events of the server: a datagram is sent, and the event of its event queue.
LEMMA EventsKeep ==
    ASSUME SrvInv(srv), DatagramSent \/ NotifyEventCallback
    PROVE  SrvInv(srv')
<1>1. CASE DatagramSent
  <2>1. srv' = SendToCallback(srv)
    BY Zenon, <1>1, StepIs DEF DatagramSent
  <2> QED BY <2>1, SendToCallbackKeeps DEF SrvInv
<1>2. CASE NotifyEventCallback
  <2>1. srv' = ServerEvent([srv EXCEPT !.ev = FALSE])
    BY Zenon, <1>2, StepIs DEF NotifyEventCallback
  <2>2. SrvBase([srv EXCEPT !.ev = FALSE])
    BY Zenon, FlagChange DEF SrvInv
  <2> QED BY <2>1, <2>2, ServerEventKeeps
<1> QED BY <1>1, <1>2

\* What was not acknowledged is sent again while it has transmissions left.
LEMMA TimeoutKeeps ==
    ASSUME SrvInv(srv), CoapServerTimeout
    PROVE  SrvInv(srv')
<1> DEFINE f == [r \in Requests |->
                    IF srv.req[r].st # "sent" THEN srv.req[r]
                    ELSE [srv.req[r] EXCEPT !.st =
                            IF srv.req[r].times < MaxTransmits THEN "ready" ELSE "done"]]
           u == [srv EXCEPT !.timer = FALSE]
           t == [u EXCEPT !.req = f]
<1>1. srv' = ServerEvent(Reaped([srv EXCEPT !.timer = FALSE, !.req = f]))
  BY Zenon, StepIs DEF CoapServerTimeout
<1>2. SrvBase(srv) /\ srv \in SrvState /\ srv.req \in [Requests -> ReqState]
  BY DEF SrvInv, SrvBase, SrvQueued, SrvState
<1>3. \A r \in Requests : f[r] \in ReqState /\ ReqOK(f[r]) /\ (srv.req[r].st = "listed" => f[r].st = "listed")
  <2> SUFFICES ASSUME NEW r \in Requests
               PROVE  f[r] \in ReqState /\ ReqOK(f[r]) /\ (srv.req[r].st = "listed" => f[r].st = "listed")
    OBVIOUS
  <2>1. srv.req[r] \in ReqState /\ ReqOK(srv.req[r])
    BY <1>2 DEF SrvBase, SrvQueued
  <2>2. CASE srv.req[r].st # "sent"
    BY <2>1, <2>2
  <2>3. CASE srv.req[r].st = "sent"
    <3> DEFINE st == IF srv.req[r].times < MaxTransmits THEN "ready" ELSE "done"
               q == [srv.req[r] EXCEPT !.st = st]
    <3>1. f[r] = q
      BY <2>3
    <3>2. st \in {"ready", "done"} /\ (st = "ready" => srv.req[r].times < MaxTransmits)
      OBVIOUS
    <3> HIDE DEF st
    <3>3. q \in ReqState /\ q.st = st /\ q.times = srv.req[r].times /\ q.of = srv.req[r].of
      BY <2>1, <3>2 DEF ReqState
    <3>4. ReqOK(q)
      BY <2>1, <2>3, <3>2, <3>3 DEF ReqOK
    <3> HIDE DEF q
    <3> QED BY <2>3, <3>1, <3>3, <3>4
  <2> QED BY <2>2, <2>3
<1>4. f \in [Requests -> ReqState]
  BY <1>3
<1> HIDE DEF f
<1>5. SrvBase(u) /\ u.req = srv.req
  BY Zenon, <1>2, FlagChange DEF SrvState
<1> HIDE DEF u
<1>6. SrvBase(t)
  <2>1. \A r \in Requests : ReqOK(f[r])
    BY <1>3
  <2>2. \A r \in Requests : u.req[r].st = "listed" => f[r].st = "listed"
    BY <1>3, <1>5
  <2> QED BY ONLY <1>4, <1>5, <2>1, <2>2, ReqChange
<1>7. [srv EXCEPT !.timer = FALSE, !.req = f] = t
  BY DEF u
<1> HIDE DEF t
<1> QED BY <1>1, <1>6, <1>7, ReapedKeeps, ServerEventKeeps

\* Connections come and go.
LEMMA PeerKeeps ==
    ASSUME SrvInv(srv), NEW p \in Peers, PeerOpens(p) \/ PeerCloses(p)
    PROVE  SrvInv(srv')
<1>1. srv \in SrvState /\ SrvBase(srv) /\ srv.peer \in [Peers -> {"none", "open", "closing"}]
  BY DEF SrvInv, SrvBase, SrvQueued, SrvState
<1>2. PICK x \in {"open", "closing"} : srv' = [srv EXCEPT !.peer[p] = x]
  BY DEF PeerOpens, PeerCloses
<1> DEFINE f == [srv.peer EXCEPT ![p] = x]
<1>3. srv' = [srv EXCEPT !.peer = f] /\ f \in [Peers -> {"none", "open", "closing"}]
  BY <1>1, <1>2
<1> HIDE DEF f
<1>4. srv'.req = srv.req /\ srv'.isSending = srv.isSending /\ srv'.ev = srv.ev
  BY <1>1, <1>3 DEF SrvState
<1>5. SrvBase(srv')
  BY Zenon, <1>1, <1>3, FlagChange
<1> QED BY <1>4, <1>5 DEF SrvInv, In

\* A connection goes, and the requests lose it.
LEMMA PeerDestroyedKeeps ==
    ASSUME SrvInv(srv), NEW p \in Peers, PeerDestroyed(p)
    PROVE  SrvInv(srv')
<1> DEFINE f == [r \in Requests |->
                    IF srv.req[r].of # p THEN srv.req[r]
                    ELSE [srv.req[r] EXCEPT !.of = NoPeer,
                            !.st = IF srv.req[r].st \in {"ready", "sent"} THEN "done" ELSE srv.req[r].st]]
           g == [srv.peer EXCEPT ![p] = "none"]
           u == [srv EXCEPT !.peer = g]
           t == [u EXCEPT !.req = f]
<1>1. SrvBase(srv) /\ srv \in SrvState /\ srv.req \in [Requests -> ReqState] /\ srv.peer \in [Peers -> {"none", "open", "closing"}]
  BY DEF SrvInv, SrvBase, SrvQueued, SrvState
<1>2. srv' = IF srv.sendOf = p THEN SendToCallback(Reaped(t)) ELSE Reaped(t)
  BY Zenon, StepIs DEF PeerDestroyed
<1>3. \A r \in Requests : f[r] \in ReqState /\ ReqOK(f[r]) /\ (srv.req[r].st = "listed" => f[r].st = "listed")
                          /\ (f[r].st = "ready" => srv.req[r].st = "ready")
  <2> SUFFICES ASSUME NEW r \in Requests
               PROVE  f[r] \in ReqState /\ ReqOK(f[r]) /\ (srv.req[r].st = "listed" => f[r].st = "listed")
                      /\ (f[r].st = "ready" => srv.req[r].st = "ready")
    BY Zenon
  <2>1. srv.req[r] \in ReqState /\ ReqOK(srv.req[r])
    BY <1>1 DEF SrvBase, SrvQueued
  <2>2. CASE srv.req[r].of # p
    BY <2>1, <2>2
  <2>3. CASE srv.req[r].of = p
    <3> DEFINE st == IF srv.req[r].st \in {"ready", "sent"} THEN "done" ELSE srv.req[r].st
               q == [srv.req[r] EXCEPT !.of = NoPeer, !.st = st]
    <3>1. f[r] = q
      BY <2>3
    <3>2. /\ st \in {"none", "listed", "user", "done"} /\ (srv.req[r].st = "listed" => st = "listed")
          /\ (st \in {"listed", "user"} => srv.req[r].st = st)
      BY <2>1 DEF ReqState
    <3> HIDE DEF st
    <3>3. q \in ReqState /\ q.st = st /\ q.times = srv.req[r].times
      BY Zenon, <2>1, <3>2 DEF ReqState
    <3>4. ReqOK(q)
      BY <2>1, <3>2, <3>3 DEF ReqOK
    <3> HIDE DEF q
    <3> QED BY <3>1, <3>2, <3>3, <3>4
  <2> QED BY <2>2, <2>3
<1>4. f \in [Requests -> ReqState] /\ g \in [Peers -> {"none", "open", "closing"}]
  BY Zenon, <1>1, <1>3
<1> HIDE DEF f, g
<1>5. SrvBase(u) /\ u.req = srv.req /\ u.isSending = srv.isSending /\ u.ev = srv.ev
  BY Zenon, <1>1, <1>4, FlagChange DEF SrvState
<1> HIDE DEF u
<1>6. SrvBase(t) /\ t.req = f /\ t.isSending = u.isSending /\ t.ev = u.ev
  <2>1. \A r \in Requests : ReqOK(f[r])
    BY <1>3
  <2>2. \A r \in Requests : u.req[r].st = "listed" => f[r].st = "listed"
    BY <1>3, <1>5
  <2> QED BY ONLY <1>4, <1>5, <2>1, <2>2, ReqChange
<1> HIDE DEF t
<1>7. In(t, "ready") \subseteq In(srv, "ready")
  BY <1>3, <1>6 DEF In
<1>8. SrvInv(Reaped(t))
  BY <1>5, <1>6, <1>7, ReapedKeeps DEF SrvInv
<1> QED BY <1>2, <1>8, SendToCallbackKeeps DEF SrvInv

\* A response that is ready will be sent, and the queue of the listener holds each request once and
\* keeps none from a waiting application, for any connections and requests
\* (nc_coap_server_event, nabto_device_coap_resource_handler).
THEOREM CoapAlwaysWakes == CoapServerInit /\ [][CoapServerNext]_srv => []CoapWakeup
<1> DEFINE Inv == SrvInv(srv)
<1>1. CoapServerInit => Inv
  <2> SUFFICES ASSUME CoapServerInit PROVE SrvInv(srv)
    OBVIOUS
  <2> DEFINE f == [r \in Requests |-> FreeRequest]
             g == [p \in Peers |-> "none"]
  <2>1. FreeRequest \in ReqState /\ FreeRequest.st = "none" /\ ReqOK(FreeRequest)
    BY TransmitsAssumption DEF FreeRequest, ReqState, ReqOK
  <2>2. /\ f \in [Requests -> ReqState] /\ g \in [Peers -> {"none", "open", "closing"}]
        /\ \A r \in Requests : f[r] = FreeRequest
    BY <2>1
  <2>3. << >> \in Seq(Requests) /\ Len(<< >>) = 0
    OBVIOUS
  <2>4. srv = [peer |-> g, req |-> f,
           queue |-> << >>, listener |-> "open", future |-> FALSE, isSending |-> FALSE,
           sendOf |-> NoPeer, ev |-> FALSE, timer |-> FALSE]
    BY DEF CoapServerInit
  <2> HIDE DEF f, g
  <2>5. srv \in SrvState
    BY <2>2, <2>3, <2>4 DEF SrvState
  <2>6. srv.req = f /\ srv.queue = << >>
    BY <2>4
  <2>7. SrvBase(srv)
    BY <2>1, <2>2, <2>3, <2>5, <2>6 DEF SrvBase, SrvQueued, QueueOK
  <2>8. In(srv, "ready") = {}
    BY <2>1, <2>2, <2>6 DEF In
  <2> QED BY <2>7, <2>8 DEF SrvInv
<1>2. Inv /\ [CoapServerNext]_srv => Inv'
  <2> SUFFICES ASSUME SrvInv(srv), [CoapServerNext]_srv PROVE SrvInv(srv')
    OBVIOUS
  <2>1. CASE UNCHANGED srv
    BY <2>1
  <2> QED BY <2>1, RequestArrivesKeeps, AckArrivesKeeps, PeerKeeps, PeerDestroyedKeeps, ResponseReadyKeeps,
             RequestFreeKeeps, NewCoapRequestKeeps, StopCoapListenerKeeps, EventsKeep, TimeoutKeeps
          DEF CoapServerNext
<1>3. Inv => CoapWakeup
  <2> SUFFICES ASSUME SrvInv(srv) PROVE CoapWakeup
    OBVIOUS
  <2>1. srv \in SrvState
    BY DEF SrvInv, SrvBase, SrvQueued
  <2>2. CoapServerTypeOK
    BY <2>1 DEF CoapServerTypeOK, SrvState, ReqState
  <2> QED BY <2>2 DEF CoapWakeup, SrvInv, SrvBase, SrvQueued, QueueOK
<1> HIDE DEF Inv
<1> QED BY <1>1, <1>2, <1>3, PTL

-----------------------------------------------------------------------------
(* Streams *)

\* The types of the fields of a stream.
Lefts == 0..2
Cbs == [Ops -> 0..MaxHandles]
Futs == [Handles -> [Ops -> {"none", "pending", "done"}]]
Lives == [Handles -> {"none", "queued", "held", "freed"}]
Queues == Seq(Handles)
Protos == {"SYN_RCVD", "WAIT_ACCEPT", "ACCEPTED", "SYN_SENT", "OPEN", "CLOSED"}

StrState ==
    [conn: {"open", "closing", "gone"}, active: BOOLEAN, bound: BOOLEAN, dtls: BOOLEAN,
     proto: Protos, released: BOOLEAN, app: SUBSET AppEvents, data: BOOLEAN, eof: BOOLEAN,
     out: {"none", "unsent", "sent"}, fin: {"none", "unsent", "sent", "acked"},
     ev: BOOLEAN, timer: BOOLEAN, isSending: BOOLEAN,
     sendType: {"none", "SYN_ACK", "DATA", "RST"},
     inList: BOOLEAN, left: Lefts, cb: Cbs, rst: BOOLEAN,
     listener: {"none", "ok", "stopped"}, queue: Queues, fut: BOOLEAN,
     life: Lives, futs: Futs, aborted: [Handles -> BOOLEAN],
     owner: 0..MaxHandles, foreign: BOOLEAN]

\* A read that waits wants something.
Reading(s) == s.cb["read"] # 0 => s.left # 0

\* What holds within the handlers too: packets go to the connection of the slot as long as it is there,
\* and what is being sent is in the list of the DTLS connection, unless that refused it.
Sound(s) ==
    /\ s \in StrState /\ Reading(s)
    /\ s.dtls => s.bound
    /\ s.dtls /\ s.isSending => s.inList \/ s.conn = "closing"
    /\ s.conn = "gone" => ~s.dtls

\* What is to be done has an event or a send under way, or is for a connection that closes.
Due(s) ==
    s.active /\ NextEvent(s) \notin {"WAIT", "CLOSED"} => s.ev \/ s.inList \/ (s.conn = "closing" /\ s.dtls)

\* The invariant between the handlers: a stream is given to its listener in the handler that accepts it.
StrInv(s) == Sound(s) /\ s.proto # "SYN_RCVD" /\ Due(s)

\* t is s after callbacks of the application were called, data was read or written: what is new to be
\* done has an event.
Served(s, t) ==
    /\ t \in StrState /\ Reading(t)
    /\ t.conn = s.conn /\ t.active = s.active /\ t.bound = s.bound /\ t.dtls = s.dtls
    /\ t.isSending = s.isSending /\ t.inList = s.inList
    /\ t.released = s.released /\ t.proto = s.proto /\ t.app = s.app
    /\ t.ev \/ (t.ev = s.ev /\ t.out = s.out /\ t.fin = s.fin)

\* One service after another.
LEMMA ServedTwice ==
    ASSUME NEW s, NEW t, NEW u, Served(s, t), Served(t, u)
    PROVE  Served(s, u)
BY DEF Served

\* What serves keeps the invariant.
LEMMA ServedSound ==
    ASSUME NEW s, NEW t, Sound(s), Served(s, t)
    PROVE  Sound(t) /\ (StrInv(s) => StrInv(t))
<1>1. Sound(t)
  BY DEF Sound, Served
<1>2. ASSUME Due(s) PROVE Due(t)
  <2>1. CASE t.ev
    BY <2>1 DEF Due
  <2>2. CASE ~t.ev
    <3>1. NextEvent(t) = NextEvent(s)
      BY <2>2 DEF Served, NextEvent
    <3> QED BY <1>2, <2>2, <3>1 DEF Served, Due
  <2> QED BY <2>1, <2>2
<1> QED BY <1>1, <1>2 DEF StrInv, Served

\* A callback is called, if it is set.
LEMMA CallServes ==
    ASSUME NEW s \in StrState, NEW o \in Ops, Reading(s) \/ o = "read"
    PROVE  Served(s, Call(s, o))
<1>1. s.cb \in Cbs /\ s.futs \in Futs /\ "read" \in Ops
  BY DEF StrState, Ops
<1>2. CASE s.cb[o] = 0
  <2>1. Call(s, o) = s
    BY <1>2 DEF Call
  <2> QED BY <1>2, <2>1 DEF Served, Reading
<1>3. CASE s.cb[o] # 0
  <2> DEFINE h == s.cb[o]
             c == [s.cb EXCEPT ![o] = 0]
             row == [s.futs[h] EXCEPT ![o] = "done"]
             f == [s.futs EXCEPT ![h] = row]
             foreign == s.foreign \/ s.owner # h \/ s.life[h] = "freed"
             a == [s EXCEPT !.cb = c]
             t == [a EXCEPT !.futs = f, !.foreign = foreign]
  <2>1. h \in Handles /\ 0 \in 0..MaxHandles
    BY <1>1, <1>3, HandlesAssumption DEF Cbs, Handles
  <2>2. c \in Cbs /\ c[o] = 0 /\ \A x \in Ops : x # o => c[x] = s.cb[x]
    BY <1>1, <2>1 DEF Cbs
  <2>3. f \in Futs
    <3>1. row \in [Ops -> {"none", "pending", "done"}]
      BY <1>1, <2>1 DEF Futs
    <3> HIDE DEF row, h
    <3> QED BY <1>1, <2>1, <3>1 DEF Futs
  <2>4. foreign \in BOOLEAN
    OBVIOUS
  <2>5. Call(s, o) = t
    <3>1. a.futs = s.futs /\ a.owner = s.owner /\ a.life = s.life /\ a.foreign = s.foreign
      BY DEF StrState
    <3>2. Call(s, o) = Resolve(a, h, o)
      BY <1>3 DEF Call
    <3> HIDE DEF a, h
    <3> QED BY <3>1, <3>2 DEF Resolve
  <2> HIDE DEF c, f, foreign, h
  <2>6. a \in StrState /\ a.cb = c
    BY <2>2 DEF StrState
  <2>7. /\ a.conn = s.conn /\ a.active = s.active /\ a.bound = s.bound /\ a.dtls = s.dtls /\ a.left = s.left
        /\ a.isSending = s.isSending /\ a.inList = s.inList
        /\ a.released = s.released /\ a.proto = s.proto /\ a.app = s.app /\ a.ev = s.ev /\ a.out = s.out /\ a.fin = s.fin
    BY DEF StrState
  <2> HIDE DEF a
  <2>8. t \in StrState
    BY ZenonT(40), <2>3, <2>4, <2>6 DEF StrState
  <2>9. /\ t.conn = a.conn /\ t.active = a.active /\ t.bound = a.bound /\ t.dtls = a.dtls /\ t.left = a.left
        /\ t.isSending = a.isSending /\ t.inList = a.inList /\ t.cb = a.cb
        /\ t.released = a.released /\ t.proto = a.proto /\ t.app = a.app /\ t.ev = a.ev /\ t.out = a.out /\ t.fin = a.fin
    BY <2>6 DEF StrState
  <2> HIDE DEF t
  <2>10. Reading(t)
    BY <1>1, <2>2, <2>6, <2>7, <2>9 DEF Reading
  <2> QED BY <2>5, <2>7, <2>8, <2>9, <2>10 DEF Served
<1> QED BY <1>2, <1>3

\* A post of something to be done.
LEMMA PostServes ==
    ASSUME NEW s \in StrState, Reading(s), NEW out \in {"none", "unsent", "sent"}, NEW fin \in {"none", "unsent", "sent", "acked"}
    PROVE  LET t == Post([s EXCEPT !.out = out, !.fin = fin]) IN Served(s, t) /\ t.cb = s.cb
<1> DEFINE t == [s EXCEPT !.out = out, !.fin = fin, !.ev = TRUE]
<1>1. Post([s EXCEPT !.out = out, !.fin = fin]) = t
  BY DEF Post
<1>2. t \in StrState
  BY ZenonT(40) DEF StrState
<1>3. /\ t.conn = s.conn /\ t.active = s.active /\ t.bound = s.bound /\ t.dtls = s.dtls /\ t.left = s.left
      /\ t.isSending = s.isSending /\ t.inList = s.inList /\ t.cb = s.cb
      /\ t.released = s.released /\ t.proto = s.proto /\ t.app = s.app /\ t.ev = TRUE
  BY DEF StrState
<1> HIDE DEF t
<1> QED BY <1>1, <1>2, <1>3 DEF Served, Reading

\* nc_stream_do_read.
LEMMA DoReadServes ==
    ASSUME NEW s \in StrState, Reading(s)
    PROVE  Served(s, DoRead(s))
<1>1. CASE s.cb["read"] = 0
  <2>1. DoRead(s) = s
    BY <1>1 DEF DoRead
  <2> QED BY <2>1 DEF Served
<1>2. CASE s.cb["read"] # 0
  <2> DEFINE r == IF s.data THEN [s EXCEPT !.data = FALSE, !.left = s.left - 1] ELSE s
             e == [r EXCEPT !.left = 0]
  <2>1. DoRead(s) = IF r.left = 0 \/ s.eof \/ s.proto = "CLOSED" THEN Call(e, "read") ELSE r
    BY <1>2 DEF DoRead
  <2>2. s.left \in Lefts /\ s.left # 0
    BY <1>2 DEF StrState, Reading
  <2>3. PICK less \in Lefts : less = s.left - 1
    BY <2>2 DEF Lefts
  <2>4. PICK zero \in Lefts : zero = 0
    BY DEF Lefts
  <2> DEFINE d == [s EXCEPT !.data = FALSE, !.left = less]
  <2>5. d \in StrState
    BY ZenonT(40), <2>3 DEF StrState
  <2>6. /\ r.conn = s.conn /\ r.active = s.active /\ r.bound = s.bound /\ r.dtls = s.dtls
        /\ r.isSending = s.isSending /\ r.inList = s.inList /\ r.cb = s.cb
        /\ r.released = s.released /\ r.proto = s.proto /\ r.app = s.app /\ r.ev = s.ev /\ r.out = s.out /\ r.fin = s.fin
        /\ r \in StrState
    <3>1. /\ d.conn = s.conn /\ d.active = s.active /\ d.bound = s.bound /\ d.dtls = s.dtls
          /\ d.isSending = s.isSending /\ d.inList = s.inList /\ d.cb = s.cb
          /\ d.released = s.released /\ d.proto = s.proto /\ d.app = s.app /\ d.ev = s.ev /\ d.out = s.out /\ d.fin = s.fin
      BY DEF StrState
    <3>2. r = d \/ r = s
      BY <2>3
    <3> HIDE DEF d, r
    <3> QED BY <2>5, <3>1, <3>2
  <2> HIDE DEF r
  <2>7. r.left # 0 => Served(s, r)
    BY <2>6 DEF Served, Reading
  <2>8. e = [r EXCEPT !.left = zero]
    BY <2>4
  <2>9. e \in StrState
    BY <2>6, <2>8 DEF StrState
  <2>10. /\ e.conn = s.conn /\ e.active = s.active /\ e.bound = s.bound /\ e.dtls = s.dtls
         /\ e.isSending = s.isSending /\ e.inList = s.inList
         /\ e.released = s.released /\ e.proto = s.proto /\ e.app = s.app /\ e.ev = s.ev /\ e.out = s.out /\ e.fin = s.fin
    BY <2>6, <2>8 DEF StrState
  <2> HIDE DEF e
  <2>11. Served(e, Call(e, "read"))
    BY <2>9, CallServes DEF Ops
  <2>12. Served(s, Call(e, "read"))
    BY <2>10, <2>11 DEF Served
  <2> QED BY <2>1, <2>7, <2>12
<1> QED BY <1>1, <1>2

\* nc_stream_do_write_all, with a callback that may be set.
LEMMA DoWriteAllServes ==
    ASSUME NEW s \in StrState, Reading(s)
    PROVE  Served(s, DoWriteAll(s)) /\ Served(s, WriteIf(s))
<1> DEFINE p == Post([s EXCEPT !.out = "unsent"])
           q == Post([s EXCEPT !.out = "unsent", !.fin = s.fin])
<1>1. Served(s, s)
  BY DEF Served
<1>2. Served(s, Call(s, "write"))
  BY CallServes DEF Ops
<1>3. s.fin \in {"none", "unsent", "sent", "acked"}
  BY DEF StrState
<1>4. p = q
  <2>1. [s EXCEPT !.out = "unsent"] = [s EXCEPT !.out = "unsent", !.fin = s.fin]
    BY Zenon DEF StrState
  <2> QED BY <2>1
<1>5. Served(s, q)
  BY ZenonT(40), <1>3, PostServes
<1> HIDE DEF q
<1>6. Served(q, Call(q, "write"))
  BY <1>5, CallServes DEF Served, Ops
<1>7. Served(s, Call(p, "write"))
  BY <1>4, <1>5, <1>6, ServedTwice
<1> HIDE DEF p
<1>8. DoWriteAll(s) \in {s, Call(s, "write"), Call(p, "write")}
  BY DEF DoWriteAll, p
<1>9. Served(s, DoWriteAll(s))
  BY <1>1, <1>2, <1>7, <1>8
<1> QED BY <1>1, <1>9 DEF WriteIf

\* nc_stream_handle_close.
LEMMA HandleCloseServes ==
    ASSUME NEW s \in StrState, Reading(s)
    PROVE  Served(s, HandleClose(s))
<1> DEFINE p == Post([s EXCEPT !.fin = "unsent"])
           q == Post([s EXCEPT !.out = s.out, !.fin = "unsent"])
<1>1. Served(s, s)
  BY DEF Served
<1>2. Served(s, Call(s, "close"))
  BY CallServes DEF Ops
<1>3. s.out \in {"none", "unsent", "sent"}
  BY DEF StrState
<1>4. p = q
  <2>1. [s EXCEPT !.fin = "unsent"] = [s EXCEPT !.out = s.out, !.fin = "unsent"]
    BY Zenon DEF StrState
  <2> QED BY <2>1
<1>5. Served(s, q)
  BY Zenon, <1>3, PostServes
<1> HIDE DEF q
<1>6. HandleClose(s) \in {s, Call(s, "close"), p}
  BY DEF HandleClose
<1> QED BY <1>1, <1>2, <1>4, <1>5, <1>6

\* nc_stream_application_event_callback.
LEMMA ApplicationEventServes ==
    ASSUME NEW s \in StrState, Reading(s), NEW e \in AppEvents
    PROVE  Served(s, ApplicationEvent(s, e))
<1>1. CASE e # "CLOSED"
  <2>1. ApplicationEvent(s, e) \in {Call(s, "accept"), DoRead(s), WriteIf(s), Call(s, "close")}
    BY <1>1 DEF ApplicationEvent, AppEvents
  <2>2. Served(s, Call(s, "accept")) /\ Served(s, Call(s, "close"))
    BY CallServes DEF Ops
  <2> QED BY <2>1, <2>2, DoReadServes, DoWriteAllServes
<1>2. CASE e = "CLOSED"
  <2> DEFINE w == WriteIf(s)
             a == Call(w, "accept")
             r == DoRead(a)
             c == HandleClose(r)
  <2>1. ApplicationEvent(s, e) = c
    BY <1>2 DEF ApplicationEvent, Then
  <2>2. Served(s, w) /\ w \in StrState /\ Reading(w)
    BY DoWriteAllServes DEF Served
  <2> HIDE DEF w
  <2>3. Served(w, a) /\ a \in StrState /\ Reading(a)
    BY <2>2, CallServes DEF Served, Ops
  <2> HIDE DEF a
  <2>4. Served(a, r) /\ r \in StrState /\ Reading(r)
    BY <2>3, DoReadServes DEF Served
  <2> HIDE DEF r
  <2>5. Served(r, c)
    BY <2>4, HandleCloseServes
  <2> HIDE DEF c
  <2> QED BY <2>1, <2>2, <2>3, <2>4, <2>5, ServedTwice
<1> QED BY <1>1, <1>2

\* t is s but for its protocol state, what it has to send, its event and its events for the application.
Kept(s, t) ==
    /\ t \in StrState /\ t.cb = s.cb /\ t.left = s.left
    /\ t.conn = s.conn /\ t.active = s.active /\ t.bound = s.bound /\ t.dtls = s.dtls
    /\ t.isSending = s.isSending /\ t.inList = s.inList

\* What is kept is sound, and needs nothing more once it has an event.
LEMMA KeptSound ==
    ASSUME NEW s, NEW t, Sound(s), Kept(s, t)
    PROVE  Sound(t) /\ (t.ev /\ t.proto # "SYN_RCVD" => StrInv(t))
BY DEF Sound, Kept, Reading, StrInv, Due

\* np_event_queue_post_maybe_double.
LEMMA PostKeeps ==
    ASSUME NEW s, Sound(s)
    PROVE  Kept(s, Post(s)) /\ Post(s).ev /\ Post(s).proto = s.proto
<1> DEFINE t == [s EXCEPT !.ev = TRUE]
<1>1. s \in StrState /\ Post(s) = t
  BY DEF Sound, Post
<1>2. t \in StrState
  BY ZenonT(40), <1>1 DEF StrState
<1>3. /\ t.cb = s.cb /\ t.left = s.left /\ t.conn = s.conn /\ t.active = s.active /\ t.bound = s.bound
      /\ t.dtls = s.dtls /\ t.isSending = s.isSending /\ t.inList = s.inList /\ t.ev = TRUE /\ t.proto = s.proto
  BY <1>1 DEF StrState
<1> QED BY <1>1, <1>2, <1>3 DEF Kept

\* The protocol state changes.
LEMMA ProtoChanges ==
    ASSUME NEW s \in StrState, NEW proto \in Protos, NEW t, t = [s EXCEPT !.proto = proto]
    PROVE  /\ Kept(s, t) /\ t.proto = proto /\ t.released = s.released /\ t.app = s.app /\ t.ev = s.ev
           /\ t.out = s.out /\ t.fin = s.fin
<1>1. t \in StrState
  BY DEF StrState
<1>2. /\ t.cb = s.cb /\ t.left = s.left /\ t.conn = s.conn /\ t.active = s.active /\ t.bound = s.bound
      /\ t.dtls = s.dtls /\ t.isSending = s.isSending /\ t.inList = s.inList /\ t.ev = s.ev /\ t.proto = proto
      /\ t.released = s.released /\ t.app = s.app /\ t.out = s.out /\ t.fin = s.fin
  BY DEF StrState
<1> QED BY <1>1, <1>2 DEF Kept

\* nabto_stream_event_handled.
LEMMA HandledKeeps ==
    ASSUME NEW s \in StrState, NEW type
    PROVE  LET t == Handled(s, type) IN
           /\ Kept(s, t) /\ t.released = s.released /\ t.app = s.app /\ t.ev = s.ev
           /\ s.proto # "SYN_RCVD" \/ type = "ACCEPT" => t.proto # "SYN_RCVD"
           /\ type = "RST" => t.proto = "CLOSED"
           /\ type = "SYN_ACK" /\ s.proto = "ACCEPTED" => t.proto = "SYN_SENT"
           /\ type = "DATA" => t.proto = s.proto /\ t.out # "unsent" /\ t.fin # "unsent"
<1> DEFINE t == Handled(s, type)
<1>1. "WAIT_ACCEPT" \in Protos /\ "SYN_SENT" \in Protos /\ "CLOSED" \in Protos
  BY DEF Protos
<1>2. CASE type = "ACCEPT" /\ s.proto = "SYN_RCVD"
  <2>1. t = [s EXCEPT !.proto = "WAIT_ACCEPT"]
    BY <1>2 DEF Handled
  <2>2. /\ Kept(s, t) /\ t.proto = "WAIT_ACCEPT" /\ t.released = s.released /\ t.app = s.app /\ t.ev = s.ev
    BY ONLY s \in StrState, <1>1, <2>1, ProtoChanges
  <2> QED BY <1>2, <2>2
<1>3. CASE type = "SYN_ACK" /\ s.proto = "ACCEPTED"
  <2>1. t = [s EXCEPT !.proto = "SYN_SENT"]
    BY <1>3 DEF Handled
  <2>2. /\ Kept(s, t) /\ t.proto = "SYN_SENT" /\ t.released = s.released /\ t.app = s.app /\ t.ev = s.ev
    BY ONLY s \in StrState, <1>1, <2>1, ProtoChanges
  <2> QED BY <1>3, <2>2
<1>4. CASE type = "RST"
  <2>1. t = [s EXCEPT !.proto = "CLOSED"]
    BY <1>4 DEF Handled
  <2>2. /\ Kept(s, t) /\ t.proto = "CLOSED" /\ t.released = s.released /\ t.app = s.app /\ t.ev = s.ev
    BY ONLY s \in StrState, <1>1, <2>1, ProtoChanges
  <2> QED BY <1>4, <2>2
<1>5. CASE type = "DATA"
  <2> DEFINE out == Sent(s.out)
             fin == Sent(s.fin)
             d == [s EXCEPT !.out = out, !.fin = fin]
  <2>1. t = d
    BY <1>5 DEF Handled
  <2>2. out \in {"none", "sent"} /\ fin \in {"none", "sent", "acked"}
    BY DEF StrState, Sent
  <2> HIDE DEF out, fin
  <2>3. d \in StrState
    BY ZenonT(40), <2>2 DEF StrState
  <2>4. /\ d.cb = s.cb /\ d.left = s.left /\ d.conn = s.conn /\ d.active = s.active /\ d.bound = s.bound
        /\ d.dtls = s.dtls /\ d.isSending = s.isSending /\ d.inList = s.inList /\ d.ev = s.ev /\ d.proto = s.proto
        /\ d.released = s.released /\ d.app = s.app /\ d.out = out /\ d.fin = fin
    BY DEF StrState
  <2> HIDE DEF d
  <2> QED BY <1>5, <2>1, <2>2, <2>3, <2>4 DEF Kept
<1>6. CASE /\ ~(type = "ACCEPT" /\ s.proto = "SYN_RCVD") /\ ~(type = "SYN_ACK" /\ s.proto = "ACCEPTED")
           /\ type # "RST" /\ type # "DATA"
  <2>1. t = s
    BY <1>6 DEF Handled
  <2> QED BY <1>6, <2>1 DEF Kept
<1> QED BY <1>2, <1>3, <1>4, <1>5, <1>6

\* nabto_stream_next_event_to_handle: what each answer tells.
LEMMA NextEventIs ==
    ASSUME NEW s \in StrState, s.proto # "SYN_RCVD"
    PROVE  LET type == NextEvent(s) IN
           /\ type \in {"RELEASED", "RST", "APPLICATION_EVENT", "SYN_ACK", "DATA", "CLOSED", "WAIT"}
           /\ type = "RST" => s.released
           /\ type = "APPLICATION_EVENT" => s.app # {}
           /\ type = "SYN_ACK" => ~s.released /\ s.app = {} /\ s.proto = "ACCEPTED"
           /\ type = "DATA" => ~s.released /\ s.app = {} /\ s.proto = "OPEN"
           /\ s.released /\ s.proto = "CLOSED" => type = "RELEASED"
           /\ ~s.released /\ s.app = {} /\ s.proto = "SYN_SENT" => type = "WAIT"
           /\ ~s.released /\ s.app = {} /\ s.proto = "OPEN" /\ s.out # "unsent" /\ s.fin # "unsent" => type = "WAIT"
<1>1. CASE s.released
  BY <1>1 DEF NextEvent
<1>2. CASE ~s.released /\ s.app # {}
  BY <1>2 DEF NextEvent
<1>3. CASE ~s.released /\ s.app = {}
  BY <1>3 DEF NextEvent
<1> QED BY <1>1, <1>2, <1>3 DEF StrState

\* nc_stream_destroy.
LEMMA DestroyKeeps ==
    ASSUME NEW s, Sound(s), s.proto # "SYN_RCVD"
    PROVE  StrInv(Destroy(s))
<1>1. s \in StrState /\ s.cb \in Cbs /\ s.futs \in Futs
  BY DEF Sound, StrState
<1>2. CASE ~s.active
  BY <1>2 DEF Destroy, StrInv, Due
<1>3. CASE s.active
  <2> DEFINE futs == [h \in Handles |-> [o \in Ops |-> IF s.cb[o] = h THEN "done" ELSE s.futs[h][o]]]
             foreign == s.foreign \/ \E o \in Ops : s.cb[o] \notin {0, s.owner}
             t == [s EXCEPT !.active = FALSE, !.dtls = FALSE, !.ev = FALSE, !.timer = FALSE,
                            !.futs = futs, !.data = FALSE, !.eof = FALSE, !.foreign = foreign]
  <2>1. Destroy(s) = t
    BY <1>3 DEF Destroy
  <2>2. futs \in Futs
    <3>1. \A h \in Handles, o \in Ops : s.futs[h][o] \in {"none", "pending", "done"}
      BY <1>1 DEF Futs
    <3>2. \A h \in Handles, o \in Ops :
              (IF s.cb[o] = h THEN "done" ELSE s.futs[h][o]) \in {"none", "pending", "done"}
      BY <3>1
    <3> QED BY <3>2, Zenon DEF Futs
  <2>3. foreign \in BOOLEAN
    OBVIOUS
  <2> HIDE DEF futs, foreign
  <2>4. t \in StrState
    <3> DEFINE d == [s EXCEPT !.active = FALSE, !.dtls = FALSE, !.ev = FALSE, !.timer = FALSE]
    <3>1. d \in StrState
      BY ZenonT(40), <1>1 DEF StrState
    <3>2. t = [d EXCEPT !.futs = futs, !.data = FALSE, !.eof = FALSE, !.foreign = foreign]
      BY <1>1 DEF StrState
    <3> HIDE DEF d, t
    <3> QED BY ZenonT(40), <2>2, <2>3, <3>1, <3>2 DEF StrState
  <2>5. /\ t.cb = s.cb /\ t.left = s.left /\ t.conn = s.conn /\ t.active = FALSE /\ t.bound = s.bound
        /\ t.dtls = FALSE /\ t.proto = s.proto
    BY <1>1 DEF StrState
  <2> HIDE DEF t
  <2> QED BY <2>1, <2>4, <2>5 DEF StrInv, Sound, Due, Reading
<1> QED BY <1>2, <1>3

\* The handlers that send nothing.
LEMMA DispatchKeeps ==
    ASSUME NEW s, Sound(s), s.proto # "SYN_RCVD",
           NextEvent(s) \in {"APPLICATION_EVENT", "WAIT", "RELEASED", "CLOSED"}
    PROVE  StrInv(Dispatch(s, NextEvent(s)))
<1>1. s \in StrState /\ Reading(s)
  BY DEF Sound
<1>2. CASE NextEvent(s) = "APPLICATION_EVENT"
  <2> DEFINE e == CHOOSE e \in s.app : TRUE
             app == s.app \ {e}
             a == [s EXCEPT !.app = app]
             b == ApplicationEvent(a, e)
  <2>1. Dispatch(s, NextEvent(s)) = Post(b)
    BY <1>2 DEF Dispatch, Then
  <2>2. s.app # {}
    BY <1>1, <1>2, NextEventIs
  <2>3. e \in AppEvents /\ app \in SUBSET AppEvents
    BY <1>1, <2>2 DEF StrState
  <2> HIDE DEF e, app
  <2>4. a \in StrState
    BY <1>1, <2>3 DEF StrState
  <2>5. /\ a.cb = s.cb /\ a.left = s.left /\ a.conn = s.conn /\ a.active = s.active /\ a.bound = s.bound
        /\ a.dtls = s.dtls /\ a.isSending = s.isSending /\ a.inList = s.inList /\ a.proto = s.proto
    BY <1>1 DEF StrState
  <2> HIDE DEF a
  <2>6. Sound(a)
    BY <2>4, <2>5, KeptSound DEF Kept
  <2>7. Served(a, b)
    BY <2>3, <2>4, <2>6, ApplicationEventServes DEF Sound
  <2>8. Sound(b) /\ b.proto = s.proto
    BY <2>5, <2>6, <2>7, ServedSound DEF Served
  <2> HIDE DEF b
  <2> QED BY <2>1, <2>8, PostKeeps, KeptSound
<1>3. CASE NextEvent(s) = "WAIT"
  <2> DEFINE timer == s.timer \/ s.proto = "SYN_SENT" \/ (s.proto = "OPEN" /\ "sent" \in {s.out, s.fin})
             t == [s EXCEPT !.timer = timer]
  <2>1. Dispatch(s, NextEvent(s)) = t
    BY <1>3 DEF Dispatch, HandleWait
  <2>2. timer \in BOOLEAN
    OBVIOUS
  <2> HIDE DEF timer
  <2>3. t \in StrState
    BY <1>1, <2>2 DEF StrState
  <2>4. /\ t.cb = s.cb /\ t.left = s.left /\ t.conn = s.conn /\ t.active = s.active /\ t.bound = s.bound
        /\ t.dtls = s.dtls /\ t.isSending = s.isSending /\ t.inList = s.inList /\ t.proto = s.proto
        /\ t.released = s.released /\ t.app = s.app /\ t.out = s.out /\ t.fin = s.fin
    BY <1>1 DEF StrState
  <2> HIDE DEF t
  <2>5. NextEvent(t) = NextEvent(s)
    BY <2>4 DEF NextEvent
  <2>6. Sound(t)
    BY <2>3, <2>4, KeptSound DEF Kept
  <2> QED BY <1>3, <2>1, <2>4, <2>5, <2>6 DEF StrInv, Due
<1>4. CASE NextEvent(s) = "RELEASED"
  BY <1>4, DestroyKeeps DEF Dispatch
<1>5. CASE NextEvent(s) = "CLOSED"
  <2> DEFINE t == [s EXCEPT !.timer = FALSE]
  <2>1. Dispatch(s, NextEvent(s)) = t
    BY <1>5 DEF Dispatch
  <2>3. t \in StrState
    BY ZenonT(40), <1>1 DEF StrState
  <2>4. /\ t.cb = s.cb /\ t.left = s.left /\ t.conn = s.conn /\ t.active = s.active /\ t.bound = s.bound
        /\ t.dtls = s.dtls /\ t.isSending = s.isSending /\ t.inList = s.inList /\ t.proto = s.proto
        /\ t.released = s.released /\ t.app = s.app /\ t.out = s.out /\ t.fin = s.fin
    BY <1>1 DEF StrState
  <2> HIDE DEF t
  <2>5. NextEvent(t) = NextEvent(s)
    BY <2>4 DEF NextEvent
  <2>6. Sound(t)
    BY <2>3, <2>4, KeptSound DEF Kept
  <2> QED BY <1>5, <2>1, <2>4, <2>5, <2>6 DEF StrInv, Due
<1> QED BY <1>2, <1>3, <1>4, <1>5

\* nc_stream_send_packet.
LEMMA SendPacketKeeps ==
    ASSUME NEW s, Sound(s), s.proto # "SYN_RCVD", s.dtls, NEW type \in {"SYN_ACK", "DATA", "RST"}
    PROVE  StrInv(SendPacket(s, type))
<1>1. s \in StrState
  BY DEF Sound
<1>2. CASE s.isSending
  BY <1>2 DEF SendPacket, StrInv, Due, Sound
<1>3. CASE ~s.isSending /\ s.conn = "open"
  <2> DEFINE t == [s EXCEPT !.isSending = TRUE, !.sendType = type, !.inList = TRUE]
  <2>1. SendPacket(s, type) = t
    BY <1>3 DEF SendPacket
  <2>2. t \in StrState
    BY ZenonT(40), <1>1 DEF StrState
  <2>3. /\ t.cb = s.cb /\ t.left = s.left /\ t.conn = s.conn /\ t.bound = s.bound
        /\ t.dtls = s.dtls /\ t.inList = TRUE /\ t.proto = s.proto
    BY Zenon, <1>1 DEF StrState
  <2> HIDE DEF t
  <2> QED BY <2>1, <2>2, <2>3 DEF StrInv, Sound, Due, Reading
<1>4. CASE ~s.isSending /\ s.conn # "open"
  <2> DEFINE d == [s EXCEPT !.isSending = TRUE, !.sendType = type]
             u == Handled(d, type)
  <2>1. SendPacket(s, type) = Post(u)
    BY <1>4 DEF SendPacket
  <2>2. d \in StrState
    BY ZenonT(40), <1>1 DEF StrState
  <2>3. /\ d.cb = s.cb /\ d.left = s.left /\ d.conn = s.conn /\ d.bound = s.bound
        /\ d.dtls = s.dtls /\ d.proto = s.proto
    BY Zenon, <1>1 DEF StrState
  <2> HIDE DEF d
  <2>4. s.conn = "closing"
    BY <1>1, <1>4 DEF Sound, StrState
  <2>5. Sound(d)
    BY <2>2, <2>3, <2>4 DEF Sound, Reading
  <2>6. Kept(d, u) /\ u.proto # "SYN_RCVD"
    BY <2>2, <2>3, HandledKeeps
  <2> HIDE DEF u
  <2> QED BY <2>1, <2>5, <2>6, KeptSound, PostKeeps
<1> QED BY <1>2, <1>3, <1>4

\* nc_stream_event, for a stream its listener knows.
LEMMA EventKeeps ==
    ASSUME NEW s, Sound(s), s.proto # "SYN_RCVD"
    PROVE  StrInv(Event(s))
<1> DEFINE type == NextEvent(s)
           u == Handled(s, type)
<1>1. s \in StrState
  BY DEF Sound
<1>2. type \in {"RELEASED", "RST", "APPLICATION_EVENT", "SYN_ACK", "DATA", "CLOSED", "WAIT"}
  BY <1>1, NextEventIs
<1>3. CASE type \notin {"SYN_ACK", "DATA", "RST"}
  <2>1. Event(s) = Dispatch(s, NextEvent(s))
    BY <1>3 DEF Event, HandleEvent, Then
  <2> QED BY <1>2, <1>3, <2>1, DispatchKeeps
<1>4. CASE type \in {"SYN_ACK", "DATA", "RST"} /\ s.dtls
  <2>1. Event(s) = SendPacket(s, type)
    BY <1>4 DEF Event, HandleEvent, Then
  <2> QED BY <1>4, <2>1, SendPacketKeeps
<1>5. CASE type \in {"SYN_ACK", "DATA", "RST"} /\ ~s.dtls
  <2>1. Event(s) = Dispatch(u, NextEvent(u))
    BY <1>5 DEF Event, HandleEvent, Then
  <2>2. /\ Kept(s, u) /\ u.released = s.released /\ u.app = s.app /\ u.proto # "SYN_RCVD"
        /\ type = "RST" => u.proto = "CLOSED"
        /\ type = "SYN_ACK" /\ s.proto = "ACCEPTED" => u.proto = "SYN_SENT"
        /\ type = "DATA" => u.proto = s.proto /\ u.out # "unsent" /\ u.fin # "unsent"
    BY <1>1, HandledKeeps
  <2>3. /\ type = "RST" => s.released
        /\ type = "SYN_ACK" => ~s.released /\ s.app = {} /\ s.proto = "ACCEPTED"
        /\ type = "DATA" => ~s.released /\ s.app = {} /\ s.proto = "OPEN"
    BY <1>1, NextEventIs
  <2> HIDE DEF u, type
  <2>4. u \in StrState /\ Sound(u)
    BY <2>2, KeptSound DEF Kept
  <2>5. NextEvent(u) \in {"RELEASED", "WAIT"}
    BY <1>5, <2>2, <2>3, <2>4, NextEventIs
  <2> QED BY <2>1, <2>2, <2>4, <2>5, DispatchKeeps
<1> QED BY <1>3, <1>4, <1>5

\* nabto_stream_release, with its event.
LEMMA NabtoReleaseKeeps ==
    ASSUME NEW s, Sound(s)
    PROVE  Sound(NabtoRelease(s)) /\ Due(NabtoRelease(s)) /\ NabtoRelease(s).proto = s.proto
<1>1. PICK none \in SUBSET AppEvents : none = {}
  BY Zenon
<1> DEFINE active == s.active
           t == [s EXCEPT !.released = TRUE, !.app = none, !.ev = active]
<1>2. s \in StrState /\ NabtoRelease(s) = t
  BY <1>1 DEF Sound, NabtoRelease
<1>3. active \in BOOLEAN
  BY <1>2 DEF StrState
<1>4. t \in StrState
  <2> HIDE DEF active
  <2> QED BY ZenonT(40), <1>2, <1>3 DEF StrState
<1>5. /\ t.cb = s.cb /\ t.left = s.left /\ t.conn = s.conn /\ t.active = s.active /\ t.bound = s.bound
      /\ t.dtls = s.dtls /\ t.isSending = s.isSending /\ t.inList = s.inList /\ t.ev = s.active /\ t.proto = s.proto
  BY <1>2 DEF StrState
<1> HIDE DEF t
<1> QED BY <1>2, <1>4, <1>5 DEF Sound, Due, Reading

\* nabto_stream_connection_died.
LEMMA NabtoClosedKeeps ==
    ASSUME NEW s \in StrState
    PROVE  Kept(s, NabtoClosed(s)) /\ NabtoClosed(s).proto = "CLOSED"
<1> DEFINE app == IF s.released \/ s.proto = "CLOSED" THEN s.app ELSE {"CLOSED"}
           t == [s EXCEPT !.proto = "CLOSED", !.out = "none", !.fin = "none", !.app = app]
<1>1. NabtoClosed(s) = t
  BY DEF NabtoClosed
<1>2. app \in SUBSET AppEvents /\ "CLOSED" \in Protos
  BY DEF StrState, AppEvents, Protos
<1> HIDE DEF app
<1>3. t \in StrState
  BY ZenonT(40), <1>2 DEF StrState
<1>4. /\ t.cb = s.cb /\ t.left = s.left /\ t.conn = s.conn /\ t.active = s.active /\ t.bound = s.bound
      /\ t.dtls = s.dtls /\ t.isSending = s.isSending /\ t.inList = s.inList /\ t.proto = "CLOSED"
  BY DEF StrState
<1> HIDE DEF t
<1> QED BY <1>1, <1>3, <1>4 DEF Kept

\* nabto_device_listener_try_resolve.
LEMMA TryResolveServes ==
    ASSUME NEW s \in StrState, Reading(s)
    PROVE  Served(s, TryResolve(s))
<1>1. CASE ~s.fut \/ s.queue = << >>
  BY <1>1 DEF TryResolve, Served
<1>2. CASE s.fut /\ s.queue # << >>
  <2> DEFINE h == Head(s.queue)
             queue == Tail(s.queue)
             life == [s.life EXCEPT ![h] = "held"]
             t == [s EXCEPT !.fut = FALSE, !.queue = queue, !.life = life]
  <2>1. TryResolve(s) = t
    BY <1>2 DEF TryResolve
  <2>2. s.queue \in Seq(Handles) /\ s.life \in Lives
    BY DEF StrState, Queues
  <2>3. h \in Handles /\ queue \in Queues
    BY <1>2, <2>2, HeadTailProperties DEF Queues
  <2> HIDE DEF h, queue
  <2>4. life \in Lives
    BY <2>2, <2>3 DEF Lives
  <2> HIDE DEF life
  <2>5. t \in StrState
    BY ZenonT(40), <2>3, <2>4 DEF StrState
  <2>6. /\ t.cb = s.cb /\ t.left = s.left /\ t.conn = s.conn /\ t.active = s.active /\ t.bound = s.bound
        /\ t.dtls = s.dtls /\ t.isSending = s.isSending /\ t.inList = s.inList /\ t.proto = s.proto
        /\ t.released = s.released /\ t.app = s.app /\ t.ev = s.ev /\ t.out = s.out /\ t.fin = s.fin
    BY DEF StrState
  <2> HIDE DEF t
  <2> QED BY <2>1, <2>5, <2>6 DEF Served, Reading
<1> QED BY <1>1, <1>2 DEF StrState

\* A set of numbers that is not empty has a smallest one.
LEMMA Smallest ==
    ASSUME NEW T, T \subseteq Nat, T # {}
    PROVE  \E n \in T : \A m \in T : n <= m
<1>1. \E n \in T : \A m \in T : ~(<<m, n>> \in OpToRel(<, Nat))
  BY Zenon, NatLessThanWellFounded, WFMin
<1>2. PICK n \in T : \A m \in T : ~(<<m, n>> \in OpToRel(<, Nat))
  BY Zenon, <1>1
<1>3. \A m \in T : ~(m < n)
  BY ZenonT(40), <1>2 DEF OpToRel
<1> QED BY <1>3

\* nabto_device_stream_core_callback, with a handle that is free.
LEMMA CoreCallbackServes ==
    ASSUME NEW s \in StrState, Reading(s), \E h \in Handles : s.life[h] = "none"
    PROVE  Served(s, CoreCallback(s))
<1> DEFINE Free(h) == s.life[h] = "none" /\ \A g \in 1..(h - 1) : s.life[g] # "none"
           h == CHOOSE h \in Handles : Free(h)
<1>1. \E n \in Handles : Free(n)
  <2> DEFINE T == {n \in Handles : s.life[n] = "none"}
  <2>1. T \subseteq Nat /\ T # {}
    BY HandlesAssumption DEF Handles
  <2>2. PICK n \in T : \A m \in T : n <= m
    BY ZenonT(40), <2>1, Smallest
  <2>3. \A g \in 1..(n - 1) : g \in Handles /\ ~(n <= g)
    BY <2>2, HandlesAssumption DEF Handles
  <2> QED BY <2>2, <2>3
<1>2. h \in Handles
  BY <1>1, Zenon
<1>3. CoreCallback(s) = AddEvent([s EXCEPT !.owner = h], h)
  BY DEF CoreCallback
<1> HIDE DEF h
<1> DEFINE queue == Append(s.queue, h)
           life == [s.life EXCEPT ![h] = "queued"]
           t == [s EXCEPT !.owner = h, !.queue = queue, !.life = life]
<1>4. CoreCallback(s) = TryResolve(t)
  <2>1. [[s EXCEPT !.owner = h] EXCEPT !.queue = Append(@, h), !.life[h] = "queued"] = t
    BY DEF StrState
  <2> HIDE DEF t
  <2> QED BY <1>3, <2>1 DEF AddEvent
<1>5. h \in 0..MaxHandles /\ queue \in Queues
  BY <1>2, HandlesAssumption, AppendProperties DEF Handles, StrState, Queues
<1>6. life \in Lives
  BY <1>2 DEF Lives, StrState
<1> HIDE DEF queue, life
<1>7. t \in StrState
  BY ZenonT(40), <1>5, <1>6 DEF StrState
<1>8. /\ t.cb = s.cb /\ t.left = s.left /\ t.conn = s.conn /\ t.active = s.active /\ t.bound = s.bound
      /\ t.dtls = s.dtls /\ t.isSending = s.isSending /\ t.inList = s.inList /\ t.proto = s.proto
      /\ t.released = s.released /\ t.app = s.app /\ t.ev = s.ev /\ t.out = s.out /\ t.fin = s.fin
  BY DEF StrState
<1> HIDE DEF t
<1>9. Served(s, t) /\ Reading(t)
  BY <1>7, <1>8 DEF Served, Reading
<1> QED BY <1>4, <1>7, <1>9, TryResolveServes, ServedTwice

\* The first packet of a stream that finds a slot.
LEMMA SynKeeps ==
    ASSUME NEW s, StrInv(s), s.conn = "open", s.listener = "ok" => \E h \in Handles : s.life[h] = "none"
    PROVE  StrInv(Event(Accepted(s)))
<1>1. PICK none \in SUBSET AppEvents : none = {}
  BY Zenon
<1>2. PICK zero \in 0..MaxHandles : zero = 0
  BY HandlesAssumption
<1> DEFINE d == [s EXCEPT !.active = TRUE, !.bound = TRUE, !.dtls = TRUE, !.proto = "SYN_RCVD", !.released = FALSE]
           a == [d EXCEPT !.app = none, !.out = "none", !.fin = "none", !.isSending = FALSE, !.owner = zero]
           r == ReadyForAccept(a)
           t == Handled(r, "ACCEPT")
<1>3. s \in StrState /\ Reading(s) /\ "SYN_RCVD" \in Protos
  BY DEF StrInv, Sound, Protos
<1>4. Accepted(s) = a
  BY <1>1, <1>2, <1>3 DEF Accepted, StrState
<1>5. d \in StrState
  BY ZenonT(40), <1>3 DEF StrState
<1>6. /\ d.cb = s.cb /\ d.left = s.left /\ d.conn = s.conn /\ d.bound = TRUE /\ d.proto = "SYN_RCVD"
      /\ d.released = FALSE /\ d.listener = s.listener /\ d.life = s.life
  BY <1>3 DEF StrState
<1> HIDE DEF d
<1>7. a \in StrState
  BY ZenonT(40), <1>1, <1>2, <1>5 DEF StrState
<1>8. /\ a.cb = d.cb /\ a.left = d.left /\ a.conn = d.conn /\ a.bound = d.bound /\ a.proto = d.proto
      /\ a.released = d.released /\ a.listener = d.listener /\ a.life = d.life /\ a.isSending = FALSE
  BY <1>5 DEF StrState
<1> HIDE DEF a
<1>9. Sound(a) /\ Reading(a) /\ NextEvent(a) = "ACCEPT"
  BY <1>3, <1>6, <1>7, <1>8 DEF Sound, Reading, NextEvent
<1>10. Sound(r)
  <2>1. CASE a.listener = "ok"
    <3>1. \E h \in Handles : a.life[h] = "none"
      BY <1>6, <1>8, <2>1
    <3>2. Served(a, r)
      BY <1>7, <1>9, <2>1, <3>1, CoreCallbackServes DEF ReadyForAccept
    <3> QED BY <1>9, <3>2, ServedSound
  <2>2. CASE a.listener # "ok"
    BY <1>9, <2>2, NabtoReleaseKeeps DEF ReadyForAccept
  <2> QED BY <2>1, <2>2
<1>11. Event(Accepted(s)) = Post(t)
  BY <1>4, <1>9 DEF Event, HandleEvent, Dispatch, Then
<1> HIDE DEF r
<1>12. Kept(r, t) /\ t.proto # "SYN_RCVD"
  BY <1>10, HandledKeeps DEF Sound
<1> HIDE DEF t
<1> QED BY <1>10, <1>11, <1>12, KeptSound, PostKeeps

\* A change of what the invariant does not speak of.
LEMMA OthersKeep ==
    ASSUME NEW s, StrInv(s), NEW t \in StrState, t.cb = s.cb, t.left = s.left, t.conn = s.conn,
           t.active = s.active, t.bound = s.bound, t.dtls = s.dtls, t.isSending = s.isSending,
           t.inList = s.inList, t.proto = s.proto, t.released = s.released, t.app = s.app,
           t.ev = s.ev, t.out = s.out, t.fin = s.fin
    PROVE  StrInv(t)
<1>1. Served(s, t)
  BY DEF StrInv, Sound, Served, Reading
<1> QED BY <1>1, ServedSound DEF StrInv

\* nc_stream_manager_send_rst and its callback.
LEMMA RstKeeps ==
    ASSUME NEW s, StrInv(s), NEW b \in BOOLEAN
    PROVE  StrInv([s EXCEPT !.rst = b])
<1> DEFINE t == [s EXCEPT !.rst = b]
<1>1. s \in StrState
  BY DEF StrInv, Sound
<1>2. t \in StrState
  BY <1>1 DEF StrState
<1>3. /\ t.cb = s.cb /\ t.left = s.left /\ t.conn = s.conn /\ t.active = s.active /\ t.bound = s.bound
      /\ t.dtls = s.dtls /\ t.isSending = s.isSending /\ t.inList = s.inList /\ t.proto = s.proto
      /\ t.released = s.released /\ t.app = s.app /\ t.ev = s.ev /\ t.out = s.out /\ t.fin = s.fin
  BY <1>1 DEF StrState
<1>4. StrInv(t)
  <2> HIDE DEF t
  <2> QED BY <1>2, <1>3, OthersKeep
<1> QED BY <1>4

\* Both directions may have ended.
LEMMA SettledKeeps ==
    ASSUME NEW s \in StrState, NEW t, Kept(s, t), t.proto # "SYN_RCVD"
    PROVE  Kept(s, Settled(t)) /\ Settled(t).proto # "SYN_RCVD"
<1>1. t \in StrState
  BY DEF Kept
<1>2. Kept(t, NabtoClosed(t)) /\ NabtoClosed(t).proto = "CLOSED"
  BY <1>1, NabtoClosedKeeps
<1>3. CASE t.fin = "acked" /\ t.eof
  BY <1>2, <1>3 DEF Settled, Kept
<1>4. CASE ~(t.fin = "acked" /\ t.eof)
  BY <1>4 DEF Settled
<1> QED BY <1>3, <1>4

\* nabto_stream_handle_packet.
LEMMA PacketKeeps ==
    ASSUME NEW s \in StrState, s.proto # "SYN_RCVD", NEW kind
    PROVE  Kept(s, NabtoPacket(s, kind)) /\ NabtoPacket(s, kind).proto # "SYN_RCVD"
<1> DEFINE app(e) == s.app \cup {e}
<1>1. /\ app("OPENED") \in SUBSET AppEvents /\ app("DATA_WRITE") \in SUBSET AppEvents
      /\ app("WRITE_CLOSED") \in SUBSET AppEvents /\ app("DATA_READY") \in SUBSET AppEvents
      /\ app("READ_CLOSED") \in SUBSET AppEvents /\ "OPEN" \in Protos
  BY DEF StrState, AppEvents, Protos
<1> HIDE DEF app
<1>2. CASE kind = "ACK" /\ s.proto = "SYN_SENT"
  <2> DEFINE t == [s EXCEPT !.proto = "OPEN", !.app = app("OPENED")]
  <2>1. NabtoPacket(s, kind) = t
    BY <1>2 DEF NabtoPacket, app
  <2>2. t \in StrState
    BY ZenonT(40), <1>1 DEF StrState
  <2>3. /\ t.cb = s.cb /\ t.left = s.left /\ t.conn = s.conn /\ t.active = s.active /\ t.bound = s.bound
        /\ t.dtls = s.dtls /\ t.isSending = s.isSending /\ t.inList = s.inList /\ t.proto = "OPEN"
    BY DEF StrState
  <2>4. Kept(s, t) /\ t.proto # "SYN_RCVD"
    <3> HIDE DEF t
    <3> QED BY <2>2, <2>3 DEF Kept
  <2> QED BY <2>1, <2>4
<1>3. CASE kind = "ACK" /\ s.proto = "OPEN" /\ s.out = "sent"
  <2> DEFINE t == [s EXCEPT !.out = "none", !.app = app("DATA_WRITE")]
  <2>1. NabtoPacket(s, kind) = t
    BY <1>3 DEF NabtoPacket, app
  <2>2. t \in StrState
    BY ZenonT(40), <1>1 DEF StrState
  <2>3. /\ t.cb = s.cb /\ t.left = s.left /\ t.conn = s.conn /\ t.active = s.active /\ t.bound = s.bound
        /\ t.dtls = s.dtls /\ t.isSending = s.isSending /\ t.inList = s.inList /\ t.proto = s.proto
    BY DEF StrState
  <2>4. Kept(s, t) /\ t.proto # "SYN_RCVD"
    <3> HIDE DEF t
    <3> QED BY <2>2, <2>3 DEF Kept
  <2> QED BY <2>1, <2>4
<1>4. CASE kind = "ACK" /\ s.proto = "OPEN" /\ s.out = "none" /\ s.fin = "sent"
  <2> DEFINE t == [s EXCEPT !.fin = "acked", !.app = app("WRITE_CLOSED")]
  <2>1. NabtoPacket(s, kind) = Settled(t)
    BY <1>4 DEF NabtoPacket, app
  <2>2. t \in StrState
    BY ZenonT(40), <1>1 DEF StrState
  <2>3. /\ t.cb = s.cb /\ t.left = s.left /\ t.conn = s.conn /\ t.active = s.active /\ t.bound = s.bound
        /\ t.dtls = s.dtls /\ t.isSending = s.isSending /\ t.inList = s.inList /\ t.proto = s.proto
    BY DEF StrState
  <2>4. Kept(s, t) /\ t.proto # "SYN_RCVD"
    <3> HIDE DEF t
    <3> QED BY <2>2, <2>3 DEF Kept
  <2> QED BY ZenonT(40), <2>1, <2>4, SettledKeeps
<1>5. CASE kind = "DATA" /\ s.proto = "OPEN" /\ ~s.data /\ ~s.eof
  <2> DEFINE t == [s EXCEPT !.data = TRUE, !.app = app("DATA_READY")]
  <2>1. NabtoPacket(s, kind) = t
    BY <1>5 DEF NabtoPacket, app
  <2>2. t \in StrState
    BY ZenonT(40), <1>1 DEF StrState
  <2>3. /\ t.cb = s.cb /\ t.left = s.left /\ t.conn = s.conn /\ t.active = s.active /\ t.bound = s.bound
        /\ t.dtls = s.dtls /\ t.isSending = s.isSending /\ t.inList = s.inList /\ t.proto = s.proto
    BY DEF StrState
  <2>4. Kept(s, t) /\ t.proto # "SYN_RCVD"
    <3> HIDE DEF t
    <3> QED BY <2>2, <2>3 DEF Kept
  <2> QED BY <2>1, <2>4
<1>6. CASE kind = "FIN" /\ s.proto = "OPEN" /\ ~s.eof
  <2> DEFINE t == [s EXCEPT !.eof = TRUE, !.app = app("READ_CLOSED")]
  <2>1. NabtoPacket(s, kind) = Settled(t)
    BY <1>6 DEF NabtoPacket, app
  <2>2. t \in StrState
    BY ZenonT(40), <1>1 DEF StrState
  <2>3. /\ t.cb = s.cb /\ t.left = s.left /\ t.conn = s.conn /\ t.active = s.active /\ t.bound = s.bound
        /\ t.dtls = s.dtls /\ t.isSending = s.isSending /\ t.inList = s.inList /\ t.proto = s.proto
    BY DEF StrState
  <2>4. Kept(s, t) /\ t.proto # "SYN_RCVD"
    <3> HIDE DEF t
    <3> QED BY <2>2, <2>3 DEF Kept
  <2> QED BY ZenonT(40), <2>1, <2>4, SettledKeeps
<1>7. CASE kind = "RST"
  <2>1. NabtoPacket(s, kind) = NabtoClosed(s)
    BY <1>7 DEF NabtoPacket
  <2> QED BY <2>1, NabtoClosedKeeps
<1>8. CASE /\ ~(kind = "ACK" /\ (s.proto = "SYN_SENT" \/ (s.proto = "OPEN" /\ s.out = "sent")
                                  \/ (s.proto = "OPEN" /\ s.out = "none" /\ s.fin = "sent")))
           /\ ~(kind = "DATA" /\ s.proto = "OPEN" /\ ~s.data /\ ~s.eof)
           /\ ~(kind = "FIN" /\ s.proto = "OPEN" /\ ~s.eof) /\ kind # "RST"
  <2>1. NabtoPacket(s, kind) = s
    BY <1>8 DEF NabtoPacket
  <2> QED BY <2>1 DEF Kept
<1> QED BY <1>2, <1>3, <1>4, <1>5, <1>6, <1>7, <1>8

\* nc_stream_dtls_send_callback.
LEMMA SendCallbackKeeps ==
    ASSUME NEW s, Sound(s), s.proto # "SYN_RCVD"
    PROVE  StrInv(SendCallback(s))
<1> DEFINE d == [s EXCEPT !.inList = FALSE, !.isSending = FALSE]
           t == Handled(d, s.sendType)
<1>1. s \in StrState
  BY DEF Sound
<1>2. d \in StrState
  BY ZenonT(40), <1>1 DEF StrState
<1>3. /\ d.cb = s.cb /\ d.left = s.left /\ d.conn = s.conn /\ d.bound = s.bound /\ d.dtls = s.dtls
      /\ d.proto = s.proto /\ d.isSending = FALSE
  BY <1>1 DEF StrState
<1>4. SendCallback(s) = Event(t)
  BY DEF SendCallback
<1> HIDE DEF d
<1>5. Sound(d)
  BY <1>2, <1>3 DEF Sound, Reading
<1>6. Kept(d, t) /\ t.proto # "SYN_RCVD"
  BY <1>2, <1>3, HandledKeeps
<1> HIDE DEF t
<1> QED BY <1>4, <1>5, <1>6, KeptSound, EventKeeps

\* nc_stream_event_queue_callback.
LEMMA StreamEventKeeps ==
    ASSUME StrInv(str), StreamEvent
    PROVE  StrInv(str')
<1> DEFINE s == str
           t == [s EXCEPT !.ev = FALSE]
<1>1. s \in StrState /\ Sound(s) /\ s.proto # "SYN_RCVD"
  BY DEF StrInv, Sound
<1>2. t \in StrState
  BY ZenonT(40), <1>1 DEF StrState
<1>3. /\ t.cb = s.cb /\ t.left = s.left /\ t.conn = s.conn /\ t.active = s.active /\ t.bound = s.bound
      /\ t.dtls = s.dtls /\ t.isSending = s.isSending /\ t.inList = s.inList /\ t.proto = s.proto
  BY <1>1 DEF StrState
<1>4. str' = Event(t)
  BY DEF StreamEvent
<1> HIDE DEF t
<1>5. Kept(s, t)
  BY <1>2, <1>3 DEF Kept
<1> QED BY <1>1, <1>3, <1>4, <1>5, KeptSound, EventKeeps

\* nc_stream_handle_timeout.
LEMMA StreamTimeoutKeeps ==
    ASSUME StrInv(str), NEW giveUp \in BOOLEAN, StreamTimeout(giveUp)
    PROVE  StrInv(str')
<1> DEFINE s == str
           t == [s EXCEPT !.timer = FALSE]
           Again(field) == IF field = "sent" THEN "unsent" ELSE field
           proto == IF t.proto = "SYN_SENT" THEN "ACCEPTED" ELSE t.proto
           out == Again(t.out)
           fin == Again(t.fin)
           u == [t EXCEPT !.proto = proto, !.out = out, !.fin = fin]
<1>1. s \in StrState /\ Sound(s) /\ s.proto # "SYN_RCVD"
  BY DEF StrInv, Sound
<1>2. t \in StrState
  BY ZenonT(40), <1>1 DEF StrState
<1>3. /\ t.cb = s.cb /\ t.left = s.left /\ t.conn = s.conn /\ t.active = s.active /\ t.bound = s.bound
      /\ t.dtls = s.dtls /\ t.isSending = s.isSending /\ t.inList = s.inList /\ t.proto = s.proto
  BY <1>1 DEF StrState
<1>4. str' = Event(t) \/ str' = Post(NabtoClosed(t)) \/ str' = Post(u)
  BY DEF StreamTimeout
<1> HIDE DEF t
<1>5. Sound(t) /\ t.proto # "SYN_RCVD"
  BY <1>1, <1>2, <1>3, KeptSound DEF Kept
<1>6. CASE str' = Event(t)
  BY <1>5, <1>6, EventKeeps
<1>7. CASE str' = Post(NabtoClosed(t))
  <2>1. Kept(t, NabtoClosed(t)) /\ NabtoClosed(t).proto = "CLOSED"
    BY <1>2, NabtoClosedKeeps
  <2>2. Sound(NabtoClosed(t))
    BY <1>5, <2>1, KeptSound
  <2> QED BY <1>7, <2>1, <2>2, PostKeeps, KeptSound
<1>8. CASE str' = Post(u)
  <2>1. proto \in Protos /\ proto # "SYN_RCVD"
    BY <1>2, <1>5 DEF StrState, Protos
  <2>2. out \in {"none", "unsent", "sent"} /\ fin \in {"none", "unsent", "sent", "acked"}
    BY <1>2 DEF StrState
  <2> HIDE DEF proto, out, fin
  <2>3. u \in StrState
    BY ZenonT(40), <1>2, <2>1, <2>2 DEF StrState
  <2>4. /\ u.cb = t.cb /\ u.left = t.left /\ u.conn = t.conn /\ u.active = t.active /\ u.bound = t.bound
        /\ u.dtls = t.dtls /\ u.isSending = t.isSending /\ u.inList = t.inList /\ u.proto = proto
    BY <1>2 DEF StrState
  <2> HIDE DEF u
  <2>5. Kept(t, u)
    BY <2>3, <2>4 DEF Kept
  <2>6. Sound(u)
    BY <1>5, <2>5, KeptSound
  <2> QED BY <1>8, <2>1, <2>4, <2>6, PostKeeps, KeptSound
<1> QED BY <1>4, <1>6, <1>7, <1>8

\* The connection changes.
LEMMA ConnKeeps ==
    ASSUME NEW s, StrInv(s), NEW conn \in {"open", "closing", "gone"},
           (s.conn = "open" /\ conn = "closing") \/ ~s.dtls
    PROVE  StrInv([s EXCEPT !.conn = conn])
<1> DEFINE t == [s EXCEPT !.conn = conn]
<1>1. s \in StrState
  BY DEF StrInv, Sound
<1>2. t \in StrState
  BY <1>1 DEF StrState
<1>3. /\ t.cb = s.cb /\ t.left = s.left /\ t.conn = conn /\ t.active = s.active /\ t.bound = s.bound
      /\ t.dtls = s.dtls /\ t.isSending = s.isSending /\ t.inList = s.inList /\ t.proto = s.proto
      /\ t.released = s.released /\ t.app = s.app /\ t.ev = s.ev /\ t.out = s.out /\ t.fin = s.fin
  BY <1>1 DEF StrState
<1>4. StrInv(t)
  <2> HIDE DEF t
  <2>1. NextEvent(t) = NextEvent(s)
    BY <1>3 DEF NextEvent
  <2>2. Sound(t)
    BY <1>2, <1>3 DEF StrInv, Sound, Reading
  <2> QED BY <1>3, <2>1, <2>2 DEF StrInv, Due
<1> QED BY <1>4

\* nc_client_connection_destroy_connection.
LEMMA ConnectionDestroyedKeeps ==
    ASSUME StrInv(str), ConnectionDestroyed
    PROVE  StrInv(str')
<1> DEFINE s == str
           g == [s EXCEPT !.conn = "gone"]
           b == [g EXCEPT !.bound = FALSE, !.dtls = FALSE]
           c == ConnectionClosed(g)
           e == IF c.inList THEN SendCallback(c) ELSE c
<1>1. s \in StrState /\ Sound(s) /\ s.proto # "SYN_RCVD"
  BY DEF StrInv, Sound
<1>2. g \in StrState
  BY <1>1 DEF StrState
<1>3. g.cb = s.cb /\ g.left = s.left /\ g.bound = s.bound /\ g.dtls = s.dtls /\ g.proto = s.proto
  BY <1>1 DEF StrState
<1>4. str' = [e EXCEPT !.rst = FALSE]
  BY DEF ConnectionDestroyed
<1>5. StrInv(c)
  <2>1. CASE ~g.bound
    <3>1. ~s.dtls
      BY <1>1, <1>3, <2>1 DEF Sound
    <3>2. StrInv(g)
      BY Zenon, <3>1, ConnKeeps
    <3> QED BY <2>1, <3>2 DEF ConnectionClosed
  <2>2. CASE g.bound
    <3>1. c = Event(NabtoClosed(b))
      BY <2>2 DEF ConnectionClosed
    <3> HIDE DEF g, c
    <3>2. b \in StrState
      BY ZenonT(40), <1>2 DEF StrState
    <3>3. b.cb = g.cb /\ b.left = g.left /\ b.dtls = FALSE
      BY <1>2 DEF StrState
    <3> HIDE DEF b
    <3>4. Sound(b)
      BY <1>1, <1>3, <3>2, <3>3 DEF Sound, Reading
    <3>5. Kept(b, NabtoClosed(b)) /\ NabtoClosed(b).proto = "CLOSED"
      BY <3>2, NabtoClosedKeeps
    <3>6. Sound(NabtoClosed(b))
      BY <3>4, <3>5, KeptSound
    <3> QED BY <3>1, <3>5, <3>6, EventKeeps
  <2> QED BY <2>1, <2>2
<1> HIDE DEF c
<1>6. StrInv(e)
  BY <1>5, SendCallbackKeeps DEF StrInv
<1> HIDE DEF e
<1> QED BY Zenon, <1>4, <1>6, RstKeeps

\* nabto_device_stream_init_listener and nabto_device_listener_new_stream.
LEMMA ListenerKeeps ==
    ASSUME StrInv(str), InitListener \/ NewStream
    PROVE  StrInv(str')
<1> DEFINE s == str
<1>1. s \in StrState
  BY DEF StrInv, Sound
<1>2. CASE InitListener
  <2> DEFINE t == [s EXCEPT !.listener = "ok"]
  <2>1. t \in StrState
    BY <1>1 DEF StrState
  <2>2. /\ t.cb = s.cb /\ t.left = s.left /\ t.conn = s.conn /\ t.active = s.active /\ t.bound = s.bound
      /\ t.dtls = s.dtls /\ t.isSending = s.isSending /\ t.inList = s.inList /\ t.proto = s.proto
      /\ t.released = s.released /\ t.app = s.app /\ t.ev = s.ev /\ t.out = s.out /\ t.fin = s.fin
    BY <1>1 DEF StrState
  <2>3. str' = t
    BY <1>2 DEF InitListener
  <2> HIDE DEF t
  <2> QED BY <2>1, <2>2, <2>3, OthersKeep
<1>3. CASE NewStream
  <2> DEFINE t == [s EXCEPT !.fut = TRUE]
  <2>1. t \in StrState
    BY ZenonT(40), <1>1 DEF StrState
  <2>2. /\ t.cb = s.cb /\ t.left = s.left /\ t.conn = s.conn /\ t.active = s.active /\ t.bound = s.bound
      /\ t.dtls = s.dtls /\ t.isSending = s.isSending /\ t.inList = s.inList /\ t.proto = s.proto
      /\ t.released = s.released /\ t.app = s.app /\ t.ev = s.ev /\ t.out = s.out /\ t.fin = s.fin
    BY <1>1 DEF StrState
  <2>3. str' = TryResolve(t)
    BY <1>3 DEF NewStream
  <2> HIDE DEF t
  <2>4. StrInv(t)
    BY <2>1, <2>2, OthersKeep
  <2>5. Served(t, TryResolve(t))
    BY <2>1, <2>4, TryResolveServes DEF StrInv, Sound
  <2> QED BY <2>3, <2>4, <2>5, ServedSound DEF StrInv
<1> QED BY <1>2, <1>3

\* A release, and what the history notes of it.
LEMMA ReleaseKeeps ==
    ASSUME NEW s, StrInv(s), NEW b \in BOOLEAN
    PROVE  /\ StrInv(NabtoRelease([s EXCEPT !.foreign = b]))
           /\ StrInv([NabtoRelease(s) EXCEPT !.foreign = b])
<1>1. ASSUME NEW r, StrInv(r)
      PROVE  StrInv([r EXCEPT !.foreign = b])
  <2> DEFINE t == [r EXCEPT !.foreign = b]
  <2>1. r \in StrState
    BY <1>1 DEF StrInv, Sound
  <2>2. t \in StrState
    BY <2>1 DEF StrState
  <2>3. /\ t.cb = r.cb /\ t.left = r.left /\ t.conn = r.conn /\ t.active = r.active /\ t.bound = r.bound
      /\ t.dtls = r.dtls /\ t.isSending = r.isSending /\ t.inList = r.inList /\ t.proto = r.proto
      /\ t.released = r.released /\ t.app = r.app /\ t.ev = r.ev /\ t.out = r.out /\ t.fin = r.fin
    BY <2>1 DEF StrState
  <2>4. StrInv(t)
    <3> HIDE DEF t
    <3> QED BY <1>1, <2>2, <2>3, OthersKeep
  <2> QED BY <2>4
<1>2. ASSUME NEW r, StrInv(r)
      PROVE  StrInv(NabtoRelease(r))
  BY <1>2, NabtoReleaseKeeps DEF StrInv
<1> QED BY <1>1, <1>2

\* nabto_device_listener_stop.
LEMMA StopListenerKeeps ==
    ASSUME StrInv(str), StopListener
    PROVE  StrInv(str')
<1>1. PICK empty \in Queues : empty = << >>
  BY EmptySeq, Zenon DEF Queues
<1> DEFINE s == str
           q == {s.queue[i] : i \in DOMAIN s.queue}
           life == [h \in Handles |-> IF h \in q THEN "freed" ELSE s.life[h]]
           t == [s EXCEPT !.listener = "stopped", !.fut = FALSE, !.queue = empty, !.life = life]
           b == NabtoRelease(t).foreign \/ q # {t.owner}
<1>2. s \in StrState
  BY DEF StrInv, Sound
<1>3. str' = t \/ str' = [NabtoRelease(t) EXCEPT !.foreign = b]
  <2>1. str' = IF q = {} THEN t ELSE [NabtoRelease(t) EXCEPT !.foreign = @ \/ q # {t.owner}]
    BY <1>1, Zenon DEF StopListener
  <2> HIDE DEF q, t
  <2> QED BY <2>1
<1>4. life \in Lives
  <2> HIDE DEF q
  <2>1. s.life \in Lives
    BY <1>2 DEF StrState
  <2> QED BY <2>1 DEF Lives
<1>5. b \in BOOLEAN
  BY Zenon
<1> HIDE DEF life, b
<1>6. t \in StrState
  BY ZenonT(40), <1>1, <1>2, <1>4 DEF StrState
<1>7. /\ t.cb = s.cb /\ t.left = s.left /\ t.conn = s.conn /\ t.active = s.active /\ t.bound = s.bound
      /\ t.dtls = s.dtls /\ t.isSending = s.isSending /\ t.inList = s.inList /\ t.proto = s.proto
      /\ t.released = s.released /\ t.app = s.app /\ t.ev = s.ev /\ t.out = s.out /\ t.fin = s.fin
  BY <1>2 DEF StrState
<1> HIDE DEF t
<1>8. StrInv(t)
  BY <1>6, <1>7, OthersKeep
<1> QED BY ZenonT(40), <1>3, <1>5, <1>8, ReleaseKeeps

\* nabto_device_stream_abort and nabto_device_stream_free.
LEMMA EndKeeps ==
    ASSUME StrInv(str), NEW h \in Handles, AbortStream(h) \/ FreeStream(h)
    PROVE  StrInv(str')
<1> DEFINE s == str
<1>1. s \in StrState /\ s.life \in Lives /\ s.aborted \in [Handles -> BOOLEAN]
  BY DEF StrInv, Sound, StrState
<1>2. CASE AbortStream(h)
  <2> DEFINE aborted == [s.aborted EXCEPT ![h] = TRUE]
             t == [s EXCEPT !.aborted = aborted]
             b == t.foreign \/ t.owner # h
  <2>1. aborted \in [Handles -> BOOLEAN]
    BY <1>1
  <2>2. str' = NabtoRelease([t EXCEPT !.foreign = b])
    BY <1>2 DEF AbortStream, Release
  <2> HIDE DEF aborted
  <2>3. t \in StrState
    BY <1>1, <2>1 DEF StrState
  <2>4. /\ t.cb = s.cb /\ t.left = s.left /\ t.conn = s.conn /\ t.active = s.active /\ t.bound = s.bound
      /\ t.dtls = s.dtls /\ t.isSending = s.isSending /\ t.inList = s.inList /\ t.proto = s.proto
      /\ t.released = s.released /\ t.app = s.app /\ t.ev = s.ev /\ t.out = s.out /\ t.fin = s.fin
    BY <1>1 DEF StrState
  <2> HIDE DEF t
  <2>5. StrInv(t) /\ b \in BOOLEAN
    BY <2>3, <2>4, OthersKeep
  <2> HIDE DEF b
  <2> QED BY ZenonT(40), <2>2, <2>5, ReleaseKeeps
<1>3. CASE FreeStream(h)
  <2> DEFINE life == [s.life EXCEPT ![h] = "freed"]
             t == [s EXCEPT !.life = life]
             b == t.foreign \/ t.owner # h
  <2>1. life \in Lives
    BY <1>1 DEF Lives
  <2>2. str' = NabtoRelease([t EXCEPT !.foreign = b])
    BY <1>3 DEF FreeStream, Release
  <2> HIDE DEF life
  <2>3. t \in StrState
    BY <1>1, <2>1 DEF StrState
  <2>4. /\ t.cb = s.cb /\ t.left = s.left /\ t.conn = s.conn /\ t.active = s.active /\ t.bound = s.bound
      /\ t.dtls = s.dtls /\ t.isSending = s.isSending /\ t.inList = s.inList /\ t.proto = s.proto
      /\ t.released = s.released /\ t.app = s.app /\ t.ev = s.ev /\ t.out = s.out /\ t.fin = s.fin
    BY <1>1 DEF StrState
  <2> HIDE DEF t
  <2>5. StrInv(t) /\ b \in BOOLEAN
    BY <2>3, <2>4, OthersKeep
  <2> HIDE DEF b
  <2> QED BY Zenon, <2>2, <2>5, ReleaseKeeps
<1> QED BY <1>2, <1>3

\* The future of an operation of a handle changes.
LEMMA FutsTyped ==
    ASSUME NEW s \in StrState, NEW h \in Handles, NEW o \in Ops, NEW x \in {"none", "pending", "done"}
    PROVE  [s.futs EXCEPT ![h][o] = x] \in Futs
<1>1. s.futs \in [Handles -> [Ops -> {"none", "pending", "done"}]]
  BY DEF StrState, Futs
<1>2. [s.futs[h] EXCEPT ![o] = x] \in [Ops -> {"none", "pending", "done"}]
  BY <1>1
<1> QED BY <1>1, <1>2 DEF Futs

\* What the operations share: the call fails, or the callback is set.
LEMMA BeginKeeps ==
    ASSUME NEW s, StrInv(s), NEW h \in Handles, NEW o \in Ops
    PROVE  /\ StrInv([s EXCEPT !.futs[h][o] = "done"])
           /\ LET t == [s EXCEPT !.cb[o] = h, !.futs[h][o] = "pending"] IN
              /\ o # "read" => Served(s, t)
              /\ \A n \in 1..2 : Served(s, [t EXCEPT !.left = n])
<1>1. s \in StrState /\ Reading(s) /\ s.cb \in Cbs
  BY DEF StrInv, Sound, StrState
<1>2. StrInv([s EXCEPT !.futs[h][o] = "done"])
  <2> DEFINE futs == [s.futs EXCEPT ![h][o] = "done"]
             t == [s EXCEPT !.futs = futs]
  <2>1. futs \in Futs
    BY ZenonT(40), <1>1, FutsTyped
  <2> HIDE DEF futs
  <2>2. t \in StrState
    BY <1>1, <2>1 DEF StrState
  <2>3. /\ t.cb = s.cb /\ t.left = s.left /\ t.conn = s.conn /\ t.active = s.active /\ t.bound = s.bound
      /\ t.dtls = s.dtls /\ t.isSending = s.isSending /\ t.inList = s.inList /\ t.proto = s.proto
      /\ t.released = s.released /\ t.app = s.app /\ t.ev = s.ev /\ t.out = s.out /\ t.fin = s.fin
    BY <1>1 DEF StrState
  <2>4. StrInv(t)
    <3> HIDE DEF t
    <3> QED BY <2>2, <2>3, OthersKeep
  <2> QED BY <2>4 DEF futs
<1> DEFINE futs == [s.futs EXCEPT ![h][o] = "pending"]
           cb == [s.cb EXCEPT ![o] = h]
           t == [s EXCEPT !.cb = cb, !.futs = futs]
<1>3. futs \in Futs
  BY ZenonT(40), <1>1, FutsTyped
<1>4. cb \in Cbs /\ (o # "read" => cb["read"] = s.cb["read"])
  BY <1>1, HandlesAssumption DEF Cbs, Handles, Ops
<1>5. [s EXCEPT !.cb[o] = h, !.futs[h][o] = "pending"] = t
  OBVIOUS
<1> HIDE DEF futs, cb
<1>6. t \in StrState
  BY ZenonT(40), <1>1, <1>3, <1>4 DEF StrState
<1>7. /\ t.cb = cb /\ t.left = s.left /\ t.conn = s.conn /\ t.active = s.active /\ t.bound = s.bound
      /\ t.dtls = s.dtls /\ t.isSending = s.isSending /\ t.inList = s.inList /\ t.proto = s.proto
      /\ t.released = s.released /\ t.app = s.app /\ t.ev = s.ev /\ t.out = s.out /\ t.fin = s.fin
  BY <1>1 DEF StrState
<1> HIDE DEF t
<1>8. ASSUME o # "read"
      PROVE  Served(s, t)
  BY <1>1, <1>4, <1>6, <1>7, <1>8 DEF Served, Reading
<1>9. ASSUME NEW n \in 1..2
      PROVE  Served(s, [t EXCEPT !.left = n])
  <2> DEFINE u == [t EXCEPT !.left = n]
  <2>1. n \in Lefts /\ n # 0
    BY DEF Lefts
  <2>2. u \in StrState
    BY <1>6, <2>1 DEF StrState
  <2>3. /\ u.left = n /\ u.conn = t.conn /\ u.active = t.active /\ u.bound = t.bound
        /\ u.dtls = t.dtls /\ u.isSending = t.isSending /\ u.inList = t.inList /\ u.proto = t.proto
        /\ u.released = t.released /\ u.app = t.app /\ u.ev = t.ev /\ u.out = t.out /\ u.fin = t.fin
    BY <1>6 DEF StrState
  <2>4. Served(s, u)
    <3> HIDE DEF u
    <3> QED BY <1>7, <2>1, <2>2, <2>3 DEF Served, Reading
  <2> QED BY <2>4
<1> QED BY <1>2, <1>5, <1>8, <1>9

\* nabto_device_stream_accept, read, write and close.
LEMMA OperationKeeps ==
    ASSUME StrInv(str), NEW h \in Handles,
           AcceptStream(h) \/ WriteStream(h) \/ CloseStream(h) \/ \E n \in 1..2 : ReadStream(h, n)
    PROVE  StrInv(str')
<1> DEFINE Begun(o) == [str EXCEPT !.cb[o] = h, !.futs[h][o] = "pending"]
<1>0. "accept" \in Ops /\ "read" \in Ops /\ "write" \in Ops /\ "close" \in Ops
  BY DEF Ops
<1>1. \A o \in Ops : StrInv([str EXCEPT !.futs[h][o] = "done"])
  BY ZenonT(40), BeginKeeps
<1>2. ASSUME NEW t, Served(str, t)
      PROVE  StrInv(t) /\ t \in StrState /\ Reading(t)
  BY <1>2, ServedSound DEF StrInv, Served
<1>3. CASE AcceptStream(h)
  <2> DEFINE t == Begun("accept")
             u == [t EXCEPT !.proto = "ACCEPTED"]
  <2>1. Served(str, t)
    BY ZenonT(40), <1>0, BeginKeeps
  <2>2. str' = [str EXCEPT !.futs[h]["accept"] = "done"] \/ str' = Post(u) \/ str' = t
    BY <1>3 DEF AcceptStream, Begin, SetCallback, NabtoAccept
  <2> HIDE DEF t
  <2>3. StrInv(t) /\ t \in StrState
    BY <1>2, <2>1
  <2>4. Kept(t, u) /\ u.proto = "ACCEPTED"
    BY <2>3, ProtoChanges DEF Protos
  <2> HIDE DEF u
  <2>5. StrInv(Post(u))
    BY <2>3, <2>4, KeptSound, PostKeeps DEF StrInv
  <2> QED BY <1>0, <1>1, <2>2, <2>3, <2>5
<1>4. CASE WriteStream(h)
  <2> DEFINE t == Begun("write")
  <2>1. Served(str, t)
    BY ZenonT(40), <1>0, BeginKeeps
  <2>2. str' = [str EXCEPT !.futs[h]["write"] = "done"] \/ str' = DoWriteAll(t)
    BY <1>4 DEF WriteStream, Begin, SetCallback
  <2> HIDE DEF t
  <2>3. Served(str, DoWriteAll(t))
    BY <1>2, <2>1, DoWriteAllServes, ServedTwice
  <2> QED BY <1>0, <1>1, <1>2, <2>2, <2>3
<1>5. CASE CloseStream(h)
  <2> DEFINE t == Begun("close")
  <2>1. Served(str, t)
    BY ZenonT(40), <1>0, BeginKeeps
  <2>2. str' = [str EXCEPT !.futs[h]["close"] = "done"] \/ str' = HandleClose(t)
    BY <1>5 DEF CloseStream, Begin, SetCallback
  <2> HIDE DEF t
  <2>3. Served(str, HandleClose(t))
    BY <1>2, <2>1, HandleCloseServes, ServedTwice
  <2> QED BY <1>0, <1>1, <1>2, <2>2, <2>3
<1>6. ASSUME NEW n \in 1..2, ReadStream(h, n)
      PROVE  StrInv(str')
  <2> DEFINE t == [Begun("read") EXCEPT !.left = n]
  <2>1. Served(str, t)
    BY ZenonT(40), <1>0, BeginKeeps
  <2>2. str' = [str EXCEPT !.futs[h]["read"] = "done"] \/ str' = DoRead(t)
    BY <1>6 DEF ReadStream, Begin, SetCallback
  <2> HIDE DEF t
  <2>3. Served(str, DoRead(t))
    BY <1>2, <2>1, DoReadServes, ServedTwice
  <2> QED BY <1>0, <1>1, <1>2, <2>2, <2>3
<1> QED BY <1>3, <1>4, <1>5, <1>6

\* Every action keeps the invariant.
LEMMA StrStep ==
    ASSUME StrInv(str), [StreamNext]_str
    PROVE  StrInv(str')
<1>1. CASE UNCHANGED str
  BY <1>1
<1>2. CASE StreamCore
  BY <1>2, StreamEventKeeps, StreamTimeoutKeeps DEF StreamCore
<1>3. CASE StreamNet
  <2>1. CASE Syn
    <3>1. str' = [str EXCEPT !.rst = TRUE] \/ str' = Event(Accepted(str))
      BY <2>1, Zenon DEF Syn, SendRst
    <3>2. StrInv(Event(Accepted(str)))
      BY <2>1, SynKeeps DEF Syn
    <3> QED BY ZenonT(40), <3>1, <3>2, RstKeeps
  <2>2. CASE StrayPacket \/ RstSent
    BY ZenonT(40), <2>2, RstKeeps DEF StrayPacket, RstSent, SendRst
  <2>3. CASE StreamSent
    BY <2>3, SendCallbackKeeps DEF StreamSent, StrInv
  <2>4. ASSUME NEW kind, StreamPacket(kind)
        PROVE  StrInv(str')
    <3> DEFINE t == NabtoPacket(str, kind)
    <3>1. Kept(str, t) /\ t.proto # "SYN_RCVD"
      BY PacketKeeps DEF StrInv, Sound
    <3>2. str' = Event(t)
      BY <2>4 DEF StreamPacket
    <3> HIDE DEF t
    <3> QED BY <3>1, <3>2, KeptSound, EventKeeps DEF StrInv
  <2>5. CASE ConnectionCloses
    BY ZenonT(40), <2>5, ConnKeeps DEF ConnectionCloses
  <2>6. CASE ConnectionDestroyed
    BY <2>6, ConnectionDestroyedKeeps
  <2>7. CASE Reconnect
    BY ZenonT(40), <2>7, ConnKeeps DEF Reconnect, StrInv, Sound
  <2> QED BY <1>3, <2>1, <2>2, <2>3, <2>4, <2>5, <2>6, <2>7 DEF StreamNet
<1>4. CASE StreamApplication
  BY <1>4, ListenerKeeps, StopListenerKeeps, EndKeeps, OperationKeeps DEF StreamApplication
<1> QED BY <1>1, <1>2, <1>3, <1>4 DEF StreamNext

\* A stream with something to do has an event or a send under way, whatever the order in which
\* packets, timers, the connection and the application call nc_stream.c, for any number of
\* handles.
THEOREM StreamsAlwaysWake == StreamInit /\ [][StreamNext]_str => []StreamWakeup
<1> DEFINE Inv == StrInv(str)
<1>1. StreamInit => Inv
  <2> SUFFICES ASSUME StreamInit PROVE StrInv(str)
    OBVIOUS
  <2>1. PICK none \in SUBSET AppEvents : none = {}
    BY Zenon
  <2>2. PICK zero \in 0..MaxHandles : zero = 0
    BY HandlesAssumption
  <2>3. PICK left \in Lefts : left = 0
    BY DEF Lefts
  <2>4. PICK queue \in Queues : queue = << >>
    BY EmptySeq, Zenon DEF Queues
  <2> DEFINE cb == [o \in Ops |-> 0]
             life == [h \in Handles |-> "none"]
             futs == [h \in Handles |-> [o \in Ops |-> "none"]]
             aborted == [h \in Handles |-> FALSE]
  <2>5. cb \in Cbs /\ cb["read"] = 0
    BY <2>2 DEF Cbs, Ops
  <2>6. life \in Lives /\ futs \in Futs /\ aborted \in [Handles -> BOOLEAN]
    BY DEF Lives, Futs
  <2> HIDE DEF cb, life, futs, aborted
  <2>7. str = [conn |-> "open", active |-> FALSE, bound |-> FALSE, dtls |-> FALSE,
               proto |-> "CLOSED", released |-> TRUE, app |-> none, data |-> FALSE, eof |-> FALSE,
               out |-> "none", fin |-> "none", ev |-> FALSE, timer |-> FALSE,
               isSending |-> FALSE, sendType |-> "none", inList |-> FALSE, left |-> left,
               cb |-> cb, rst |-> FALSE, listener |-> "none", queue |-> queue, fut |-> FALSE,
               life |-> life, futs |-> futs, aborted |-> aborted, owner |-> zero, foreign |-> FALSE]
    BY <2>1, <2>2, <2>3, <2>4, Zenon DEF StreamInit, cb, life, futs, aborted
  <2>8. "CLOSED" \in Protos
    BY DEF Protos
  <2>9. str \in StrState
    BY <2>5, <2>6, <2>7, <2>8 DEF StrState
  <2>10. str.active = FALSE /\ str.dtls = FALSE /\ str.cb = cb /\ str.proto = "CLOSED"
    BY <2>7
  <2> QED BY <2>5, <2>9, <2>10 DEF StrInv, Sound, Reading, Due
<1>2. Inv /\ [StreamNext]_str => Inv'
  BY StrStep
<1>3. Inv => StreamWakeup
  <2> SUFFICES ASSUME StrInv(str) PROVE StreamWakeup
    OBVIOUS
  <2>1. str \in StrState
    BY DEF StrInv, Sound
  <2>2. StreamTypeOK
    BY <2>1, Zenon DEF StrState, StreamTypeOK, Protos, Lefts, Cbs, Queues, Lives, Futs
  <2> QED BY <2>2 DEF StreamWakeup, StrInv, Due
<1> HIDE DEF Inv
<1> QED BY <1>1, <1>2, <1>3, PTL

-----------------------------------------------------------------------------
(* Services *)

\* Every behaviour of Services is, for each of the four, one of the component.
LEMMA ServicesRun ==
    Init /\ [][Next]_vars =>
      /\ ListenersInit /\ [][ListenersNext]_lis
      /\ TunnelInit /\ [][TunnelNext]_tun
      /\ CoapServerInit /\ [][CoapServerNext]_srv
      /\ StreamInit /\ [][StreamNext]_str
<1>1. Init => ListenersInit /\ TunnelInit /\ CoapServerInit /\ StreamInit
  BY Zenon DEF Init
<1>2. [Next]_vars => [ListenersNext]_lis /\ [TunnelNext]_tun
  BY Zenon DEF Next, vars
<1>3. [Next]_vars => [CoapServerNext]_srv /\ [StreamNext]_str
  BY Zenon DEF Next, vars
<1> QED BY <1>1, <1>2, <1>3, PTL

\* The application is given the events of a listener in the order in which they happened, each once
\* (nabto_device_listener_add_event, nabto_device_listener_try_resolve).
THEOREM ListenersInOrder == Spec => []EventsInOrder
BY ServicesRun, EventsAlwaysInOrder, PTL DEF Spec

\* No callback of the stream is outstanding when a tunnel connection is freed, and a connection belongs to
\* the service that access was granted to (nm_tcp_tunnel.c, nm_tcp_tunnel_connection.c).
THEOREM TunnelsSafe == Spec => []TunnelSafe
BY ServicesRun, TunnelAlwaysSafe, PTL DEF Spec

\* A request never waits in the queue of a listener whose future waits for it, and a response that is
\* ready has an event or a datagram on its way that will send it (nc_coap_server.c).
THEOREM CoapServerWakes == Spec => []CoapWakeup
BY ServicesRun, CoapAlwaysWakes, PTL DEF Spec

\* A stream with something to do has an event or a send under way: no handler of nc_stream.c returns with
\* work left and nobody to take it up, but for a packet that a closing connection refused.
THEOREM StreamsWake == Spec => []StreamWakeup
BY ServicesRun, StreamsAlwaysWake, PTL DEF Spec
=============================================================================
