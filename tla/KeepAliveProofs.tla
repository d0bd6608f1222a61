-------------------------- MODULE KeepAliveProofs ---------------------------
(* The safety properties of KeepAlive for every setting and every modulus.  *)
EXTENDS KeepAlive, TLAPS

\* What a leaf is tried with, in this order, unless it names a prover of its own.
USE SMTT(30), Zenon, SMTT(60)

\* lostKeepAlives counts the events of the connection that saw no traffic both
\* ways, and the requests among them are those beyond n.
EventsCounted ==
    /\ conn = "setup" => ka.lostKeepAlives = 0
    /\ conn = "up" =>
          /\ seen.events = ka.lostKeepAlives
          /\ ka.lostKeepAlives <= ka.maxRetries + ka.n + 1
          /\ ka.lostKeepAlives <= ka.n => seen.probes = 0
          /\ ka.lostKeepAlives > ka.n =>
                seen.blocked \/ seen.probes + ka.n = ka.lostKeepAlives

\* As long as no counter wraps, the counters show the traffic.
TrafficCounted ==
    ~Wraps => /\ ka.lastRecvCount <= recvCount
              /\ ka.lastSentCount <= sentCount
              /\ seen.got => ka.lastRecvCount < recvCount
              /\ seen.put => ka.lastSentCount < sentCount

IInv == TypeOK /\ BufferOwned /\ EventsCounted /\ TrafficCounted

\* n of a setting is a number.
LEMMA NIsNat == \A s \in Setting : N(s) \in Nat
  BY DEF Setting, N

\* A counter stays below the modulus.
LEMMA IncrementType ==
    ASSUME NEW x \in 0..(Modulus - 1)
    PROVE  /\ Increment(x) \in 0..(Modulus - 1)
           /\ x + 1 < Modulus => Increment(x) = x + 1
  BY ModulusAssumption DEF Increment

\* The history of a fresh connection.
LEMMA NothingSeenType == NothingSeen \in History
  BY DEF NothingSeen, History

\* Counting an event without traffic, and a request, keeps the types.
LEMMA CountType ==
    ASSUME TypeOK
    PROVE  /\ ka.lostKeepAlives + 1 \in Nat
           /\ seen.events + 1 \in Nat
           /\ seen.probes + 1 \in Nat
           /\ \A l \in Nat, b \in BOOLEAN :
                 [ka EXCEPT !.lostKeepAlives = l, !.isSending = b] \in Context
           /\ \A l \in Nat : [ka EXCEPT !.lostKeepAlives = l] \in Context
           /\ \A e, p \in Nat : [seen EXCEPT !.events = e, !.probes = p] \in History
           /\ \A e \in Nat, b \in BOOLEAN :
                 [seen EXCEPT !.events = e, !.blocked = b] \in History
  <1>1. /\ ka.lostKeepAlives + 1 \in Nat
        /\ seen.events + 1 \in Nat
        /\ seen.probes + 1 \in Nat
    BY DEF TypeOK, Context, History
  <1>2. \A l \in Nat, b \in BOOLEAN :
           [ka EXCEPT !.lostKeepAlives = l, !.isSending = b] \in Context
    BY Zenon DEF TypeOK, Context
  <1>3. \A l \in Nat : [ka EXCEPT !.lostKeepAlives = l] \in Context
    BY DEF TypeOK, Context
  <1>4. \A e, p \in Nat : [seen EXCEPT !.events = e, !.probes = p] \in History
    BY Zenon DEF TypeOK, History
  <1>5. \A e \in Nat, b \in BOOLEAN :
           [seen EXCEPT !.events = e, !.blocked = b] \in History
    BY Zenon DEF TypeOK, History
  <1> QED
    BY Zenon, <1>1, <1>2, <1>3, <1>4, <1>5

\* nc_keep_alive_init establishes the invariant.
LEMMA InitIInv == Init => IInv
  <1> SUFFICES ASSUME Init PROVE IInv
    OBVIOUS
  <1>1. N(Default) \in Nat
    BY SettingsAssumption, NIsNat
  <1>2. TypeOK
    <2>1. ka \in Context
      BY <1>1, SettingsAssumption DEF Init, Setting, Context
    <2>2. seen \in History
      BY NothingSeenType DEF Init
    <2>3. 0 \in 0..(Modulus - 1)
      BY ModulusAssumption
    <2> QED
      BY Zenon, <2>1, <2>2, <2>3 DEF Init, TypeOK
  <1>3. BufferOwned
    BY Zenon DEF Init, BufferOwned
  <1>4. EventsCounted /\ TrafficCounted
    BY DEF Init, EventsCounted, TrafficCounted, NothingSeen
  <1> QED
    BY <1>2, <1>3, <1>4 DEF IInv

\* Every step keeps the invariant.
LEMMA NextIInv == IInv /\ [Next]_vars => IInv'
  <1> SUFFICES ASSUME IInv, [Next]_vars PROVE IInv'
    OBVIOUS
  <1>1. CASE SetSettings
    <2>1. PICK s \in Settings :
             ka' = [ka EXCEPT !.interval = s.interval,
                              !.retryInterval = s.retryInterval,
                              !.maxRetries = s.maxRetries, !.n = N(s)]
      BY Zenon, <1>1 DEF SetSettings
    <2>2. s \in Setting /\ N(s) \in Nat
      BY <2>1, SettingsAssumption, NIsNat
    <2> QED
      BY Zenon, <1>1, <2>1, <2>2
      DEF IInv, TypeOK, Context, History, BufferOwned, EventsCounted, TrafficCounted,
                                SetSettings, Setting
  <1>2. CASE Start
    <2>1. TypeOK'
      BY Zenon, <1>2 DEF IInv, TypeOK, Context, History, Start
    <2>2. BufferOwned'
      BY <1>2 DEF IInv, TypeOK, Context, History, BufferOwned, Start
    <2>3. EventsCounted'
      BY <1>2 DEF IInv, TypeOK, Context, History, EventsCounted, Start
    <2>4. TrafficCounted'
      BY <1>2 DEF IInv, TypeOK, Context, History, TrafficCounted, Start
    <2> QED
      BY <2>1, <2>2, <2>3, <2>4 DEF IInv
  <1>3. CASE Alive
    <2>1. TypeOK'
      <3>1. recvCount \in Nat /\ sentCount \in Nat
        BY ModulusAssumption DEF IInv, TypeOK
      <3>2. ka' \in Context
        BY Zenon, <1>3, <3>1 DEF IInv, TypeOK, Context, Alive
      <3> QED
        BY <1>3, <3>2, NothingSeenType DEF IInv, TypeOK, Alive
    <2>2. BufferOwned'
      BY <1>3 DEF IInv, TypeOK, Context, History, BufferOwned, Alive, NothingSeen
    <2>3. EventsCounted'
      BY <1>3
      DEF IInv, TypeOK, Context, History, EventsCounted, Alive, ShouldSend, NothingSeen
    <2>4. TrafficCounted'
      BY <1>3 DEF IInv, TypeOK, Context, History, TrafficCounted, Alive, NothingSeen
    <2> QED
      BY <2>1, <2>2, <2>3, <2>4 DEF IInv
  <1>4. CASE WaitAgain
    <2>1. TypeOK'
      <3>1. (seen.blocked \/ (ka.isSending /\ ka.lostKeepAlives + 1 > ka.n)) \in BOOLEAN
        OBVIOUS
      <3>2. ka' \in Context /\ seen' \in History
        BY Zenon, <1>4, <3>1, CountType DEF IInv, WaitAgain
      <3> QED
        BY <1>4, <3>2 DEF IInv, TypeOK, WaitAgain
    <2>2. BufferOwned'
      BY <1>4 DEF IInv, TypeOK, Context, History, BufferOwned, WaitAgain
    <2>3. EventsCounted'
      BY <1>4 DEF IInv, TypeOK, Context, History, EventsCounted, WaitAgain, ShouldSend
    <2>4. TrafficCounted'
      BY <1>4 DEF IInv, TypeOK, Context, History, TrafficCounted, WaitAgain
    <2> QED
      BY <2>1, <2>2, <2>3, <2>4 DEF IInv
  <1>5. CASE SendRequest
    <2>1. TypeOK'
      <3>1. ka' \in Context /\ seen' \in History
        BY Zenon, <1>5, CountType DEF IInv, SendRequest
      <3> QED
        BY <1>5, <3>1 DEF IInv, TypeOK, SendRequest
    <2>2. BufferOwned'
      BY <1>5 DEF IInv, TypeOK, Context, History, BufferOwned, SendRequest
    <2>3. EventsCounted'
      BY <1>5 DEF IInv, TypeOK, Context, History, EventsCounted, SendRequest, ShouldSend
    <2>4. TrafficCounted'
      BY <1>5 DEF IInv, TypeOK, Context, History, TrafficCounted, SendRequest
    <2> QED
      BY <2>1, <2>2, <2>3, <2>4 DEF IInv
  <1>6. CASE TimeOut
    <2>1. TypeOK'
      BY <1>6 DEF IInv, TypeOK, Context, History, TimeOut
    <2>2. BufferOwned'
      BY <1>6 DEF IInv, TypeOK, Context, History, BufferOwned, TimeOut
    <2>3. EventsCounted'
      BY <1>6 DEF IInv, TypeOK, Context, History, EventsCounted, TimeOut
    <2>4. TrafficCounted'
      BY <1>6 DEF IInv, TypeOK, Context, History, TrafficCounted, TimeOut
    <2> QED
      BY <2>1, <2>2, <2>3, <2>4 DEF IInv
  <1>7. CASE Receive
    <2>1. TypeOK'
      BY ZenonT(40), <1>7, IncrementType DEF IInv, TypeOK, Context, History, Receive, MayCount, Open
    <2>2. BufferOwned'
      BY Zenon, <1>7, IncrementType
      DEF IInv, TypeOK, Context, History, BufferOwned, Receive, MayCount, Open
    <2>3. EventsCounted'
      BY <1>7, IncrementType
      DEF IInv, TypeOK, Context, History, EventsCounted, Receive, MayCount, Open
    <2>4. TrafficCounted'
      BY <1>7, IncrementType
      DEF IInv, TypeOK, Context, History, TrafficCounted, Receive, MayCount, Open
    <2> QED
      BY <2>1, <2>2, <2>3, <2>4 DEF IInv
  <1>8. CASE SendOther
    <2>1. TypeOK'
      BY Zenon, <1>8, IncrementType
      DEF IInv, TypeOK, Context, History, SendOther, MayCount, Open
    <2>2. BufferOwned'
      BY <1>8, IncrementType
      DEF IInv, TypeOK, Context, History, BufferOwned, SendOther, MayCount, Open
    <2>3. EventsCounted'
      BY <1>8, IncrementType
      DEF IInv, TypeOK, Context, History, EventsCounted, SendOther, MayCount, Open
    <2>4. TrafficCounted'
      BY <1>8, IncrementType
      DEF IInv, TypeOK, Context, History, TrafficCounted, SendOther, MayCount, Open
    <2> QED
      BY <2>1, <2>2, <2>3, <2>4 DEF IInv
  <1>9. CASE SendQueued
    <2>1. TypeOK'
      BY Zenon, <1>9, IncrementType
      DEF IInv, TypeOK, Context, History, SendQueued, MayCount, Open
    <2>2. BufferOwned'
      BY Zenon, <1>9, IncrementType
      DEF IInv, TypeOK, Context, History, BufferOwned, SendQueued, MayCount, Open
    <2>3. EventsCounted'
      BY <1>9, IncrementType
      DEF IInv, TypeOK, Context, History, EventsCounted, SendQueued, MayCount, Open
    <2>4. TrafficCounted'
      BY <1>9, IncrementType
      DEF IInv, TypeOK, Context, History, TrafficCounted, SendQueued, MayCount, Open
    <2> QED
      BY <2>1, <2>2, <2>3, <2>4 DEF IInv
  <1>10. CASE Reset
    <2>1. TypeOK'
      BY ZenonT(40), <1>10, SettingsAssumption
      DEF IInv, TypeOK, Context, History, Reset, NothingSeen, Setting
    <2>2. BufferOwned'
      BY Zenon, <1>10, SettingsAssumption
      DEF IInv, TypeOK, Context, History, BufferOwned, Reset, NothingSeen, Setting
    <2>3. EventsCounted'
      BY <1>10, SettingsAssumption
      DEF IInv, TypeOK, Context, History, EventsCounted, Reset, NothingSeen, Setting
    <2>4. TrafficCounted'
      BY <1>10, SettingsAssumption
      DEF IInv, TypeOK, Context, History, TrafficCounted, Reset, NothingSeen, Setting
    <2> QED
      BY <2>1, <2>2, <2>3, <2>4 DEF IInv
  <1>11. CASE UNCHANGED vars
    BY <1>11 DEF IInv, TypeOK, BufferOwned, EventsCounted, TrafficCounted, vars
  <1> QED
    BY <1>1, <1>2, <1>3, <1>4, <1>5, <1>6, <1>7, <1>8, <1>9, <1>10, <1>11
    DEF Next, Event

\* The invariant of keep alive.
THEOREM KeepAliveInvariance == Spec => []IInv
  BY InitIInv, NextIInv, PTL DEF Spec

\* The types of struct nc_keep_alive_context and of the counters.
THEOREM KeepAliveTypes == Spec => []TypeOK
  BY KeepAliveInvariance, PTL DEF IInv

\* nc_keep_alive_create_request and nc_keep_alive_handle_request never
\* overwrite a packet in the send list, and isSending is never left set.
THEOREM OneBuffer == Spec => []BufferOwned
  BY KeepAliveInvariance, PTL DEF IInv

\* Both together: the buffer and the types.
THEOREM BufferAndTypes == Spec => []BufferKept
  BY KeepAliveTypes, OneBuffer, PTL DEF BufferKept

\* Only the KA_TIMEOUT case of keep_alive_event times a connection out.
LEMMA OnlyTimeOut ==
    ASSUME [Next]_vars, conn = "up", conn' = "timedOut"
    PROVE  TimeOut
  BY DEF Next, Event, vars, SetSettings, Start, Alive, WaitAgain, SendRequest,
         Receive, SendOther, SendQueued, Reset

\* A connection is closed only after n + kaMaxRetries + 1 events without
\* traffic both ways, all on this connection.
THEOREM SilenceBeforeTimeout == Spec => TimeoutAfterSilence
  <1>1. IInv /\ [Next]_vars =>
           [conn = "up" /\ conn' = "timedOut"
               => seen.events = ka.n + ka.maxRetries + 1]_vars
    BY OnlyTimeOut
    DEF IInv, TypeOK, Context, History, EventsCounted, TimeOut, ShouldSend
  <1> QED
    BY <1>1, KeepAliveInvariance, PTL DEF Spec, TimeoutAfterSilence

\* ... and after kaMaxRetries + 1 keep alive requests or a blocked buffer.
THEOREM RequestsBeforeTimeout == Spec => ProbedFirst
  <1>1. IInv /\ [Next]_vars =>
           [conn = "up" /\ conn' = "timedOut"
               => seen.probes = ka.maxRetries + 1 \/ seen.blocked]_vars
    BY OnlyTimeOut
    DEF IInv, TypeOK, Context, History, EventsCounted, TimeOut, ShouldSend
  <1> QED
    BY <1>1, KeepAliveInvariance, PTL DEF Spec, ProbedFirst

\* Both together: no connection is given up without the silence and the requests.
THEOREM TimeoutIsJustified == Spec => TimeoutJustified
  BY SilenceBeforeTimeout, RequestsBeforeTimeout DEF TimeoutJustified

\* As long as no counter wraps, a peer that was heard on a connection that was
\* sent on is not timed out.
THEOREM ActiveIsKept ==
    ASSUME ~Wraps
    PROVE  Spec => ActivePeerKept
  <1>1. IInv /\ [Next]_vars =>
           [conn = "up" /\ conn' = "timedOut" => ~(seen.got /\ seen.put)]_vars
    BY OnlyTimeOut
    DEF IInv, TypeOK, Context, History, TrafficCounted, TimeOut, ShouldSend
  <1> QED
    BY <1>1, KeepAliveInvariance, PTL DEF Spec, ActivePeerKept
=============================================================================
