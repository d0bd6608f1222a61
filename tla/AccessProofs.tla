---------------------------- MODULE AccessProofs ----------------------------
(***************************************************************************)
(* Proofs about who may do what: a connection makes no more password       *)
(* attempts than it is allowed, a device is started as it was configured,  *)
(* and (with module IamProofs) policies mean what they say and the users   *)
(* of the TCP tunnel application survive a restart; each for every value   *)
(* of the constants. A component has an invariant of its own (PwdInv,      *)
(* ApiInv, IamInv) on its state record; the theorems at the end are on the *)
(* specification of Access, in which a component moves only by its own     *)
(* next-state relation.                                                    *)
(***************************************************************************)
EXTENDS Access, IamProofs

\* What a leaf is tried with, in this order, unless it names a prover of its own.
USE SMTT(30), Zenon, SMTT(60)

-----------------------------------------------------------------------------
(* Password *)

\* The types of a request and of the connection.
PwdReq ==
    [of: 0..MaxConnections, by: 0..MaxConnections,
     at: {"none", "listed", "app", "handled", "gone"}, answer: Answers, same: BOOLEAN]

PwdState ==
    [conn : 0..MaxConnections, opened : 0..MaxConnections, attempts : 0..(MaxAttempts + 1),
     key : {0} \cup PasswordRequests, handler : BOOLEAN, fut : BOOLEAN, queue : Seq(PasswordRequests),
     req : [PasswordRequests -> PwdReq], proven : Nat, authenticated : SUBSET (1..MaxConnections)]

\* The answers to an exchange that was let through to the application.
Passed == {"pending", "2.01", "5.00"}

\* A request belongs to the connection in the slot or to one that had it before; what the application
\* or its queue has was let through.
PwdReqs(p) ==
    /\ \A r \in PasswordRequests :
         /\ p.req[r].of # 0 => p.req[r].of = p.conn /\ p.req[r].by = p.conn
         /\ p.req[r].by <= p.opened
         /\ p.req[r].at \in {"listed", "app", "handled"} => p.req[r].answer \in Passed
         /\ p.req[r].at = "none" => p.req[r].answer \notin Passed
    /\ \A i \in 1..Len(p.queue) : p.req[p.queue[i]].answer \in Passed

\* An exchange of the connection in the slot was let through.
Exchanged(p) == \E r \in PasswordRequests : p.req[r].by = p.conn /\ p.req[r].answer \in Passed

\* Every comparison, and the first exchange that was let through, has an attempt of its own.
PwdCount(p) ==
    p.conn # 0 => /\ p.proven <= p.attempts /\ p.proven <= MaxAttempts
                  /\ Exchanged(p) => p.proven + 1 <= p.attempts /\ p.proven + 1 <= MaxAttempts

\* The key is that of an exchange of this connection.
PwdKey(p) == p.conn # 0 /\ p.key # 0 => p.req[p.key].by = p.conn /\ p.req[p.key].answer \in Passed

\* The invariant.
PwdInv(p) ==
    /\ p \in PwdState /\ p.conn <= p.opened
    /\ PwdReqs(p) /\ PwdKey(p) /\ PwdCount(p)

\* A step that opens no exchange and counts nothing.
LEMMA SameExchanges ==
    ASSUME NEW p, PwdInv(p), NEW t \in PwdState,
           t.conn = p.conn, t.opened = p.opened, t.attempts = p.attempts, t.proven = p.proven,
           \A r \in PasswordRequests : t.req[r].by = p.req[r].by /\ (t.req[r].answer \in Passed <=> p.req[r].answer \in Passed),
           PwdReqs(t), PwdKey(t)
    PROVE  PwdInv(t)
<1>1. Exchanged(t) <=> Exchanged(p)
  BY DEF Exchanged
<1>2. PwdCount(t)
  BY <1>1 DEF PwdInv, PwdCount
<1> QED BY <1>2 DEF PwdInv

\* The first of the queue goes to the future that waits.
LEMMA PasswordTryResolveKeeps ==
    ASSUME NEW p, PwdInv(p)
    PROVE  PwdInv(PasswordTryResolve(p))
<1>1. CASE ~p.fut \/ p.queue = << >>
  BY <1>1 DEF PasswordTryResolve
<1>2. CASE ~(~p.fut \/ p.queue = << >>)
  <2> DEFINE r == Head(p.queue)
             tail == Tail(p.queue)
             q == [p.req[r] EXCEPT !.at = "app"]
             f == [p.req EXCEPT ![r] = q]
             t == [p EXCEPT !.fut = FALSE, !.queue = tail, !.req = f]
  <2>1. p \in PwdState /\ p.queue \in Seq(PasswordRequests) /\ p.req \in [PasswordRequests -> PwdReq]
        /\ p.key \in {0} \cup PasswordRequests
    BY DEF PwdInv, PwdState
  <2>2. PasswordTryResolve(p) = t
    BY <1>2, <2>1 DEF PasswordTryResolve, PwdState
  <2>3. /\ r = p.queue[1] /\ 1 \in 1..Len(p.queue) /\ r \in PasswordRequests /\ tail \in Seq(PasswordRequests)
        /\ \A i \in 1..Len(tail) : tail[i] = p.queue[i + 1] /\ i + 1 \in 1..Len(p.queue) /\ tail[i] \in PasswordRequests
    BY <1>2, <2>1
  <2> HIDE DEF r, tail
  <2>4. p.req[r] \in PwdReq /\ p.req[r].answer \in Passed
    BY <2>1, <2>3 DEF PwdInv, PwdReqs
  <2>5. q \in PwdReq /\ q.of = p.req[r].of /\ q.by = p.req[r].by /\ q.answer = p.req[r].answer /\ q.at = "app"
    BY <2>4 DEF PwdReq
  <2> HIDE DEF q
  <2>6. f \in [PasswordRequests -> PwdReq] /\ f[r] = q /\ \A o \in PasswordRequests : o # r => f[o] = p.req[o]
    BY <2>1, <2>3, <2>5
  <2> HIDE DEF f
  <2>7. t \in PwdState
    BY ZenonT(40), <2>1, <2>3, <2>6 DEF PwdState
  <2>8. /\ t.conn = p.conn /\ t.opened = p.opened /\ t.attempts = p.attempts /\ t.key = p.key /\ t.queue = tail
        /\ t.req = f /\ t.proven = p.proven
    BY <2>1 DEF PwdState
  <2> HIDE DEF t
  <2>9. \A o \in PasswordRequests : f[o].of = p.req[o].of /\ f[o].by = p.req[o].by /\ f[o].answer = p.req[o].answer
    BY Zenon, <2>5, <2>6
  <2>10. PwdReqs(t)
    <3>1. PwdReqs(p)
      BY DEF PwdInv
    <3>2. \A i \in 1..Len(tail) : f[tail[i]].answer \in Passed
      BY ONLY <2>3, <2>9, <3>1 DEF PwdReqs
    <3>3. \A o \in PasswordRequests : o # r => f[o].at = p.req[o].at
      BY ONLY <2>6
    <3>4. \A o \in PasswordRequests :
             /\ f[o].at \in {"listed", "app", "handled"} => f[o].answer \in Passed
             /\ f[o].at = "none" => f[o].answer \notin Passed
      BY ONLY ZenonT(40), <2>4, <2>5, <2>6, <2>9, <3>1, <3>3 DEF PwdReqs
    <3>5. \A o \in PasswordRequests : (f[o].of # 0 => f[o].of = p.conn /\ f[o].by = p.conn) /\ f[o].by <= p.opened
      BY ONLY ZenonT(40), <2>9, <3>1 DEF PwdReqs
    <3> QED BY ONLY <2>8, <3>2, <3>4, <3>5 DEF PwdReqs
  <2>11. PwdKey(t)
    BY <2>1, <2>8, <2>9 DEF PwdInv, PwdKey
  <2> QED BY <2>2, <2>7, <2>8, <2>9, <2>10, <2>11, SameExchanges
<1> QED BY <1>1, <1>2

\* The answer of the application: the key is that of the request, if its connection is still there.
LEMMA PasswordReadyKeeps ==
    ASSUME NEW p, PwdInv(p), NEW r \in PasswordRequests, p.req[r].at = "app",
           NEW same \in BOOLEAN, NEW works \in BOOLEAN
    PROVE  PwdInv(PasswordReady(p, r, same, works))
<1>1. p \in PwdState /\ p.req \in [PasswordRequests -> PwdReq] /\ p.req[r] \in PwdReq
      /\ p.key \in {0} \cup PasswordRequests
  BY DEF PwdInv, PwdState
<1>2. p.req[r].answer \in Passed
  BY DEF PwdInv, PwdReqs
<1> DEFINE gone == p.req[r].of = 0
           key == IF gone THEN p.key ELSE IF works \/ p.key # 0 THEN r ELSE 0
           answer == IF ~gone /\ works THEN "2.01" ELSE "5.00"
           s == IF gone THEN p.req[r].same ELSE same /\ works
           q == [p.req[r] EXCEPT !.answer = answer, !.at = "handled", !.same = s]
           f == [p.req EXCEPT ![r] = q]
           t == [p EXCEPT !.key = key, !.req = f]
<1>3. PasswordReady(p, r, same, works) = t
  <2>1. CASE gone
    <3> DEFINE g == [p.req EXCEPT ![r].answer = "5.00", ![r].at = "handled"]
    <3>1. PasswordReady(p, r, same, works) = [p EXCEPT !.req = g]
      BY Zenon, <2>1 DEF PasswordReady
    <3>2. g = f
      BY <1>1, <2>1 DEF PwdReq
    <3>3. key = p.key
      BY <2>1
    <3> HIDE DEF g, f, key
    <3> QED BY ZenonT(40), <1>1, <3>1, <3>2, <3>3 DEF PwdState
  <2>2. CASE ~gone
    <3> DEFINE g == [p.req EXCEPT ![r].same = same /\ works, ![r].answer = answer, ![r].at = "handled"]
    <3>1. PasswordReady(p, r, same, works) = [p EXCEPT !.key = key, !.req = g]
      BY ZenonT(40), <1>1, <2>2 DEF PasswordReady, CalculateKey, PwdState
    <3>2. g = f
      BY <1>1, <2>2 DEF PwdReq
    <3> HIDE DEF g, f, key
    <3> QED BY <3>1, <3>2
  <2> QED BY <2>1, <2>2
<1>4. /\ key \in {0} \cup PasswordRequests /\ answer \in Passed /\ answer \in Answers /\ s \in BOOLEAN
      /\ (key = p.key \/ key = 0 \/ (key = r /\ p.req[r].of # 0))
  BY <1>1 DEF Passed, Answers, PwdReq
<1> HIDE DEF key, answer, s
<1>5. q \in PwdReq /\ q.of = p.req[r].of /\ q.by = p.req[r].by /\ q.answer = answer /\ q.at = "handled"
  BY Zenon, <1>1, <1>4 DEF PwdReq
<1> HIDE DEF q
<1>6. f \in [PasswordRequests -> PwdReq] /\ f[r] = q /\ \A o \in PasswordRequests : o # r => f[o] = p.req[o]
  BY <1>1, <1>5
<1> HIDE DEF f
<1>7. t \in PwdState
  BY ZenonT(40), <1>1, <1>4, <1>6 DEF PwdState
<1>8. /\ t.conn = p.conn /\ t.opened = p.opened /\ t.attempts = p.attempts /\ t.key = key /\ t.queue = p.queue
      /\ t.req = f /\ t.proven = p.proven
  BY <1>1 DEF PwdState
<1> HIDE DEF t
<1>9. \A o \in PasswordRequests : /\ f[o].of = p.req[o].of /\ f[o].by = p.req[o].by
                                  /\ f[o].answer \in Passed <=> p.req[o].answer \in Passed
  BY ZenonT(40), <1>2, <1>4, <1>5, <1>6
<1>10. PwdReqs(t)
  <2>1. \A i \in 1..Len(p.queue) : p.queue[i] \in PasswordRequests
    BY <1>1, ElementOfSeq DEF PwdState
  <2> QED BY <1>4, <1>5, <1>6, <1>8, <1>9, <2>1 DEF PwdInv, PwdReqs
<1>11. PwdKey(t)
  <2>1. p.req[r].of # 0 => p.req[r].by = p.conn
    BY DEF PwdInv, PwdReqs
  <2> QED BY <1>1, <1>2, <1>4, <1>8, <1>9, <2>1 DEF PwdInv, PwdKey
<1> QED BY <1>3, <1>7, <1>8, <1>9, <1>10, <1>11, SameExchanges

\* A request that is counted, and let through or refused, with its connection as its own.
LEMMA HandleCoap1Keeps ==
    ASSUME PwdInv(pwd), NEW r \in PasswordRequests, NEW readable \in BOOLEAN, NEW memory \in BOOLEAN,
           HandleCoap1(r, readable, memory)
    PROVE  PwdInv(pwd')
<1>1. /\ pwd \in PwdState /\ pwd.req \in [PasswordRequests -> PwdReq] /\ pwd.req[r] \in PwdReq
      /\ pwd.conn \in 0..MaxConnections /\ pwd.opened \in 0..MaxConnections /\ pwd.attempts \in 0..(MaxAttempts + 1)
      /\ pwd.proven \in Nat /\ pwd.queue \in Seq(PasswordRequests) /\ pwd.key \in {0} \cup PasswordRequests
  BY DEF PwdInv, PwdState
<1>2. pwd.conn # 0
  BY DEF HandleCoap1
<1> DEFINE n == IF pwd.attempts > MaxAttempts THEN pwd.attempts ELSE pwd.attempts + 1
           answer == IF ~pwd.handler THEN "4.04" ELSE IF n > MaxAttempts THEN "4.29"
                     ELSE IF ~readable THEN "4.00" ELSE "pending"
           at == IF answer = "pending" /\ memory THEN "listed" ELSE "gone"
           q == [pwd.req[r] EXCEPT !.of = pwd.conn, !.by = pwd.conn, !.at = at, !.answer = answer]
           f == [pwd.req EXCEPT ![r] = q]
           queue == IF at = "listed" THEN Append(pwd.queue, r) ELSE pwd.queue
           t == [pwd EXCEPT !.attempts = n, !.req = f, !.queue = queue]
<1>3. pwd' = IF at = "listed" THEN PasswordTryResolve(t) ELSE t
  <2> DEFINE p == [Counted(pwd) EXCEPT !.req[r] =
                    [@ EXCEPT !.of = pwd.conn, !.by = pwd.conn, !.at = "gone", !.answer =
                       IF ~pwd.handler THEN "4.04"
                       ELSE IF Counted(pwd).attempts > MaxAttempts THEN "4.29"
                       ELSE IF ~readable THEN "4.00" ELSE "pending"]]
             g == [pwd.req[r] EXCEPT !.of = pwd.conn, !.by = pwd.conn, !.at = "gone", !.answer = answer]
             h == [pwd.req EXCEPT ![r] = g]
             v == [pwd EXCEPT !.attempts = n, !.req = h]
  <2>1. Counted(pwd) = [pwd EXCEPT !.attempts = n] /\ Counted(pwd).attempts = n /\ Counted(pwd).req = pwd.req
    BY <1>1 DEF Counted, PwdState
  <2>2. pwd' = IF p.req[r].answer = "pending" THEN PasswordRequestHandler(p, r, memory) ELSE p
    BY DEF HandleCoap1
  <2>3. p = v
    <3>1. p = [[pwd EXCEPT !.attempts = n] EXCEPT !.req = [pwd.req EXCEPT ![r] = g]]
      BY <2>1
    <3> QED BY <1>1, <3>1
  <2> HIDE DEF p, n, answer
  <2>4. p.req = h /\ p.req[r] = g /\ g.answer = answer /\ v.queue = pwd.queue
    <3>1. g.answer = answer
      BY <1>1 DEF PwdReq
    <3>2. h[r] = g
      BY <1>1
    <3> HIDE DEF h
    <3>3. v.req = h /\ v.queue = pwd.queue
      BY <1>1 DEF PwdState
    <3> QED BY <2>3, <3>1, <3>2, <3>3
  <2>5. CASE answer = "pending" /\ memory
    <3>1. pwd' = PasswordTryResolve([v EXCEPT !.queue = Append(v.queue, r), !.req[r].at = "listed"])
      BY ZenonT(40), <2>2, <2>3, <2>4, <2>5 DEF PasswordRequestHandler
    <3>2. [h EXCEPT ![r].at = "listed"] = f
      BY ZenonT(40), <1>1, <2>5 DEF PwdReq
    <3>3. queue = Append(v.queue, r)
      BY <2>4, <2>5
    <3>4. v.req = h
      BY <2>3, <2>4
    <3> HIDE DEF h, f, queue
    <3>5. [v EXCEPT !.queue = Append(v.queue, r), !.req[r].at = "listed"] = [v EXCEPT !.queue = queue, !.req = f]
      BY Zenon, <3>2, <3>3, <3>4
    <3>6. [v EXCEPT !.queue = queue, !.req = f] = t
      BY Zenon, <1>1 DEF PwdState
    <3> QED BY <2>5, <3>1, <3>5, <3>6
  <2>6. CASE answer = "pending" /\ ~memory
    <3>1. pwd' = [v EXCEPT !.req[r].at = "gone"]
      BY ZenonT(40), <2>2, <2>3, <2>4, <2>6 DEF PasswordRequestHandler
    <3>2. [h EXCEPT ![r].at = "gone"] = f
      BY <1>1, <2>6 DEF PwdReq
    <3>3. queue = pwd.queue /\ at # "listed"
      BY <2>6
    <3>4. v.req = h
      BY <2>3, <2>4
    <3> HIDE DEF h, f, queue
    <3> QED BY ZenonT(40), <1>1, <3>1, <3>2, <3>3, <3>4 DEF PwdState
  <2>7. CASE answer # "pending"
    <3>1. pwd' = v
      BY ZenonT(40), <2>2, <2>3, <2>4, <2>7
    <3>2. h = f
      BY <1>1, <2>7 DEF PwdReq
    <3>3. queue = pwd.queue /\ at # "listed"
      BY <2>7
    <3> HIDE DEF h, f, queue
    <3> QED BY ZenonT(40), <1>1, <3>1, <3>2, <3>3 DEF PwdState
  <2> QED BY <2>5, <2>6, <2>7
<1>4. /\ n \in 0..(MaxAttempts + 1) /\ n >= pwd.attempts
      /\ answer \in Answers /\ at \in {"listed", "gone"}
      /\ answer \in Passed => answer = "pending"
      /\ answer = "pending" => n <= MaxAttempts /\ n = pwd.attempts + 1
      /\ at = "listed" => answer = "pending"
  BY <1>1, PasswordAssumption DEF Answers, Passed
<1> HIDE DEF n, answer, at
<1>5. q \in PwdReq /\ q.of = pwd.conn /\ q.by = pwd.conn /\ q.answer = answer /\ q.at = at
  BY ZenonT(40), <1>1, <1>4 DEF PwdReq
<1> HIDE DEF q
<1>6. f \in [PasswordRequests -> PwdReq] /\ f[r] = q /\ \A o \in PasswordRequests : o # r => f[o] = pwd.req[o]
  BY <1>1, <1>5
<1> HIDE DEF f
<1>7. queue \in Seq(PasswordRequests)
      /\ \A i \in 1..Len(queue) : (i \in 1..Len(pwd.queue) /\ queue[i] = pwd.queue[i]) \/ (queue[i] = r /\ at = "listed")
  BY <1>1
<1> HIDE DEF queue
<1>8. t \in PwdState
  BY ZenonT(40), <1>1, <1>4, <1>6, <1>7 DEF PwdState
<1>9. /\ t.conn = pwd.conn /\ t.opened = pwd.opened /\ t.attempts = n /\ t.key = pwd.key /\ t.queue = queue
      /\ t.req = f /\ t.proven = pwd.proven
  BY <1>1 DEF PwdState
<1> HIDE DEF t
<1>10. pwd.conn <= pwd.opened
  BY DEF PwdInv
<1>11. "pending" \in Passed
  BY DEF Passed
<1>13. pwd.req[r].answer \notin Passed
  BY DEF HandleCoap1, PwdInv, PwdReqs
<1>12. PwdReqs(t)
  <2>1. \A i \in 1..Len(pwd.queue) : pwd.queue[i] \in PasswordRequests /\ pwd.req[pwd.queue[i]].answer \in Passed
    BY <1>1, ElementOfSeq DEF PwdInv, PwdReqs
  <2>2. \A i \in 1..Len(queue) : f[queue[i]].answer \in Passed
    <3> SUFFICES ASSUME NEW i \in 1..Len(queue) PROVE f[queue[i]].answer \in Passed
      OBVIOUS
    <3>2. CASE queue[i] = r /\ at = "listed"
      BY <1>4, <1>5, <1>6, <1>11, <3>2
    <3>3. CASE i \in 1..Len(pwd.queue) /\ queue[i] = pwd.queue[i] /\ queue[i] # r
      BY <1>6, <2>1, <3>3
    <3>4. CASE i \in 1..Len(pwd.queue) /\ queue[i] = pwd.queue[i] /\ queue[i] = r
      BY ZenonT(40), <1>13, <2>1, <3>4
    <3> QED BY <1>7, <3>2, <3>3, <3>4
  <2>3. \A o \in PasswordRequests :
         /\ f[o].of # 0 => f[o].of = pwd.conn /\ f[o].by = pwd.conn
         /\ f[o].by <= pwd.opened
         /\ f[o].at \in {"listed", "app", "handled"} => f[o].answer \in Passed
         /\ f[o].at = "none" => f[o].answer \notin Passed
    BY ZenonT(40), <1>4, <1>5, <1>6, <1>10, <1>11 DEF PwdInv, PwdReqs
  <2> QED BY <1>9, <2>2, <2>3 DEF PwdReqs
<1>14. PwdKey(t)
  BY <1>1, <1>6, <1>9, <1>13 DEF PwdInv, PwdKey
<1>15. PwdCount(t)
  <2>1. pwd.proven <= pwd.attempts /\ pwd.proven <= MaxAttempts
    BY <1>2 DEF PwdInv, PwdCount
  <2>2. CASE answer = "pending"
    BY <1>1, <1>4, <1>9, <2>1, <2>2, PasswordAssumption DEF PwdCount
  <2>3. CASE answer # "pending"
    <3>1. Exchanged(t) => Exchanged(pwd)
      BY <1>4, <1>5, <1>6, <1>9, <2>3 DEF Exchanged
    <3>2. Exchanged(pwd) => pwd.proven + 1 <= pwd.attempts /\ pwd.proven + 1 <= MaxAttempts
      BY <1>2 DEF PwdInv, PwdCount
    <3> QED BY <1>1, <1>4, <1>9, <2>1, <3>1, <3>2, PasswordAssumption DEF PwdCount
  <2> QED BY <2>2, <2>3
<1>16. PwdInv(t)
  BY <1>8, <1>9, <1>10, <1>12, <1>14, <1>15 DEF PwdInv
<1> QED BY <1>3, <1>16, PasswordTryResolveKeeps

\* The step of PasswordNext.
LEMMA PasswordStep == PwdInv(pwd) /\ [PasswordNext]_pwd => PwdInv(pwd')
<1> SUFFICES ASSUME PwdInv(pwd), [PasswordNext]_pwd PROVE PwdInv(pwd')
  OBVIOUS
<1>1. /\ pwd \in PwdState /\ pwd.req \in [PasswordRequests -> PwdReq]
      /\ pwd.conn \in 0..MaxConnections /\ pwd.opened \in 0..MaxConnections /\ pwd.attempts \in 0..(MaxAttempts + 1)
      /\ pwd.proven \in Nat /\ pwd.queue \in Seq(PasswordRequests) /\ pwd.key \in {0} \cup PasswordRequests
      /\ pwd.authenticated \in SUBSET (1..MaxConnections)
  BY DEF PwdInv, PwdState
<1>2. CASE ConnectionOpens
  <2> DEFINE c == pwd.opened + 1
  <2>1. PICK zero \in {0} \cup PasswordRequests : zero = 0
    OBVIOUS
  <2>2. PICK none \in 0..(MaxAttempts + 1) : none = 0
    BY PasswordAssumption
  <2>3. c \in 0..MaxConnections /\ c > pwd.opened
    BY <1>1, <1>2, PasswordAssumption DEF ConnectionOpens
  <2> HIDE DEF c
  <2>4. pwd' = [pwd EXCEPT !.conn = c, !.opened = c, !.attempts = none, !.key = zero, !.proven = 0]
    BY <1>2, <2>1, <2>2 DEF ConnectionOpens, c
  <2>5. pwd' \in PwdState
    BY ZenonT(40), <1>1, <2>3, <2>4 DEF PwdState
  <2>6. /\ pwd'.conn = c /\ pwd'.opened = c /\ pwd'.attempts = 0 /\ pwd'.key = 0 /\ pwd'.proven = 0
        /\ pwd'.req = pwd.req /\ pwd'.queue = pwd.queue
    BY <1>1, <2>1, <2>2, <2>4 DEF PwdState
  <2>7. pwd.conn = 0
    BY <1>2 DEF ConnectionOpens
  <2>8. \A r \in PasswordRequests : pwd.req[r].of = 0 /\ pwd.req[r].by <= pwd.opened /\ pwd.req[r].by \in Nat
    BY <1>1, <2>7 DEF PwdInv, PwdReqs, PwdReq
  <2>9. ~Exchanged(pwd')
    BY <1>1, <2>3, <2>6, <2>8 DEF Exchanged
  <2>10. PwdReqs(pwd')
    BY <1>1, <2>3, <2>6, <2>8 DEF PwdInv, PwdReqs
  <2> QED BY <2>3, <2>5, <2>6, <2>9, <2>10, PasswordAssumption DEF PwdInv, PwdKey, PwdCount
<1>3. CASE ConnectionLeaves
  <2>1. PICK zero \in 0..MaxConnections : zero = 0
    BY PasswordAssumption
  <2> DEFINE f == [r \in PasswordRequests |-> [pwd.req[r] EXCEPT !.of = zero]]
  <2>2. f \in [PasswordRequests -> PwdReq]
        /\ \A r \in PasswordRequests : /\ f[r].of = 0 /\ f[r].by = pwd.req[r].by /\ f[r].at = pwd.req[r].at
                                        /\ f[r].answer = pwd.req[r].answer
    BY ZenonT(40), <1>1, <2>1 DEF PwdReq
  <2>3. pwd' = [pwd EXCEPT !.conn = zero, !.req = f]
    BY <1>3, <2>1 DEF ConnectionLeaves
  <2> HIDE DEF f
  <2>4. pwd' \in PwdState
    BY ZenonT(40), <1>1, <2>2, <2>3 DEF PwdState
  <2>5. pwd'.conn = 0 /\ pwd'.req = f /\ pwd'.queue = pwd.queue /\ pwd'.opened = pwd.opened
    BY <1>1, <2>1, <2>3 DEF PwdState
  <2>6. \A i \in 1..Len(pwd.queue) : pwd.queue[i] \in PasswordRequests
    BY <1>1, ElementOfSeq
  <2>7. PwdReqs(pwd')
    BY <2>2, <2>5, <2>6 DEF PwdInv, PwdReqs
  <2> QED BY <1>1, <2>4, <2>5, <2>7 DEF PwdInv, PwdKey, PwdCount
<1>4. ASSUME NEW r \in PasswordRequests, NEW same \in BOOLEAN, NEW works \in BOOLEAN, SetPassword(r, same, works)
      PROVE  PwdInv(pwd')
  BY <1>4, PasswordReadyKeeps DEF SetPassword
<1>5. ASSUME NEW r \in PasswordRequests, NEW works \in BOOLEAN, PasswordRequestFree(r, works)
      PROVE  PwdInv(pwd')
  <2> DEFINE p == IF pwd.req[r].at = "app" THEN PasswordReady(pwd, r, FALSE, works) ELSE pwd
             q == [p.req[r] EXCEPT !.at = "gone"]
             f == [p.req EXCEPT ![r] = q]
             t == [p EXCEPT !.req = f]
  <2>1. PwdInv(p)
    BY ZenonT(40), PasswordReadyKeeps
  <2>2. pwd' = t
    BY <1>5 DEF PasswordRequestFree
  <2> HIDE DEF p
  <2>3. p \in PwdState /\ p.req \in [PasswordRequests -> PwdReq] /\ p.queue \in Seq(PasswordRequests)
        /\ p.key \in {0} \cup PasswordRequests
    BY <2>1 DEF PwdInv, PwdState
  <2>4. q \in PwdReq /\ q.of = p.req[r].of /\ q.by = p.req[r].by /\ q.answer = p.req[r].answer /\ q.at = "gone"
    BY ZenonT(40), <2>3 DEF PwdReq
  <2> HIDE DEF q
  <2>5. f \in [PasswordRequests -> PwdReq] /\ f[r] = q /\ \A o \in PasswordRequests : o # r => f[o] = p.req[o]
    BY <2>3, <2>4
  <2> HIDE DEF f
  <2>6. t \in PwdState
    BY <2>3, <2>5 DEF PwdState
  <2>7. /\ t.conn = p.conn /\ t.opened = p.opened /\ t.attempts = p.attempts /\ t.key = p.key /\ t.queue = p.queue
        /\ t.req = f /\ t.proven = p.proven
    BY <2>3 DEF PwdState
  <2> HIDE DEF t
  <2>8. \A o \in PasswordRequests : f[o].of = p.req[o].of /\ f[o].by = p.req[o].by /\ f[o].answer = p.req[o].answer
    BY <2>4, <2>5
  <2>9. \A i \in 1..Len(p.queue) : p.queue[i] \in PasswordRequests
    BY <2>3, ElementOfSeq
  <2>10. PwdReqs(t)
    BY <2>1, <2>4, <2>5, <2>7, <2>8, <2>9 DEF PwdInv, PwdReqs
  <2>11. PwdKey(t)
    BY <2>1, <2>3, <2>7, <2>8 DEF PwdInv, PwdKey
  <2> QED BY <2>1, <2>2, <2>6, <2>7, <2>8, <2>10, <2>11, SameExchanges
<1>6. ASSUME NEW r \in {0} \cup PasswordRequests, HandleCoap2(r)
      PROVE  PwdInv(pwd')
  <2> DEFINE n == IF pwd.attempts > MaxAttempts THEN pwd.attempts ELSE pwd.attempts + 1
             a == [pwd EXCEPT !.attempts = n]
             refused == ~pwd.handler \/ n > MaxAttempts \/ r = 0 \/ pwd.key = 0
             k == IF refused THEN pwd.proven ELSE pwd.proven + 1
             known == IF ~refused /\ pwd.key = r /\ pwd.req[r].same THEN pwd.authenticated \cup {pwd.conn}
                      ELSE pwd.authenticated
             t == [pwd EXCEPT !.attempts = n, !.proven = k, !.authenticated = known]
  <2>1. pwd.conn # 0
    BY <1>6 DEF HandleCoap2, Confirms
  <2>2. pwd' = t
    <3>1. Counted(pwd) = a
      BY <1>1 DEF Counted
    <3>2. a.handler = pwd.handler /\ a.attempts = n /\ a.key = pwd.key /\ a.req = pwd.req /\ a.proven = pwd.proven
          /\ a.authenticated = pwd.authenticated /\ a.conn = pwd.conn
      BY <1>1 DEF PwdState
    <3>3. pwd' = Confirmed(a, r)
      BY <1>6, <3>1 DEF HandleCoap2
    <3>4. CASE refused
      <4>1. pwd' = a
        BY <3>2, <3>3, <3>4 DEF Confirmed
      <4> QED BY ZenonT(40), <1>1, <3>4, <4>1 DEF PwdState
    <3>5. CASE ~refused
      <4> HIDE DEF a
      <4>1. pwd' = [a EXCEPT !.proven = k, !.authenticated = known]
        BY <3>2, <3>3, <3>5 DEF Confirmed
      <4> QED BY <1>1, <4>1 DEF PwdState, a
    <3> QED BY <3>4, <3>5
  <2>3. /\ n \in 0..(MaxAttempts + 1) /\ k \in Nat /\ known \in SUBSET (1..MaxConnections)
        /\ n >= pwd.attempts
        /\ k = pwd.proven \/ (k = pwd.proven + 1 /\ n = pwd.attempts + 1 /\ n <= MaxAttempts /\ pwd.key # 0)
    <3>1. n \in 0..(MaxAttempts + 1) /\ n >= pwd.attempts /\ (n <= MaxAttempts => n = pwd.attempts + 1)
      BY <1>1, PasswordAssumption
    <3>2. pwd.conn \in 1..MaxConnections
      BY <1>1, <2>1, PasswordAssumption
    <3>3. known \in SUBSET (1..MaxConnections)
      BY <1>1, <3>2
    <3>4. n \in Nat
      BY <3>1
    <3> HIDE DEF n, known
    <3>5. /\ k \in Nat
          /\ k = pwd.proven \/ (k = pwd.proven + 1 /\ n <= MaxAttempts /\ pwd.key # 0)
      BY <1>1, <3>4, PasswordAssumption
    <3> HIDE DEF k
    <3> QED BY <3>1, <3>3, <3>5
  <2> HIDE DEF n, k, known
  <2>4. t \in PwdState
    BY ZenonT(40), <1>1, <2>3 DEF PwdState
  <2>5. /\ t.conn = pwd.conn /\ t.opened = pwd.opened /\ t.attempts = n /\ t.key = pwd.key /\ t.queue = pwd.queue
        /\ t.req = pwd.req /\ t.proven = k
    BY <1>1 DEF PwdState
  <2> HIDE DEF t
  <2>6. Exchanged(t) <=> Exchanged(pwd)
    BY <2>5 DEF Exchanged
  <2>7. pwd.key # 0 => Exchanged(pwd)
    BY <1>1, <2>1 DEF PwdInv, PwdKey, Exchanged
  <2>8. PwdCount(t)
    <3>1. /\ pwd.proven <= pwd.attempts /\ pwd.proven <= MaxAttempts
          /\ Exchanged(pwd) => pwd.proven + 1 <= pwd.attempts /\ pwd.proven + 1 <= MaxAttempts
      BY <2>1 DEF PwdInv, PwdCount
    <3> QED BY <1>1, <2>3, <2>5, <2>6, <2>7, <3>1, PasswordAssumption DEF PwdCount
  <2> QED BY <2>2, <2>4, <2>5, <2>8 DEF PwdInv, PwdReqs, PwdKey
<1>7. CASE PasswordInitListener
  <2>1. pwd' \in PwdState
    BY ZenonT(40), <1>1, <1>7 DEF PasswordInitListener, PwdState
  <2>2. /\ pwd'.conn = pwd.conn /\ pwd'.opened = pwd.opened /\ pwd'.attempts = pwd.attempts /\ pwd'.key = pwd.key
        /\ pwd'.queue = pwd.queue /\ pwd'.req = pwd.req /\ pwd'.proven = pwd.proven
    BY <1>1, <1>7 DEF PasswordInitListener, PwdState
  <2>3. PwdReqs(pwd') /\ PwdKey(pwd')
    BY <2>2 DEF PwdInv, PwdReqs, PwdKey
  <2> QED BY <2>1, <2>2, <2>3, SameExchanges
<1>8. CASE NewPasswordRequest
  <2> DEFINE t == [pwd EXCEPT !.fut = TRUE]
  <2>1. t \in PwdState
    BY ZenonT(40), <1>1 DEF PwdState
  <2>2. /\ t.conn = pwd.conn /\ t.opened = pwd.opened /\ t.attempts = pwd.attempts /\ t.key = pwd.key
        /\ t.queue = pwd.queue /\ t.req = pwd.req /\ t.proven = pwd.proven
    BY <1>1 DEF PwdState
  <2>3. pwd' = PasswordTryResolve(t)
    BY <1>8 DEF NewPasswordRequest
  <2> HIDE DEF t
  <2>4. PwdReqs(t) /\ PwdKey(t)
    BY <2>2 DEF PwdInv, PwdReqs, PwdKey
  <2>5. PwdInv(t)
    BY <2>1, <2>2, <2>4, SameExchanges
  <2> QED BY <2>3, <2>5, PasswordTryResolveKeeps
<1>9. CASE PasswordListenerStop
  <2>0. << >> \in Seq(PasswordRequests)
    OBVIOUS
  <2>1. PICK e \in Seq(PasswordRequests) : e = << >>
    BY ZenonT(40), <2>0
  <2>2. pwd' = [pwd EXCEPT !.handler = FALSE, !.fut = FALSE, !.queue = e]
    BY <1>9, <2>1 DEF PasswordListenerStop
  <2>3. pwd' \in PwdState
    BY ZenonT(40), <1>1, <2>2 DEF PwdState
  <2>4. /\ pwd'.conn = pwd.conn /\ pwd'.opened = pwd.opened /\ pwd'.attempts = pwd.attempts /\ pwd'.key = pwd.key
        /\ pwd'.queue = << >> /\ pwd'.req = pwd.req /\ pwd'.proven = pwd.proven
    BY <1>1, <2>1, <2>2 DEF PwdState
  <2>5. PwdReqs(pwd') /\ PwdKey(pwd')
    BY <2>4 DEF PwdInv, PwdReqs, PwdKey
  <2> QED BY <2>3, <2>4, <2>5, SameExchanges
<1>10. CASE UNCHANGED pwd
  BY <1>10
<1> QED BY <1>2, <1>3, <1>4, <1>5, <1>6, <1>7, <1>8, <1>9, <1>10, HandleCoap1Keeps DEF PasswordNext

\* A state predicate, for the temporal step.
PwdHolds == PwdInv(pwd)

\* A client learns at most MaxAttempts times on one connection if it has the password, exchanges and
\* confirmations counted together, and the key it is compared with is of its own connection, however
\* late the application answers (nc_spake2_handle_coap_1, nc_spake2_handle_coap_2,
\* nc_spake2_password_ready). The invariant counts the exchange behind the key as an attempt.
THEOREM AttemptsAlwaysLimited == PasswordInit /\ [][PasswordNext]_pwd => []AttemptsLimited
<1>1. PasswordInit => PwdHolds
  <2> SUFFICES ASSUME PasswordInit PROVE PwdInv(pwd)
    BY DEF PwdHolds
  <2>1. << >> \in Seq(PasswordRequests) /\ 0 \in 0..MaxConnections /\ 0 \in 0..(MaxAttempts + 1)
    BY PasswordAssumption
  <2>2. pwd \in PwdState
    BY <2>1 DEF PasswordInit, PwdState, PwdReq, Answers
  <2>3. pwd.conn = 0 /\ pwd.opened = 0 /\ pwd.queue = << >>
    BY DEF PasswordInit
  <2>4. \A r \in PasswordRequests : /\ pwd.req[r].of = 0 /\ pwd.req[r].by = 0
                                     /\ pwd.req[r].at = "none" /\ pwd.req[r].answer = "none"
    BY Zenon DEF PasswordInit
  <2> QED BY <2>2, <2>3, <2>4 DEF PwdInv, PwdReqs, PwdKey, PwdCount, Passed
<1>2. PwdHolds /\ [PasswordNext]_pwd => PwdHolds'
  BY PasswordStep DEF PwdHolds
<1>3. PwdHolds => AttemptsLimited
  <2> SUFFICES ASSUME PwdInv(pwd) PROVE AttemptsLimited
    BY DEF PwdHolds
  <2>1. PasswordTypeOK
    BY DEF PwdInv, PwdState, PwdReq, PasswordTypeOK
  <2>2. KeyOfThisConnection
    BY DEF PwdInv, PwdKey, KeyOfThisConnection
  <2>3. pwd.conn # 0 /\ pwd.key # 0 => Exchanged(pwd)
    BY DEF PwdInv, PwdState, PwdKey, Exchanged
  <2>4. pwd.proven \in Nat
    BY DEF PwdInv, PwdState
  <2>5. pwd.conn # 0 => pwd.proven + (IF pwd.key = 0 THEN 0 ELSE 1) <= MaxAttempts
    BY <2>3, <2>4, PasswordAssumption DEF PwdInv, PwdCount
  <2> QED BY <2>1, <2>2, <2>5 DEF AttemptsLimited
<1> QED BY <1>1, <1>2, <1>3, PTL

-----------------------------------------------------------------------------
(* DeviceApi *)

\* The types of the fields of a device.
Crts == {Crt(k) : k \in PrivateKeys}

CoreState(name) ==
    [productId : Strings, deviceId : Strings, url : Urls, key : PrivateKeys, crt : Crts, appName : {name}]

GivenState ==
    [productId : Strings \cup {<< >>}, deviceId : Strings \cup {<< >>}, serverUrl : Urls \cup {<< >>},
     privateKey : PrivateKeys \cup {<< >>}]

ApiState(name) ==
    [life : {"none", "new", "stopped", "freed", "leaked", "crashed"},
     productId : Strings \cup {<< >>}, deviceId : Strings \cup {<< >>}, serverUrl : Urls \cup {<< >>},
     privateKey : PrivateKeys \cup {<< >>}, publicKey : Crts \cup {<< >>}, appName : {name},
     core : {<< >>} \cup CoreState(name), answer : {"OK", "UNKNOWN"}, given : GivenState]

\* A device that may still be started holds what its user was told is set: the ids, and a key and a
\* certificate together only if they belong to each other. The url is the user's until a start.
Kept(a) ==
    a.life \in {"none", "new"} =>
      /\ a.productId = a.given.productId /\ a.deviceId = a.given.deviceId
      /\ a.privateKey # << >> /\ a.publicKey # << >> =>
           a.given.privateKey = a.privateKey /\ a.publicKey = Crt(a.privateKey)
      /\ IF a.core = << >> THEN a.serverUrl = a.given.serverUrl
         ELSE a.serverUrl = a.core.url

\* What StartedAsConfigured says of a.
Started(a) ==
    a.core # << >> =>
      /\ a.core.productId = a.given.productId /\ a.core.deviceId = a.given.deviceId
      /\ a.core.key = a.given.privateKey /\ a.core.crt = Crt(a.core.key)
      /\ a.core.url = IF a.given.serverUrl = << >> THEN DefaultUrl(a.core.productId) ELSE a.given.serverUrl

\* The invariant.
ApiInv(a) == a \in ApiState(a.appName) /\ Kept(a) /\ Started(a)

\* A set of a device that is not started: the fields of the start are what they were, or new.
LEMMA SetKeeps ==
    ASSUME NEW a, ApiInv(a), a.life = "new", a.core = << >>,
           NEW t, t \in ApiState(t.appName), t.life = a.life, t.core = a.core,
           t.productId = t.given.productId, t.deviceId = t.given.deviceId,
           t.privateKey # << >> /\ t.publicKey # << >> =>
             t.given.privateKey = t.privateKey /\ t.publicKey = Crt(t.privateKey),
           t.serverUrl = t.given.serverUrl
    PROVE  ApiInv(t)
  BY DEF ApiInv, Kept, Started

\* A step that changes nothing but the life of the device, or frees what was set.
LEMMA LifeKeeps ==
    ASSUME NEW a, ApiInv(a), NEW t, t \in ApiState(t.appName), t.core = a.core, t.given = a.given,
           \/ t.life \notin {"none", "new"}
           \/ /\ a.life \in {"none", "new"} /\ t.productId = a.productId /\ t.deviceId = a.deviceId
              /\ t.privateKey = a.privateKey /\ t.publicKey = a.publicKey /\ t.serverUrl = a.serverUrl
    PROVE  ApiInv(t)
  BY DEF ApiInv, Kept, Started

\* nabto_device_start.
LEMMA DeviceStartKeeps ==
    ASSUME ApiInv(api), NEW memory \in BOOLEAN, DeviceStart(memory)
    PROVE  ApiInv(api')
<1> DEFINE url == IF api.serverUrl = << >> THEN DefaultUrl(api.productId) ELSE api.serverUrl
           core == CoreStarted(url)
<1>1. api \in ApiState(api.appName)
  BY DEF ApiInv
<1>2. api.life = "new"
  BY DEF DeviceStart
<1>3. CASE << >> \in {api.publicKey, api.privateKey, api.deviceId, api.productId} \/ (api.serverUrl = << >> /\ ~memory)
  BY <1>3 DEF DeviceStart
<1>4. CASE ~(<< >> \in {api.publicKey, api.privateKey, api.deviceId, api.productId} \/ (api.serverUrl = << >> /\ ~memory))
  <2>1. api' = [api EXCEPT !.serverUrl = url, !.core = core]
    BY <1>4 DEF DeviceStart
  <2>2. /\ api.publicKey \in Crts /\ api.privateKey \in PrivateKeys /\ api.deviceId \in Strings /\ api.productId \in Strings
        /\ api.publicKey # << >> /\ api.privateKey # << >>
    BY <1>1, <1>4 DEF ApiState
  <2>3. url \in Urls
    BY <1>1, <2>2 DEF ApiState, Urls
  <2>4. url = IF api.given.serverUrl = << >> THEN DefaultUrl(api.productId) ELSE api.given.serverUrl
    <3>1. CASE api.core = << >>
      BY <1>2, <3>1 DEF ApiInv, Kept
    <3>2. CASE api.core # << >>
      <4>1. /\ api.serverUrl = api.core.url /\ api.core.productId = api.productId
            /\ api.core.url = IF api.given.serverUrl = << >> THEN DefaultUrl(api.core.productId) ELSE api.given.serverUrl
        BY <1>2, <3>2 DEF ApiInv, Kept, Started
      <4> QED BY <4>1
    <3> QED BY <3>1, <3>2
  <2> HIDE DEF url
  <2>5. /\ core.productId = api.productId /\ core.deviceId = api.deviceId /\ core.url = url
        /\ core.key = api.privateKey /\ core.crt = api.publicKey
    BY DEF CoreStarted
  <2>6. core \in CoreState(api.appName)
    BY <2>2, <2>3 DEF CoreStarted, CoreState
  <2> HIDE DEF core
  <2>7. api' \in ApiState(api.appName)
    BY ZenonT(40), <1>1, <2>1, <2>3, <2>6 DEF ApiState
  <2>8. /\ api'.productId = api.productId /\ api'.deviceId = api.deviceId /\ api'.privateKey = api.privateKey
        /\ api'.publicKey = api.publicKey /\ api'.serverUrl = url /\ api'.core = core /\ api'.given = api.given
        /\ api'.appName = api.appName
    BY <1>1, <2>1 DEF ApiState
  <2>9. /\ api.productId = api.given.productId /\ api.deviceId = api.given.deviceId
        /\ api.given.privateKey = api.privateKey /\ api.publicKey = Crt(api.privateKey)
    BY <1>2, <2>2 DEF ApiInv, Kept
  <2>10. core # << >>
    BY <2>6 DEF CoreState
  <2>11. Kept(api')
    BY <2>5, <2>8, <2>9, <2>10 DEF Kept
  <2>12. Started(api')
    BY <2>4, <2>5, <2>8, <2>9 DEF Started
  <2> QED BY <2>7, <2>8, <2>11, <2>12 DEF ApiInv
<1> QED BY <1>3, <1>4

\* The step of ApiNext.
LEMMA ApiStep == ApiInv(api) /\ [ApiNext]_api => ApiInv(api')
<1> SUFFICES ASSUME ApiInv(api), [ApiNext]_api PROVE ApiInv(api')
  OBVIOUS
<1>1. /\ api \in ApiState(api.appName) /\ api.given \in GivenState
      /\ api.privateKey \in PrivateKeys \cup {<< >>}
  BY DEF ApiInv, ApiState
<1>2. ASSUME NEW fails, DeviceNew(fails) PROVE ApiInv(api')
  <2>1. PICK life \in {"none", "new", "stopped", "freed", "leaked", "crashed"} : api' = [api EXCEPT !.life = life]
    BY <1>2 DEF DeviceNew, NewResolveFailure
  <2>2. api.life = "none"
    BY <1>2 DEF DeviceNew
  <2>3. /\ api' \in ApiState(api.appName) /\ api'.appName = api.appName /\ api'.core = api.core /\ api'.given = api.given
        /\ api'.productId = api.productId /\ api'.deviceId = api.deviceId /\ api'.privateKey = api.privateKey
        /\ api'.publicKey = api.publicKey /\ api'.serverUrl = api.serverUrl
    BY <1>1, <2>1 DEF ApiState
  <2> QED BY <2>2, <2>3, LifeKeeps
<1>3. ASSUME NEW str \in Strings, NEW memory \in BOOLEAN, SetProductId(str, memory) \/ SetDeviceId(str, memory)
      PROVE  ApiInv(api')
  <2> DEFINE v == Strdup(str, memory)
  <2>1. v \in Strings \cup {<< >>}
    BY DEF Strdup
  <2> HIDE DEF v
  <2>2. CASE SetProductId(str, memory)
    <3> DEFINE g == [api.given EXCEPT !.productId = v]
    <3>1. g \in GivenState /\ g.productId = v /\ g.deviceId = api.given.deviceId /\ g.serverUrl = api.given.serverUrl
          /\ g.privateKey = api.given.privateKey
      BY <1>1, <2>1 DEF GivenState
    <3>2. api' = [api EXCEPT !.productId = v, !.given = g]
      BY <1>1, <2>2 DEF SetProductId, v, ApiState
    <3> HIDE DEF g
    <3>3. /\ api' \in ApiState(api.appName) /\ api'.appName = api.appName /\ api'.core = api.core /\ api'.given = g
          /\ api'.productId = v /\ api'.deviceId = api.deviceId /\ api'.privateKey = api.privateKey
          /\ api'.publicKey = api.publicKey /\ api'.serverUrl = api.serverUrl /\ api'.life = api.life
      BY ZenonT(40), <1>1, <2>1, <3>1, <3>2 DEF ApiState
    <3>4. api.life = "new" /\ api.core = << >>
      BY <2>2 DEF SetProductId, Configurable
    <3> QED BY <3>1, <3>3, <3>4, SetKeeps DEF ApiInv, Kept
  <2>3. CASE SetDeviceId(str, memory)
    <3> DEFINE g == [api.given EXCEPT !.deviceId = v]
    <3>1. g \in GivenState /\ g.productId = api.given.productId /\ g.deviceId = v /\ g.serverUrl = api.given.serverUrl
          /\ g.privateKey = api.given.privateKey
      BY <1>1, <2>1 DEF GivenState
    <3>2. api' = [api EXCEPT !.deviceId = v, !.given = g]
      BY <1>1, <2>3 DEF SetDeviceId, v, ApiState
    <3> HIDE DEF g
    <3>3. /\ api' \in ApiState(api.appName) /\ api'.appName = api.appName /\ api'.core = api.core /\ api'.given = g
          /\ api'.productId = api.productId /\ api'.deviceId = v /\ api'.privateKey = api.privateKey
          /\ api'.publicKey = api.publicKey /\ api'.serverUrl = api.serverUrl /\ api'.life = api.life
      BY ZenonT(40), <1>1, <2>1, <3>1, <3>2 DEF ApiState
    <3>4. api.life = "new" /\ api.core = << >>
      BY <2>3 DEF SetDeviceId, Configurable
    <3> QED BY <3>1, <3>3, <3>4, SetKeeps DEF ApiInv, Kept
  <2> QED BY <1>3, <2>2, <2>3
<1>4. ASSUME NEW memory \in BOOLEAN, SetServerUrl(<<"url">>, memory)
      PROVE  ApiInv(api')
  <2> DEFINE v == Strdup(<<"url">>, memory)
             g == [api.given EXCEPT !.serverUrl = v]
  <2>1. v \in Urls \cup {<< >>}
    BY DEF Strdup, Urls
  <2> HIDE DEF v
  <2>2. g \in GivenState /\ g.productId = api.given.productId /\ g.deviceId = api.given.deviceId /\ g.serverUrl = v
        /\ g.privateKey = api.given.privateKey
    BY <1>1, <2>1 DEF GivenState
  <2>3. api' = [api EXCEPT !.serverUrl = v, !.given = g]
    BY <1>1, <1>4 DEF SetServerUrl, v, ApiState
  <2> HIDE DEF g
  <2>4. /\ api' \in ApiState(api.appName) /\ api'.appName = api.appName /\ api'.core = api.core /\ api'.given = g
        /\ api'.productId = api.productId /\ api'.deviceId = api.deviceId /\ api'.privateKey = api.privateKey
        /\ api'.publicKey = api.publicKey /\ api'.serverUrl = v /\ api'.life = api.life
    BY ZenonT(40), <1>1, <2>1, <2>2, <2>3 DEF ApiState
  <2>5. api.life = "new" /\ api.core = << >>
    BY <1>4 DEF SetServerUrl, Configurable
  <2> QED BY <2>2, <2>4, <2>5, SetKeeps DEF ApiInv, Kept
<1>5. ASSUME NEW key \in PrivateKeys, NEW memory \in BOOLEAN, NEW step, SetPrivateKey(key, memory, step)
      PROVE  ApiInv(api')
  <2> DEFINE made == CreateCrt(key, step)
             priv == IF memory THEN key ELSE << >>
             pub == IF memory THEN made.crt ELSE api.publicKey
             told == IF memory /\ made.ec = "OK" THEN key ELSE << >>
             g == [api.given EXCEPT !.privateKey = told]
  <2>1. made.crt \in Crts \cup {<< >>} /\ (made.crt # << >> => made.crt = Crt(key) /\ made.ec = "OK")
    BY DEF CreateCrt, Crts
  <2>2. api' = [api EXCEPT !.privateKey = priv, !.publicKey = pub, !.given = g]
    BY ZenonT(40), <1>1, <1>5 DEF SetPrivateKey, ApiState
  <2> HIDE DEF made
  <2>3. /\ priv \in PrivateKeys \cup {<< >>} /\ pub \in Crts \cup {<< >>} /\ told \in PrivateKeys \cup {<< >>}
        /\ priv # << >> /\ pub # << >> => told = priv /\ pub = Crt(priv)
    BY <1>1, <2>1 DEF ApiState
  <2> HIDE DEF priv, pub, told
  <2>4. g \in GivenState /\ g.productId = api.given.productId /\ g.deviceId = api.given.deviceId
        /\ g.serverUrl = api.given.serverUrl /\ g.privateKey = told
    BY <1>1, <2>3 DEF GivenState
  <2> HIDE DEF g
  <2>5. /\ api' \in ApiState(api.appName) /\ api'.appName = api.appName /\ api'.core = api.core /\ api'.given = g
        /\ api'.productId = api.productId /\ api'.deviceId = api.deviceId /\ api'.privateKey = priv
        /\ api'.publicKey = pub /\ api'.serverUrl = api.serverUrl /\ api'.life = api.life
    BY ZenonT(40), <1>1, <2>2, <2>3, <2>4 DEF ApiState
  <2>6. api.life = "new" /\ api.core = << >>
    BY <1>5 DEF SetPrivateKey, Configurable
  <2> QED BY <2>3, <2>4, <2>5, <2>6, SetKeeps DEF ApiInv, Kept
<1>6. ASSUME NEW name, SetAppName(name) PROVE ApiInv(api')
  <2> DEFINE n == name \o SubSeq(api.appName, Len(name) + 1, Len(api.appName))
  <2>1. api' = [api EXCEPT !.appName = n]
    BY <1>6 DEF SetAppName
  <2> HIDE DEF n
  <2>2. api.life = "new" /\ api.core = << >>
    BY <1>6 DEF SetAppName, Configurable
  <2>3. /\ api' \in ApiState(n) /\ api'.appName = n /\ api'.core = api.core /\ api'.given = api.given
        /\ api'.productId = api.productId /\ api'.deviceId = api.deviceId /\ api'.privateKey = api.privateKey
        /\ api'.publicKey = api.publicKey /\ api'.serverUrl = api.serverUrl /\ api'.life = api.life
    BY <1>1, <2>1, <2>2 DEF ApiState
  <2> QED BY <2>2, <2>3, SetKeeps DEF ApiInv, Kept
<1>7. ASSUME NEW step, GetDeviceFingerprint(step) PROVE ApiInv(api')
  <2>1. PICK life \in {"new", "crashed"}, answer \in {"OK", "UNKNOWN"} : api' = [api EXCEPT !.life = life, !.answer = answer]
    <3>1. api.life \in {"new", "crashed"} /\ api.answer \in {"OK", "UNKNOWN"}
      BY <1>1, <1>7 DEF GetDeviceFingerprint, ApiState
    <3>2. CASE api.privateKey = << >>
      <4>1. api' = [api EXCEPT !.life = "crashed"]
        BY <1>7, <3>2 DEF GetDeviceFingerprint
      <4>2. api' = [api EXCEPT !.life = "crashed", !.answer = api.answer]
        BY Zenon, <1>1, <4>1 DEF ApiState
      <4> QED BY Zenon, <3>1, <4>2
    <3>3. CASE api.privateKey # << >>
      <4>1. api' = [api EXCEPT !.answer = FingerprintEc(api.privateKey, step)]
        BY <1>7, <3>3 DEF GetDeviceFingerprint
      <4>2. FingerprintEc(api.privateKey, step) \in {"OK", "UNKNOWN"}
        BY DEF FingerprintEc
      <4>3. api' = [api EXCEPT !.life = api.life, !.answer = FingerprintEc(api.privateKey, step)]
        BY Zenon, <1>1, <4>1 DEF ApiState
      <4> QED BY ZenonT(40), <3>1, <4>2, <4>3
    <3> QED BY <3>2, <3>3
  <2>2. api.life = "new"
    BY <1>7 DEF GetDeviceFingerprint
  <2>3. /\ api' \in ApiState(api.appName) /\ api'.appName = api.appName /\ api'.core = api.core /\ api'.given = api.given
        /\ api'.productId = api.productId /\ api'.deviceId = api.deviceId /\ api'.privateKey = api.privateKey
        /\ api'.publicKey = api.publicKey /\ api'.serverUrl = api.serverUrl
    BY ZenonT(40), <1>1, <2>1 DEF ApiState
  <2> QED BY <2>2, <2>3, LifeKeeps
<1>8. CASE DeviceStop
  <2>1. /\ api' \in ApiState(api.appName) /\ api'.appName = api.appName /\ api'.core = api.core /\ api'.given = api.given
        /\ api'.life = "stopped"
    BY <1>1, <1>8 DEF DeviceStop, ApiState
  <2> QED BY <2>1, LifeKeeps
<1>9. CASE DeviceFree
  <2>1. /\ api' \in ApiState(api.appName) /\ api'.appName = api.appName /\ api'.core = api.core /\ api'.given = api.given
        /\ api'.life = "freed"
    BY ZenonT(40), <1>1, <1>9 DEF DeviceFree, ApiState
  <2> QED BY <2>1, LifeKeeps
<1>10. CASE UNCHANGED api
  BY <1>10
<1> QED BY <1>2, <1>3, <1>4, <1>5, <1>6, <1>7, <1>8, <1>9, <1>10, DeviceStartKeeps DEF ApiNext

\* A state predicate, for the temporal step.
ApiHolds == ApiInv(api)

\* A core that has been started has what the user was told is set, whatever failed before
\* (nabto_device_set_private_key, nabto_device_start).
THEOREM AlwaysStartedAsConfigured == ApiInit /\ [][ApiNext]_api => []StartedAsConfigured
<1>1. ApiInit => ApiHolds
  <2> SUFFICES ASSUME ApiInit PROVE ApiInv(api)
    BY DEF ApiHolds
  <2>1. api.given \in GivenState
    BY DEF ApiInit, GivenState
  <2>2. api \in ApiState(<< >>) /\ api.appName = << >>
    BY <2>1 DEF ApiInit, ApiState
  <2> QED BY <2>2 DEF ApiInit, ApiInv, Kept, Started
<1>2. ApiHolds /\ [ApiNext]_api => ApiHolds'
  BY ApiStep DEF ApiHolds
<1>3. ApiHolds => StartedAsConfigured
  <2> SUFFICES ASSUME ApiInv(api) PROVE StartedAsConfigured
    BY DEF ApiHolds
  <2>1. ApiTypeOK
    BY DEF ApiInv, ApiState, CoreState, Crts, ApiTypeOK
  <2> QED BY <2>1 DEF ApiInv, Started, StartedAsConfigured
<1> QED BY <1>1, <1>2, <1>3, PTL

-----------------------------------------------------------------------------
(* Access *)

\* Every behaviour of Access is, for each of the four, one of the component.
LEMMA AccessRuns ==
    Init /\ [][Next]_vars =>
      /\ PasswordInit /\ [][PasswordNext]_pwd
      /\ ApiInit /\ [][ApiNext]_api
      /\ IamInit /\ [][IamNext]_iam
      /\ PoliciesInit /\ [][PoliciesNext]_pol
<1>1. Init => PasswordInit /\ ApiInit /\ IamInit /\ PoliciesInit
  BY Zenon DEF Init
<1>2. [Next]_vars => [PasswordNext]_pwd /\ [ApiNext]_api
  BY Zenon DEF Next, vars
<1>3. [Next]_vars => [IamNext]_iam /\ [PoliciesNext]_pol
  BY Zenon DEF Next, vars
<1> QED BY <1>1, <1>2, <1>3, PTL

\* A client learns at most MaxAttempts times on one connection whether it has the right password, and a
\* key of a connection was agreed on by an exchange of that connection (nc_spake2.c).
THEOREM PasswordAttemptsLimited == Spec => []AttemptsLimited
BY AccessRuns, AttemptsAlwaysLimited, PTL DEF Spec

\* A device attaches with the ids, the key, the certificate and the url that its user set last and was
\* told are set (nabto_device_start).
THEOREM DeviceStartsAsConfigured == Spec => []StartedAsConfigured
BY AccessRuns, AlwaysStartedAsConfigured, PTL DEF Spec

\* A restart of the application brings back every user as it was, with its roles and its token, and a
\* client is a single user (load_tcp_tunnel_state, write_state_to_file, nm_iam_pair_new_client).
THEOREM UsersSurviveRestarts == Spec => []UsersSurvive
BY AccessRuns, UsersAlwaysSurvive, PTL DEF Spec

\* Every request is granted exactly when some statement of the roles of its client allows it and none
\* denies it or fails, in every state of the application (nm_iam_check_access, load_iam_config).
THEOREM RequestsGrantedAsSaid == Spec => []RequestsDecided
BY AccessRuns, RequestsAlwaysDecided, PTL DEF Spec

\* What a policy allows is what its statements say, whatever their order, and a policy survives the
\* conversion to JSON (nm_policy_eval, nm_condition_matches, nm_policies_to_json, nm_policies_from_json).
THEOREM PoliciesMeanWhatTheySay == Spec => []PolicyMeaning
BY AccessRuns, PoliciesAlwaysMean, PTL DEF Spec
=============================================================================
