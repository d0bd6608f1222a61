---------------------------- MODULE RuntimeProofs ----------------------------
(********************************************************************************************)
(* Two properties of Runtime for every value of its constants: what every step of the event *)
(* queue keeps (QInv), for any set of events and timestamps of any width; and the futures,  *)
(* any number of them, used any number of times.                                            *)
(********************************************************************************************)
EXTENDS Runtime, SequenceTheorems, WellFoundedInduction, TLAPS

\* What a leaf is tried with, in this order, unless it names a prover of its own.
USE SMTT(30), Zenon, SMTT(60)

-----------------------------------------------------------------------------
(* Lists of events *)

\* The lists of the queue without repetitions: what is at one place is at no other.
OncePerList(s) == \A i, j \in 1..Len(s) : s[i] = s[j] => i = j

\* A set of numbers has a smallest one.
LEMMA HasLeast ==
    ASSUME NEW T \in SUBSET Nat, T # {}
    PROVE  \E x \in T : \A y \in T : x <= y
<1>0. \E R : IsWellFoundedOn(R, Nat) /\ \A x, y \in Nat : y < x => <<y, x>> \in R
  <2>1. \A x, y \in Nat : y < x => <<y, x>> \in OpToRel(<, Nat)
    BY DEF OpToRel
  <2> QED BY Zenon, <2>1, NatLessThanWellFounded
<1>1. PICK R : IsWellFoundedOn(R, Nat) /\ \A x, y \in Nat : y < x => <<y, x>> \in R
  BY <1>0
<1>2. \E x \in T : \A y \in T : ~(<<y, x>> \in R)
  BY Zenon, <1>1, WFMin
<1>3. PICK x \in T : \A y \in T : ~(<<y, x>> \in R)
  BY <1>2
<1>4. \A y \in Nat : y < x => <<y, x>> \in R
  BY <1>1
<1>5. \A y \in T : ~(y < x)
  BY Zenon, <1>3, <1>4
<1>6. \A y \in T : x <= y
  BY <1>5
<1> QED BY <1>6

\* nn_llist_insert_before.
LEMMA InsertedAt ==
    ASSUME NEW S, NEW s \in Seq(S), NEW e \in S, NEW i \in 1..(Len(s) + 1)
    PROVE  /\ InsertBefore(s, i, e) \in Seq(S) /\ Len(InsertBefore(s, i, e)) = Len(s) + 1
           /\ \A k \in 1..(Len(s) + 1) :
                InsertBefore(s, i, e)[k] = IF k < i THEN s[k] ELSE IF k = i THEN e ELSE s[k - 1]
<1>1. Len(s) \in Nat /\ \A k \in 1..Len(s) : s[k] \in S
  OBVIOUS
<1> DEFINE a == SubSeq(s, 1, i - 1)
           b == SubSeq(s, i, Len(s))
<1>2. a \in Seq(S) /\ Len(a) = i - 1 /\ \A k \in 1..(i - 1) : a[k] = s[k]
  BY <1>1, SubSeqProperties
<1>3. b \in Seq(S) /\ Len(b) = Len(s) - i + 1 /\ \A k \in 1..(Len(s) - i + 1) : b[k] = s[i + k - 1]
  BY <1>1, SubSeqProperties
<1>4. InsertBefore(s, i, e) = (a \o <<e>>) \o b
  BY DEF InsertBefore
<1> HIDE DEF a, b
<1>5. <<e>> \in Seq(S) /\ Len(<<e>>) = 1 /\ <<e>>[1] = e
  OBVIOUS
<1> DEFINE c == a \o <<e>>
<1>6. c \in Seq(S) /\ Len(c) = i /\ \A k \in 1..i : c[k] = IF k < i THEN s[k] ELSE e
  BY <1>1, <1>2, <1>5
<1> HIDE DEF c
<1>7. c \o b \in Seq(S) /\ Len(c \o b) = Len(s) + 1
  BY <1>1, <1>3, <1>6
<1>8. ASSUME NEW k \in 1..(Len(s) + 1)
      PROVE  (c \o b)[k] = IF k < i THEN s[k] ELSE IF k = i THEN e ELSE s[k - 1]
  <2>0. k <= i \/ k > i
    BY <1>1
  <2>1. CASE k <= i
    BY <1>1, <1>3, <1>6, <2>1
  <2>2. CASE k > i
    <3>1. (c \o b)[k] = b[k - i]
      BY <1>1, <1>3, <1>6, <2>2
    <3>2. k - i \in 1..(Len(s) - i + 1)
      BY <1>1, <2>2
    <3>3. b[k - i] = s[i + (k - i) - 1]
      BY <1>3, <3>2
    <3> QED BY <1>1, <2>2, <3>1, <3>3
  <2> QED BY Zenon, <2>0, <2>1, <2>2
<1> QED BY <1>4, <1>7, <1>8 DEF c

\* nn_llist_erase_node: the order of the others stays.
LEMMA Erased ==
    ASSUME NEW S, NEW s \in Seq(S), NEW e, OncePerList(s)
    PROVE  /\ Without(s, e) \in Seq(S) /\ OncePerList(Without(s, e))
           /\ \E at \in 1..(Len(s) + 1) :
                \A k \in 1..Len(Without(s, e)) :
                  /\ Without(s, e)[k] # e
                  /\ IF k < at THEN k \in 1..Len(s) /\ Without(s, e)[k] = s[k]
                     ELSE k + 1 \in 1..Len(s) /\ Without(s, e)[k] = s[k + 1]
<1>0. Len(s) \in Nat /\ \A k \in 1..Len(s) : s[k] \in S
  OBVIOUS
<1> DEFINE at == {i \in 1..Len(s) : s[i] = e}
           w == Without(s, e)
<1>1. CASE at = {}
  <2>1. w = s
    BY <1>1 DEF Without
  <2>2. Len(s) + 1 \in 1..(Len(s) + 1) /\ \A k \in 1..Len(s) : k < Len(s) + 1
    BY <1>0
  <2> QED BY <1>1, <2>1, <2>2
<1>2. CASE at # {}
  <2> DEFINE i == CHOOSE i \in at : TRUE
  <2>1. i \in 1..Len(s) /\ s[i] = e
    BY <1>2
  <2>2. w = SubSeq(s, 1, i - 1) \o SubSeq(s, i + 1, Len(s))
    BY Zenon, <1>2 DEF Without
  <2> HIDE DEF i, at, w
  <2> DEFINE a == SubSeq(s, 1, i - 1)
             b == SubSeq(s, i + 1, Len(s))
  <2>3. a \in Seq(S) /\ Len(a) = i - 1 /\ \A k \in 1..(i - 1) : a[k] = s[k]
    BY <1>0, <2>1, SubSeqProperties
  <2>4. b \in Seq(S) /\ Len(b) = Len(s) - i /\ \A k \in 1..(Len(s) - i) : b[k] = s[i + k]
    <3>1. \A k \in (i + 1)..Len(s) : s[k] \in S
      BY <1>0, <2>1
    <3>2. /\ b \in Seq(S) /\ Len(b) = (IF i + 1 <= Len(s) THEN Len(s) - (i + 1) + 1 ELSE 0)
          /\ \A k \in 1..(Len(s) - (i + 1) + 1) : b[k] = s[(i + 1) + k - 1]
      BY <1>0, <2>1, <3>1, SubSeqProperties
    <3> HIDE DEF b
    <3> QED BY <1>0, <2>1, <3>2
  <2>5. w = a \o b
    BY <2>2
  <2> HIDE DEF a, b
  <2>6. w \in Seq(S) /\ Len(w) = Len(s) - 1
    BY <1>0, <2>1, <2>3, <2>4, <2>5, ConcatProperties
  <2>7. ASSUME NEW k \in 1..Len(w)
        PROVE  IF k < i THEN k \in 1..Len(s) /\ w[k] = s[k] ELSE k + 1 \in 1..Len(s) /\ w[k] = s[k + 1]
    <3>1. CASE k < i
      BY <1>0, <2>1, <2>3, <2>4, <2>5, <2>6, <3>1
    <3>2. CASE ~(k < i)
      <4>1. w[k] = b[k - (i - 1)]
        BY <1>0, <2>1, <2>3, <2>4, <2>5, <2>6, <3>2
      <4>2. k - (i - 1) \in 1..(Len(s) - i)
        BY <1>0, <2>1, <2>6, <3>2
      <4>3. b[k - (i - 1)] = s[i + (k - (i - 1))]
        BY <2>4, <4>2
      <4>4. i + (k - (i - 1)) = k + 1 /\ k + 1 \in 1..Len(s)
        BY <1>0, <2>1, <2>6
      <4> QED BY <3>2, <4>1, <4>3, <4>4
    <3> QED BY <3>1, <3>2
  <2>8. \A k \in 1..Len(w) : w[k] # e
    BY <1>0, <2>1, <2>6, <2>7 DEF OncePerList
  <2>9. OncePerList(w)
    <3>1. ASSUME NEW k \in 1..Len(w), NEW l \in 1..Len(w), w[k] = w[l] PROVE k = l
      <4> DEFINE kk == IF k < i THEN k ELSE k + 1
                 ll == IF l < i THEN l ELSE l + 1
      <4>1. kk \in 1..Len(s) /\ ll \in 1..Len(s) /\ w[k] = s[kk] /\ w[l] = s[ll]
        BY <2>7
      <4>2. kk = ll
        BY Zenon, <3>1, <4>1 DEF OncePerList
      <4> QED BY <2>1, <4>2
    <3> QED BY <3>1 DEF OncePerList
  <2>10. i \in 1..(Len(s) + 1)
    BY <1>0, <2>1
  <2> QED BY <2>6, <2>7, <2>8, <2>9, <2>10 DEF w
<1> QED BY <1>1, <1>2

-----------------------------------------------------------------------------
(* Timestamps *)

\* What Modulus and MaxDelay allow: a quarter of the range on each side.
LEMMA Range4 ==
    /\ Modulus \in Nat /\ Modulus > 0 /\ MaxDelay \in Nat /\ MaxDelay >= 1
    /\ Modulus \div 2 \in Nat /\ Modulus \div 4 \in Nat /\ 2 * (Modulus \div 2) = Modulus
    /\ MaxDelay <= Modulus \div 4 /\ 2 * (Modulus \div 4) <= Modulus \div 2
BY RangeAssumption

\* The remainder of a number that is known up to multiples of the modulus.
LEMMA Remainder ==
    ASSUME NEW r \in 0..(Modulus - 1), NEW k \in Int
    PROVE  (r + k * Modulus) % Modulus = r
BY Range4

LEMMA Quotient ==
    ASSUME NEW a \in Int
    PROVE  \E k \in Int, r \in 0..(Modulus - 1) : a = r + k * Modulus
<1>1. Modulus \in Nat /\ Modulus > 0
  BY Range4
<1>2. a \div Modulus \in Int /\ a % Modulus \in 0..(Modulus - 1)
  BY <1>1
<1>3. a = (a % Modulus) + (a \div Modulus) * Modulus
  BY <1>1
<1> QED BY <1>2, <1>3

\* A difference of two timestamps, or of a time and a timestamp, is that of the times, modulo the
\* range.
LEMMA StampDifference ==
    ASSUME NEW a \in Int, NEW b \in Int
    PROVE  /\ ((a % Modulus) - (b % Modulus)) % Modulus = (a - b) % Modulus
           /\ (a - (b % Modulus)) % Modulus = (a - b) % Modulus
<1>0. Modulus \in Nat /\ Modulus > 0
  BY Range4
<1>1. PICK ka \in Int, ra \in 0..(Modulus - 1) : a = ra + ka * Modulus
  BY Quotient
<1>2. PICK kb \in Int, rb \in 0..(Modulus - 1) : b = rb + kb * Modulus
  BY Quotient
<1>3. a % Modulus = ra /\ b % Modulus = rb
  BY <1>1, <1>2, Remainder
<1>4. PICK k \in Int, r \in 0..(Modulus - 1) : ra - rb = r + k * Modulus
  BY <1>0, Quotient
<1>5. (ra - rb) % Modulus = r
  BY <1>4, Remainder
<1>6. a - b = r + (k + ka - kb) * Modulus /\ k + ka - kb \in Int
  BY <1>0, <1>1, <1>2, <1>4
<1>7. (a - b) % Modulus = r
  BY <1>6, Remainder
<1>8. a - rb = r + (k + ka) * Modulus /\ k + ka \in Int
  BY <1>0, <1>1, <1>4
<1>9. (a - rb) % Modulus = r
  BY <1>8, Remainder
<1>10. \A x, y \in Int : x = ra /\ y = rb =>
         (x - y) % Modulus = (a - b) % Modulus /\ (a - y) % Modulus = (a - b) % Modulus
  BY <1>5, <1>7, <1>9
<1>11. a % Modulus \in Int /\ b % Modulus \in Int
  BY <1>3
<1> QED BY <1>3, <1>10, <1>11, Zenon

\* The int32_t of a difference of less than half the range is that difference.
LEMMA SignedDifference ==
    ASSUME NEW d \in Int, -(Modulus \div 2) <= d, d < Modulus \div 2
    PROVE  Signed(d % Modulus) = d
<1>0. Modulus \in Nat /\ Modulus > 0 /\ Modulus \div 2 \in Nat /\ 2 * (Modulus \div 2) = Modulus
  BY Range4
<1>1. CASE d >= 0
  <2>1. d \in 0..(Modulus - 1) /\ d + 0 * Modulus = d
    BY <1>0, <1>1
  <2>2. d % Modulus = d
    BY <2>1, Remainder
  <2> QED BY <2>2 DEF Signed
<1>2. CASE d < 0
  <2>1. d + Modulus \in 0..(Modulus - 1) /\ (d + Modulus) + (-1) * Modulus = d
    BY <1>0, <1>2
  <2>2. d % Modulus = d + Modulus
    BY <2>1, Remainder
  <2>3. ~(d + Modulus < Modulus \div 2)
    BY <1>0
  <2>4. Signed(d % Modulus) = (d + Modulus) - Modulus
    BY <2>2, <2>3 DEF Signed
  <2> QED BY <1>0, <2>4
<1> QED BY <1>1, <1>2

\* np_timestamp_less_or_equal, of times that are less than half the range apart.
LEMMA StampsCompare ==
    ASSUME ~Folded, NEW a \in Int, NEW b \in Int, -(Modulus \div 2) <= a - b, a - b < Modulus \div 2
    PROVE  LessOrEqual(a % Modulus, b % Modulus) <=> a <= b
<1>1. \A s, t : LessOrEqual(s, t) <=> Signed((s - t) % Modulus) <= 0
  BY Zenon DEF LessOrEqual
<1>2. ((a % Modulus) - (b % Modulus)) % Modulus = (a - b) % Modulus
  BY StampDifference
<1>3. Signed((a - b) % Modulus) = a - b
  BY SignedDifference
<1>4. LessOrEqual(a % Modulus, b % Modulus) <=> Signed(((a % Modulus) - (b % Modulus)) % Modulus) <= 0
  BY <1>1, Zenon
<1>5. Signed(((a % Modulus) - (b % Modulus)) % Modulus) = a - b
  BY <1>2, <1>3, Zenon
<1>6. a - b <= 0 <=> a <= b
  OBVIOUS
<1> QED BY <1>4, <1>5, <1>6, Zenon

-----------------------------------------------------------------------------
(* The event queue *)

QueueShape ==
    [events : Seq(Events), timed : Seq(Events), stamp : [Events -> Int], stopped : BOOLEAN,
     pc : {"loop", "locking", "taken", "wait", "timedWait", "exited"}, now : Int, wake : Int,
     event : Events \cup {None}, signals : Int, due : [Events -> Int], from : Int, void : BOOLEAN]

\* A timed event has the timestamp of its time, and that time is near the clock, c.
TimedSound(s, c, e) ==
    s.stamp[e] = s.due[e] % Modulus /\ s.due[e] <= c + MaxDelay /\ c - s.due[e] < Modulus \div 4

\* The two lists: no event is there twice, those posted at once may run, those that are timed are
\* sound and in the order of their times.
ListsSound(s, c) ==
    /\ OncePerList(s.events) /\ OncePerList(s.timed)
    /\ \A j \in 1..Len(s.events) : s.due[s.events[j]] <= c
    /\ \A i \in 1..Len(s.timed) :
         TimedSound(s, c, s.timed[i]) /\ \A j \in 1..Len(s.events) : s.events[j] # s.timed[i]
    /\ \A i, j \in 1..Len(s.timed) : i < j => s.due[s.timed[i]] <= s.due[s.timed[j]]

\* The queue thread: the time it has read is a recent one, and the event it has taken may run.
ThreadSound(s, c) ==
    /\ s.pc = "locking" => \E n \in Int : s.now = n % Modulus /\ n <= c /\ c - n < Modulus \div 4
    /\ s.pc = "taken" => s.from <= c

QInv == q \in QueueShape /\ clock \in Int /\ ListsSound(q, clock) /\ ThreadSound(q, clock)

\* The list t is s without e, or with nothing to leave out.
Shorter(t, s, e) ==
    /\ OncePerList(t)
    /\ \E at \in Int : \A k \in 1..Len(t) :
         /\ t[k] # e
         /\ IF k < at THEN k \in 1..Len(s) /\ t[k] = s[k] ELSE k + 1 \in 1..Len(s) /\ t[k] = s[k + 1]

LEMMA WithoutIsShorter ==
    ASSUME NEW s \in Seq(Events), NEW e, OncePerList(s)
    PROVE  Without(s, e) \in Seq(Events) /\ Shorter(Without(s, e), s, e)
<1> DEFINE t == Without(s, e)
<1>1. /\ t \in Seq(Events) /\ OncePerList(t)
      /\ \E at \in 1..(Len(s) + 1) :
           \A k \in 1..Len(t) :
             /\ t[k] # e
             /\ IF k < at THEN k \in 1..Len(s) /\ t[k] = s[k] ELSE k + 1 \in 1..Len(s) /\ t[k] = s[k + 1]
  BY Erased
<1> HIDE DEF t
<1>2. \A at \in 1..(Len(s) + 1) : at \in Int
  OBVIOUS
<1>3. Shorter(t, s, e)
  BY <1>1, <1>2, Zenon DEF Shorter
<1> QED BY <1>1, <1>3 DEF t

LEMMA TailIsShorter ==
    ASSUME NEW s \in Seq(Events), s # << >>, OncePerList(s)
    PROVE  Tail(s) \in Seq(Events) /\ Shorter(Tail(s), s, Head(s))
<1>1. /\ Len(s) \in Nat /\ Len(s) >= 1 /\ Tail(s) \in Seq(Events) /\ Len(Tail(s)) = Len(s) - 1 /\ Head(s) = s[1]
      /\ \A k \in 1..Len(Tail(s)) : Tail(s)[k] = s[k + 1]
  OBVIOUS
<1> DEFINE t == Tail(s)
<1> HIDE DEF t
<1>2. \A k \in 1..Len(t) : k + 1 \in 1..Len(s) /\ t[k] = s[k + 1] /\ ~(k < 0)
  BY <1>1 DEF t
<1>3. ASSUME NEW k \in 1..Len(t) PROVE t[k] # s[1]
  <2>1. k + 1 \in 1..Len(s) /\ 1 \in 1..Len(s) /\ k + 1 # 1
    BY <1>1, <1>2
  <2> QED BY <1>2, <2>1 DEF OncePerList
<1>4. ASSUME NEW k \in 1..Len(t), NEW l \in 1..Len(t), t[k] = t[l] PROVE k = l
  <2>1. k + 1 = l + 1
    BY <1>2, <1>4 DEF OncePerList
  <2> QED BY <2>1
<1>5. 0 \in Int /\ \A k \in 1..Len(t) :
         /\ t[k] # s[1]
         /\ IF k < 0 THEN k \in 1..Len(s) /\ t[k] = s[k] ELSE k + 1 \in 1..Len(s) /\ t[k] = s[k + 1]
  BY <1>2, <1>3
<1>6. Shorter(t, s, s[1])
  BY <1>4, <1>5, Zenon DEF Shorter, OncePerList
<1> QED BY <1>1, <1>6 DEF t

\* A list without e is that list.
LEMMA SameIsShorter ==
    ASSUME NEW s \in Seq(Events), NEW e, OncePerList(s), \A k \in 1..Len(s) : s[k] # e
    PROVE  Shorter(s, s, e)
<1>1. Len(s) + 1 \in Int /\ \A k \in 1..Len(s) : k < Len(s) + 1
  OBVIOUS
<1> QED BY Zenon, <1>1 DEF Shorter

\* An event leaves the lists.
LEMMA EventLeaves ==
    ASSUME NEW s \in QueueShape, NEW t \in QueueShape, NEW c \in Int, NEW e, ListsSound(s, c),
           Shorter(t.events, s.events, e), Shorter(t.timed, s.timed, e),
           \A g \in Events \ {e} : t.due[g] = s.due[g] /\ t.stamp[g] = s.stamp[g]
    PROVE  /\ ListsSound(t, c)
           /\ \A k \in 1..Len(t.events) : t.events[k] # e
           /\ \A k \in 1..Len(t.timed) : t.timed[k] # e
<1>1. PICK a \in Int : \A k \in 1..Len(t.events) :
         /\ t.events[k] # e
         /\ IF k < a THEN k \in 1..Len(s.events) /\ t.events[k] = s.events[k]
            ELSE k + 1 \in 1..Len(s.events) /\ t.events[k] = s.events[k + 1]
  BY Zenon DEF Shorter
<1>2. PICK b \in Int : \A k \in 1..Len(t.timed) :
         /\ t.timed[k] # e
         /\ IF k < b THEN k \in 1..Len(s.timed) /\ t.timed[k] = s.timed[k]
            ELSE k + 1 \in 1..Len(s.timed) /\ t.timed[k] = s.timed[k + 1]
  BY Zenon DEF Shorter
<1>3. /\ \A k \in 1..Len(t.events) : t.events[k] \in Events
      /\ \A k \in 1..Len(t.timed) : t.timed[k] \in Events
  <2>1. t.events \in Seq(Events) /\ t.timed \in Seq(Events)
    BY DEF QueueShape
  <2> QED BY <2>1, ElementOfSeq
<1>4. \A k \in 1..Len(t.events) : \E i \in 1..Len(s.events) : t.events[k] = s.events[i]
  BY <1>1
<1>5. \A k \in 1..Len(t.timed) : \E i \in 1..Len(s.timed) : t.timed[k] = s.timed[i]
  BY <1>2
<1>6. OncePerList(t.events) /\ OncePerList(t.timed)
  BY DEF Shorter
<1>7. \A j \in 1..Len(t.events) : t.due[t.events[j]] <= c
  <2> TAKE j \in 1..Len(t.events)
  <2>1. t.due[t.events[j]] = s.due[t.events[j]]
    BY <1>1, <1>3
  <2> QED BY <1>4, <2>1 DEF ListsSound
<1>8. \A i \in 1..Len(t.timed) :
         TimedSound(t, c, t.timed[i]) /\ \A j \in 1..Len(t.events) : t.events[j] # t.timed[i]
  <2> TAKE i \in 1..Len(t.timed)
  <2>1. t.due[t.timed[i]] = s.due[t.timed[i]] /\ t.stamp[t.timed[i]] = s.stamp[t.timed[i]]
    BY <1>2, <1>3
  <2>2. TimedSound(s, c, t.timed[i])
    BY <1>5 DEF ListsSound
  <2>3. \A j \in 1..Len(t.events) : t.events[j] # t.timed[i]
    BY <1>4, <1>5 DEF ListsSound
  <2> QED BY <2>1, <2>2, <2>3 DEF TimedSound
<1>9. \A i, j \in 1..Len(t.timed) : i < j => t.due[t.timed[i]] <= t.due[t.timed[j]]
  <2> SUFFICES ASSUME NEW i \in 1..Len(t.timed), NEW j \in 1..Len(t.timed), i < j
               PROVE  t.due[t.timed[i]] <= t.due[t.timed[j]]
    OBVIOUS
  <2> DEFINE ii == IF i < b THEN i ELSE i + 1
             jj == IF j < b THEN j ELSE j + 1
  <2>1. ii \in 1..Len(s.timed) /\ jj \in 1..Len(s.timed) /\ t.timed[i] = s.timed[ii] /\ t.timed[j] = s.timed[jj]
    BY <1>2
  <2>2. ii < jj
    OBVIOUS
  <2>3. s.due[s.timed[ii]] <= s.due[s.timed[jj]]
    BY <2>1, <2>2 DEF ListsSound
  <2>4. t.due[t.timed[i]] = s.due[t.timed[i]] /\ t.due[t.timed[j]] = s.due[t.timed[j]]
    BY Zenon, <1>2, <1>3
  <2> HIDE DEF ii, jj
  <2> QED BY <2>1, <2>3, <2>4
<1> QED BY <1>1, <1>2, <1>6, <1>7, <1>8, <1>9 DEF ListsSound

\* nm_event_queue_post_timed_event puts the event before the first that does not expire earlier.
LEMMA EventInserted ==
    ASSUME ~Folded, NEW s \in QueueShape, NEW t \in QueueShape, NEW c \in Int, ListsSound(s, c),
           NEW e \in Events, NEW d \in Int, d <= c + MaxDelay, c - d < Modulus \div 4,
           \A k \in 1..Len(s.events) : s.events[k] # e, \A k \in 1..Len(s.timed) : s.timed[k] # e,
           NEW at \in 1..(Len(s.timed) + 1),
           \A j \in 1..Len(s.timed) : j < at => ~LessOrEqual(d % Modulus, s.stamp[s.timed[j]]),
           at <= Len(s.timed) => LessOrEqual(d % Modulus, s.stamp[s.timed[at]]),
           t.events = s.events, t.timed = InsertBefore(s.timed, at, e),
           \A g \in Events \ {e} : t.due[g] = s.due[g] /\ t.stamp[g] = s.stamp[g],
           t.due[e] = d, t.stamp[e] = d % Modulus
    PROVE  ListsSound(t, c)
<1> DEFINE l == Len(s.timed)
<1>0. s.timed \in Seq(Events) /\ s.events \in Seq(Events) /\ l \in Nat /\ s.due \in [Events -> Int]
  <2>1. s.timed \in Seq(Events) /\ s.events \in Seq(Events) /\ s.due \in [Events -> Int]
    BY DEF QueueShape
  <2> QED BY <2>1, LenProperties
<1>1. /\ Len(t.timed) = l + 1
      /\ \A k \in 1..(l + 1) :
           t.timed[k] = IF k < at THEN s.timed[k] ELSE IF k = at THEN e ELSE s.timed[k - 1]
  <2> DEFINE ts == s.timed
             tt == t.timed
  <2>1. ts \in Seq(Events) /\ at \in 1..(Len(ts) + 1) /\ e \in Events
    BY <1>0
  <2>2. tt = InsertBefore(ts, at, e)
    OBVIOUS
  <2> HIDE DEF ts, tt
  <2>3. /\ Len(InsertBefore(ts, at, e)) = Len(ts) + 1
        /\ \A k \in 1..(Len(ts) + 1) :
             InsertBefore(ts, at, e)[k] = IF k < at THEN ts[k] ELSE IF k = at THEN e ELSE ts[k - 1]
    BY ONLY <2>1, InsertedAt
  <2>4. /\ Len(tt) = Len(ts) + 1
        /\ \A k \in 1..(Len(ts) + 1) :
             tt[k] = IF k < at THEN ts[k] ELSE IF k = at THEN e ELSE ts[k - 1]
    BY ONLY <2>2, <2>3
  <2> QED BY <2>4 DEF ts, tt
<1>2. (\A k \in 1..l : s.timed[k] \in Events) /\ \A k \in 1..Len(s.events) : s.events[k] \in Events
  BY <1>0, ElementOfSeq
<1> HIDE DEF l
<1>3. ASSUME NEW k \in 1..l
      PROVE  /\ t.due[s.timed[k]] = s.due[s.timed[k]] /\ TimedSound(t, c, s.timed[k])
             /\ s.due[s.timed[k]] \in Int /\ \A j \in 1..Len(s.events) : s.events[j] # s.timed[k]
             /\ LessOrEqual(d % Modulus, s.stamp[s.timed[k]]) <=> d <= s.due[s.timed[k]]
  <2> DEFINE x == s.timed[k]
             dx == s.due[x]
  <2>1. x \in Events /\ x # e
    BY <1>2 DEF l
  <2>2. dx \in Int /\ t.due[x] = dx /\ t.stamp[x] = s.stamp[x]
    BY Zenon, <1>0, <2>1
  <2>3. TimedSound(s, c, x) /\ \A j \in 1..Len(s.events) : s.events[j] # x
    BY DEF ListsSound, l
  <2> HIDE DEF x
  <2>4. s.stamp[x] = dx % Modulus /\ dx <= c + MaxDelay /\ c - dx < Modulus \div 4
    BY <2>3 DEF TimedSound
  <2>5. TimedSound(t, c, x)
    BY <2>2, <2>3 DEF TimedSound
  <2> HIDE DEF dx
  <2>6. -(Modulus \div 2) <= d - dx /\ d - dx < Modulus \div 2
    BY <2>2, <2>4, Range4
  <2>7. LessOrEqual(d % Modulus, dx % Modulus) <=> d <= dx
    BY Zenon, <2>2, <2>6, StampsCompare
  <2> QED BY <2>2, <2>3, <2>4, <2>5, <2>7 DEF x, dx
<1>4. ASSUME NEW k \in 1..(l + 1)
      PROVE  \/ k < at /\ k \in 1..l /\ t.timed[k] = s.timed[k]
             \/ k = at /\ t.timed[k] = e
             \/ k > at /\ k - 1 \in 1..l /\ t.timed[k] = s.timed[k - 1]
  BY <1>0, <1>1 DEF l
<1>5. OncePerList(t.events)
  BY DEF ListsSound
<1>6. \A j, k \in 1..l : s.timed[j] = s.timed[k] => j = k
  BY DEF ListsSound, OncePerList, l
<1>7. OncePerList(t.timed)
  <2> SUFFICES ASSUME NEW i \in 1..(l + 1), NEW j \in 1..(l + 1), t.timed[i] = t.timed[j] PROVE i = j
    BY <1>1 DEF OncePerList
  <2>1. \A k \in 1..l : s.timed[k] # e
    BY DEF l
  <2>2. i \in Int /\ j \in Int /\ at \in Int
    BY <1>0 DEF l
  <2>3. CASE i = at \/ j = at
    BY <1>4, <2>1, <2>2, <2>3
  <2>4. CASE i # at /\ j # at
    <3>1. CASE i < at /\ j < at
      BY <1>4, <1>6, <3>1
    <3>2. CASE i > at /\ j > at
      <4>1. i - 1 \in 1..l /\ j - 1 \in 1..l /\ s.timed[i - 1] = s.timed[j - 1]
        BY <1>4, <2>2, <3>2
      <4>2. i - 1 = j - 1
        BY <1>6, <4>1
      <4> QED BY <2>2, <4>2
    <3>3. CASE i < at /\ j > at
      <4>1. i \in 1..l /\ j - 1 \in 1..l /\ s.timed[i] = s.timed[j - 1]
        BY <1>4, <2>2, <3>3
      <4>2. i = j - 1
        BY <1>6, <4>1
      <4> QED BY <2>2, <3>3, <4>2
    <3>4. CASE i > at /\ j < at
      <4>1. i - 1 \in 1..l /\ j \in 1..l /\ s.timed[i - 1] = s.timed[j]
        BY <1>4, <2>2, <3>4
      <4>2. i - 1 = j
        BY <1>6, <4>1
      <4> QED BY <2>2, <3>4, <4>2
    <3> QED BY <2>2, <2>4, <3>1, <3>2, <3>3, <3>4
  <2> QED BY <2>3, <2>4
<1>8. \A j \in 1..Len(t.events) : t.due[t.events[j]] <= c
  BY <1>2 DEF ListsSound
<1>9. \A i \in 1..Len(t.timed) :
        TimedSound(t, c, t.timed[i]) /\ \A j \in 1..Len(t.events) : t.events[j] # t.timed[i]
  <2> TAKE i \in 1..Len(t.timed)
  <2>1. TimedSound(t, c, e)
    BY DEF TimedSound
  <2>2. i \in 1..(l + 1)
    BY <1>1
  <2>3. t.timed[i] = e \/ \E k \in 1..l : t.timed[i] = s.timed[k]
    BY <1>4, <2>2
  <2> QED BY <1>3, <2>1, <2>3
<1>10. \A j, k \in 1..l : j < k => s.due[s.timed[j]] <= s.due[s.timed[k]]
  BY DEF ListsSound, l
<1>11. \A j \in 1..l : IF j < at THEN s.due[s.timed[j]] <= d ELSE d <= s.due[s.timed[j]]
  <2> TAKE j \in 1..l
  <2>1. CASE j < at
    <3>1. ~(d <= s.due[s.timed[j]])
      BY <1>3, <2>1 DEF l
    <3> QED BY <1>3, <2>1, <3>1
  <2>2. CASE ~(j < at)
    <3>1. at \in 1..l
      BY <1>0, <2>2 DEF l
    <3>2. d <= s.due[s.timed[at]]
      BY <1>3, <3>1 DEF l
    <3>3. s.due[s.timed[at]] <= s.due[s.timed[j]]
      <4>1. CASE at = j
        BY <1>3, <4>1
      <4>2. CASE at < j
        BY <1>10, <3>1, <4>2
      <4> QED BY <2>2, <3>1, <4>1, <4>2
    <3>4. s.due[s.timed[at]] \in Int /\ s.due[s.timed[j]] \in Int
      BY <1>3, <3>1
    <3>5. d <= s.due[s.timed[j]]
      BY <3>2, <3>3, <3>4
    <3> QED BY <2>2, <3>5
  <2> QED BY <2>1, <2>2
<1>12. \A i, j \in 1..Len(t.timed) : i < j => t.due[t.timed[i]] <= t.due[t.timed[j]]
  <2> SUFFICES ASSUME NEW i \in 1..(l + 1), NEW j \in 1..(l + 1), i < j
               PROVE  t.due[t.timed[i]] <= t.due[t.timed[j]]
    BY <1>1
  <2>0. i \in Int /\ j \in Int /\ at \in Int
    BY <1>0 DEF l
  <2>1. CASE i = at
    <3>1. j - 1 \in 1..l /\ t.timed[j] = s.timed[j - 1] /\ t.timed[i] = e /\ ~(j - 1 < at)
      BY <1>4, <2>0, <2>1
    <3> QED BY <1>3, <1>11, <3>1
  <2>2. CASE j = at
    <3>1. i \in 1..l /\ t.timed[i] = s.timed[i] /\ t.timed[j] = e /\ i < at
      BY <1>4, <2>0, <2>2
    <3> QED BY <1>3, <1>11, <3>1
  <2>3. CASE i # at /\ j # at
    <3> DEFINE ii == IF i < at THEN i ELSE i - 1
               jj == IF j < at THEN j ELSE j - 1
    <3>1. ii \in 1..l /\ t.timed[i] = s.timed[ii]
      BY <1>4, <2>0, <2>3
    <3>2. jj \in 1..l /\ t.timed[j] = s.timed[jj]
      BY <1>4, <2>0, <2>3
    <3>3. ii < jj
      BY <2>0, <2>3
    <3> HIDE DEF ii, jj
    <3> QED BY <1>3, <1>10, <3>1, <3>2, <3>3
  <2> QED BY <2>1, <2>2, <2>3
<1> QED BY <1>5, <1>7, <1>8, <1>9, <1>12 DEF ListsSound

LEMMA QueueStart == QueueInit => QInv
<1> SUFFICES ASSUME QueueInit PROVE QInv
  OBVIOUS
<1>1. /\ q.events = << >> /\ q.timed = << >> /\ q.pc = "loop" /\ q \in QueueShape
  BY DEF QueueInit, QueueShape
<1>2. ListsSound(q, clock) /\ ThreadSound(q, clock)
  BY <1>1 DEF ListsSound, ThreadSound, OncePerList
<1>3. clock \in Int
  BY RangeAssumption DEF QueueInit
<1> QED BY <1>1, <1>2, <1>3 DEF QInv

\* A step that leaves the lists alone.
LEMMA ListsApart ==
    ASSUME QInv, q' \in QueueShape, clock' = clock, q'.events = q.events, q'.timed = q.timed,
           q'.stamp = q.stamp, q'.due = q.due, ThreadSound(q', clock)
    PROVE  QInv'
<1>1. ListsSound(q', clock)
  BY DEF QInv, ListsSound, TimedSound
<1> QED BY <1>1 DEF QInv

\* A field of the queue is given another value of its type.
LEMMA FieldSet ==
    ASSUME NEW s \in QueueShape
    PROVE  /\ \A v \in {"loop", "locking", "taken", "wait", "timedWait", "exited"} :
                [s EXCEPT !.pc = v] \in QueueShape
           /\ \A v \in Int : [s EXCEPT !.wake = v] \in QueueShape
           /\ \A v \in Int : [s EXCEPT !.now = v] \in QueueShape
           /\ \A v \in Int : [s EXCEPT !.from = v] \in QueueShape
           /\ \A v \in Int : [s EXCEPT !.signals = v] \in QueueShape
           /\ \A v \in BOOLEAN : [s EXCEPT !.void = v] \in QueueShape
           /\ \A v \in Events \cup {None} : [s EXCEPT !.event = v] \in QueueShape
           /\ \A v \in Seq(Events) : [s EXCEPT !.events = v] \in QueueShape
           /\ \A v \in Seq(Events) : [s EXCEPT !.timed = v] \in QueueShape
           /\ \A v \in [Events -> Int] : [s EXCEPT !.stamp = v] \in QueueShape
           /\ \A v \in [Events -> Int] : [s EXCEPT !.due = v] \in QueueShape
<1>1. ASSUME NEW v \in {"loop", "locking", "taken", "wait", "timedWait", "exited"} PROVE [s EXCEPT !.pc = v] \in QueueShape
  BY Zenon DEF QueueShape
<1>2. ASSUME NEW v \in Int PROVE [s EXCEPT !.wake = v] \in QueueShape
  BY Zenon DEF QueueShape
<1>3. ASSUME NEW v \in Int PROVE [s EXCEPT !.now = v] \in QueueShape
  BY Zenon DEF QueueShape
<1>4. ASSUME NEW v \in Int PROVE [s EXCEPT !.from = v] \in QueueShape
  BY Zenon DEF QueueShape
<1>5. ASSUME NEW v \in Int PROVE [s EXCEPT !.signals = v] \in QueueShape
  BY Zenon DEF QueueShape
<1>6. ASSUME NEW v \in BOOLEAN PROVE [s EXCEPT !.void = v] \in QueueShape
  BY Zenon DEF QueueShape
<1>7. ASSUME NEW v \in Events \cup {None} PROVE [s EXCEPT !.event = v] \in QueueShape
  BY Zenon DEF QueueShape
<1>8. ASSUME NEW v \in Seq(Events) PROVE [s EXCEPT !.events = v] \in QueueShape
  BY Zenon DEF QueueShape
<1>9. ASSUME NEW v \in Seq(Events) PROVE [s EXCEPT !.timed = v] \in QueueShape
  BY Zenon DEF QueueShape
<1>10. ASSUME NEW v \in [Events -> Int] PROVE [s EXCEPT !.stamp = v] \in QueueShape
  BY Zenon DEF QueueShape
<1>11. ASSUME NEW v \in [Events -> Int] PROVE [s EXCEPT !.due = v] \in QueueShape
  BY Zenon DEF QueueShape
<1> QED BY <1>1, <1>2, <1>3, <1>4, <1>5, <1>6, <1>7, <1>8, <1>9, <1>10, <1>11

\* The steps of the queue thread that take nothing, and the signals for it.
LEMMA WaitingKeeps ==
    ASSUME QInv, clock' = clock,
           StopQueue \/ Signal \/ ReadNow \/ WaitOrExit \/ TimedOut \/ \E e \in Events : RunEvent(e)
    PROVE  QInv'
<1>0. q \in QueueShape /\ clock \in Int /\ ThreadSound(q, clock) /\ ListsSound(q, clock)
  BY DEF QInv
<1>z. PICK zero \in Int : zero = 0
  OBVIOUS
<1>1. CASE StopQueue
  <2> DEFINE n == q.signals + 1
  <2>a. q' = [q EXCEPT !.stopped = TRUE, !.signals = n]
    BY ONLY <1>1 DEF StopQueue
  <2>b. n \in Int
    BY ONLY <1>0 DEF QueueShape
  <2> HIDE DEF n
  <2>1. /\ q' \in QueueShape /\ q'.events = q.events /\ q'.timed = q.timed /\ q'.stamp = q.stamp
        /\ q'.due = q.due /\ q'.pc = q.pc /\ q'.now = q.now /\ q'.from = q.from
    BY ONLY Zenon, <1>0, <2>a, <2>b DEF QueueShape
  <2>2. ThreadSound(q', clock)
    BY <1>0, <2>1 DEF ThreadSound
  <2> QED BY <2>1, <2>2, ListsApart
<1>2. CASE Signal
  <2> DEFINE n == q.signals - 1
             pc == IF q.pc \in {"wait", "timedWait"} THEN "loop" ELSE q.pc
  <2>a. q' = [q EXCEPT !.signals = n, !.wake = 0, !.pc = pc]
    BY ONLY <1>2 DEF Signal
  <2>b. n \in Int /\ pc \in {"loop", "locking", "taken", "wait", "timedWait", "exited"} /\ pc \in {q.pc, "loop"}
    BY ONLY <1>0 DEF QueueShape
  <2> HIDE DEF n, pc
  <2>1. /\ q' \in QueueShape /\ q'.events = q.events /\ q'.timed = q.timed /\ q'.stamp = q.stamp
        /\ q'.due = q.due /\ q'.pc \in {q.pc, "loop"} /\ q'.now = q.now /\ q'.from = q.from
    <3>1. q' \in QueueShape
      <4>1. [q EXCEPT !.signals = n] \in QueueShape
        BY Zenon, <1>0, <2>b, FieldSet
      <4>2. [[q EXCEPT !.signals = n] EXCEPT !.wake = zero] \in QueueShape
        BY Zenon, <4>1, FieldSet
      <4>3. [[[q EXCEPT !.signals = n] EXCEPT !.wake = zero] EXCEPT !.pc = pc] \in QueueShape
        BY Zenon, <2>b, <4>2, FieldSet
      <4> QED BY ONLY <1>z, <2>a, <4>3
    <3>2. /\ q'.events = q.events /\ q'.timed = q.timed /\ q'.stamp = q.stamp
              /\ q'.due = q.due /\ q'.pc \in {q.pc, "loop"} /\ q'.now = q.now /\ q'.from = q.from
      BY ONLY <1>0, <2>a, <2>b DEF QueueShape
    <3> QED BY <3>1, <3>2
  <2>2. ThreadSound(q', clock)
    BY <1>0, <2>1 DEF ThreadSound
  <2> QED BY <2>1, <2>2, ListsApart
<1>3. CASE ReadNow
  <2> DEFINE now == clock % Modulus
  <2>0. now \in Int /\ clock <= clock /\ clock - clock < Modulus \div 4
    BY <1>0, Range4
  <2>1. q' = [q EXCEPT !.pc = "locking", !.now = now]
    BY <1>3 DEF ReadNow
  <2> HIDE DEF now
  <2>2. /\ q' \in QueueShape /\ q'.events = q.events /\ q'.timed = q.timed /\ q'.stamp = q.stamp
        /\ q'.due = q.due /\ q'.pc = "locking" /\ q'.now = now
    BY Zenon, <1>0, <2>0, <2>1 DEF QueueShape
  <2>3. \E n \in Int : q'.now = n % Modulus /\ n <= clock /\ clock - n < Modulus \div 4
    BY <1>0, <2>0, <2>2 DEF now
  <2>4. ThreadSound(q', clock)
    BY <2>2, <2>3 DEF ThreadSound
  <2> QED BY <2>2, <2>4, ListsApart
<1>4. CASE WaitOrExit
  <2>1. PICK pc \in {"exited", "wait", "timedWait"}, wake \in Int :
          q' = [q EXCEPT !.now = 0, !.pc = pc, !.wake = wake]
    <3> DEFINE s == [q EXCEPT !.now = 0]
    <3>1. CASE q.timed = << >>
      <4>1. q.wake \in Int
        BY <1>0 DEF QueueShape
      <4>2. PICK pc \in {"exited", "wait"} : q' = [s EXCEPT !.pc = pc]
        BY Zenon, <1>4, <3>1 DEF WaitOrExit
      <4>3. q' = [q EXCEPT !.now = 0, !.pc = pc, !.wake = q.wake]
        BY Zenon, <1>0, <4>2 DEF QueueShape
      <4> QED BY Zenon, <4>1, <4>3
    <3>2. CASE q.timed # << >>
      <4> DEFINE wake == clock + Remaining
      <4>1. wake \in Int
        <5>1. Head(q.timed) \in Events
          <6>1. q.timed \in Seq(Events)
            BY <1>0 DEF QueueShape
          <6> QED BY <3>2, <6>1
        <5>2. q.stamp[Head(q.timed)] \in Int /\ q.now \in Int
          BY <1>0, <5>1 DEF QueueShape
        <5> DEFINE x == (q.stamp[Head(q.timed)] - q.now) % Modulus
        <5>3. x \in Int
          BY <5>2, Range4
        <5>4. Remaining = Signed(x)
          BY DEF Remaining
        <5> HIDE DEF x
        <5>5. Signed(x) \in Int
          BY <5>3, Range4 DEF Signed
        <5> QED BY <1>0, <5>4, <5>5
      <4>2. q' = [s EXCEPT !.pc = "timedWait", !.wake = wake]
        BY <1>4, <3>2 DEF WaitOrExit
      <4>3. q' = [q EXCEPT !.now = 0, !.pc = "timedWait", !.wake = wake]
        BY <1>0, <4>2 DEF QueueShape
      <4> QED BY Zenon, <4>1, <4>3
    <3> QED BY Zenon, <3>1, <3>2
  <2>2. /\ q' \in QueueShape /\ q'.events = q.events /\ q'.timed = q.timed /\ q'.stamp = q.stamp
        /\ q'.due = q.due /\ q'.pc = pc
    <3>1. q' \in QueueShape
      <4>1. [q EXCEPT !.now = zero] \in QueueShape
        BY Zenon, <1>0, FieldSet
      <4>2. [[q EXCEPT !.now = zero] EXCEPT !.pc = pc] \in QueueShape
        BY Zenon, <4>1, FieldSet
      <4>3. [[[q EXCEPT !.now = zero] EXCEPT !.pc = pc] EXCEPT !.wake = wake] \in QueueShape
        BY Zenon, <4>2, FieldSet
      <4> QED BY ONLY <1>z, <2>1, <4>3
    <3>2. /\ q'.events = q.events /\ q'.timed = q.timed /\ q'.stamp = q.stamp
              /\ q'.due = q.due /\ q'.pc = pc
      BY ONLY <1>0, <2>1 DEF QueueShape
    <3> QED BY <3>1, <3>2
  <2>3. ThreadSound(q', clock)
    BY <2>2 DEF ThreadSound
  <2> QED BY <2>2, <2>3, ListsApart
<1>5. CASE TimedOut
  <2>1. /\ q' \in QueueShape /\ q'.events = q.events /\ q'.timed = q.timed /\ q'.stamp = q.stamp
        /\ q'.due = q.due /\ q'.pc = "loop"
    <3>1. q' \in QueueShape
      <4>1. [q EXCEPT !.pc = "loop"] \in QueueShape
        BY Zenon, <1>0, FieldSet
      <4>2. [[q EXCEPT !.pc = "loop"] EXCEPT !.wake = zero] \in QueueShape
        BY Zenon, <4>1, FieldSet
      <4> QED BY ONLY <1>z, <1>5, <4>2 DEF TimedOut
    <3>2. /\ q'.events = q.events /\ q'.timed = q.timed /\ q'.stamp = q.stamp
              /\ q'.due = q.due /\ q'.pc = "loop"
      BY ONLY <1>0, <1>5 DEF TimedOut, QueueShape
    <3> QED BY <3>1, <3>2
  <2>2. ThreadSound(q', clock)
    BY <2>1 DEF ThreadSound
  <2> QED BY <2>1, <2>2, ListsApart
<1>6. CASE \E e \in Events : RunEvent(e)
  <2>1. /\ q' \in QueueShape /\ q'.events = q.events /\ q'.timed = q.timed /\ q'.stamp = q.stamp
        /\ q'.due = q.due /\ q'.pc = "loop"
    <3>1. q' \in QueueShape
      <4> DEFINE s == [[[q EXCEPT !.pc = "loop"] EXCEPT !.event = None] EXCEPT !.from = zero]
      <4>1. [q EXCEPT !.pc = "loop"] \in QueueShape
        BY Zenon, <1>0, FieldSet
      <4>2. [[q EXCEPT !.pc = "loop"] EXCEPT !.event = None] \in QueueShape
        BY Zenon, <4>1, FieldSet
      <4>3. s \in QueueShape
        BY Zenon, <4>2, FieldSet
      <4>4. [s EXCEPT !.void = FALSE] \in QueueShape
        <5> HIDE DEF s
        <5> QED BY Zenon, <4>3, FieldSet
      <4> QED BY ONLY <1>z, <1>6, <4>4 DEF RunEvent
    <3>2. /\ q'.events = q.events /\ q'.timed = q.timed /\ q'.stamp = q.stamp
              /\ q'.due = q.due /\ q'.pc = "loop"
      BY ONLY <1>0, <1>6 DEF RunEvent, QueueShape
    <3> QED BY <3>1, <3>2
  <2>2. ThreadSound(q', clock)
    BY <2>1 DEF ThreadSound
  <2> QED BY <2>1, <2>2, ListsApart
<1> QED BY <1>1, <1>2, <1>3, <1>4, <1>5, <1>6

\* Time passes, with the queue thread never a quarter of the range behind.
LEMMA TickKeeps ==
    ASSUME QInv, Tick, q' = q
    PROVE  QInv'
<1>0. q \in QueueShape /\ clock \in Int /\ ThreadSound(q, clock) /\ ListsSound(q, clock) /\ clock' = clock + 1
  BY DEF QInv, Tick
<1>1. q.timed \in Seq(Events) /\ q.events \in Seq(Events) /\ q.due \in [Events -> Int] /\ q.from \in Int
  BY <1>0 DEF QueueShape
<1>2. (\A k \in 1..Len(q.timed) : q.timed[k] \in Events) /\ \A k \in 1..Len(q.events) : q.events[k] \in Events
  BY <1>1, ElementOfSeq
<1>3. ASSUME NEW i \in 1..Len(q.timed) PROVE TimedSound(q, clock + 1, q.timed[i])
  <2> DEFINE e == q.timed[i]
             d == q.due[e]
  <2>1. e \in Range(q.timed)
    BY <1>1 DEF Range
  <2>2. d \in Int
    BY <1>1, <1>2
  <2>3. clock - d < (Modulus \div 4) - 1
    BY <2>1 DEF Tick
  <2>4. q.stamp[e] = d % Modulus /\ d <= clock + MaxDelay
    BY <1>0 DEF ListsSound, TimedSound
  <2> HIDE DEF e
  <2>5. d <= clock + 1 + MaxDelay /\ (clock + 1) - d < Modulus \div 4
    <3>1. PICK r \in Int : r = Modulus \div 4
      BY Range4
    <3>2. clock \in Int /\ MaxDelay \in Int /\ clock - d < r - 1
      BY <1>0, <2>3, <3>1, Range4
    <3> HIDE DEF d
    <3>3. d <= clock + 1 + MaxDelay /\ (clock + 1) - d < r
      BY ONLY <2>2, <2>4, <3>2
    <3> QED BY Zenon, <3>1, <3>3
  <2>6. TimedSound(q, clock + 1, e)
    BY Zenon, <2>4, <2>5 DEF TimedSound
  <2> QED BY <2>6 DEF e
<1>4. ASSUME NEW j \in 1..Len(q.events) PROVE q.due[q.events[j]] <= clock + 1
  <2>1. q.due[q.events[j]] <= clock
    BY Zenon, <1>0 DEF ListsSound
  <2>2. q.due[q.events[j]] \in Int
    BY <1>1, <1>2
  <2> QED BY <1>0, <2>1, <2>2
<1>5. ListsSound(q, clock + 1)
  BY <1>0, <1>3, <1>4 DEF ListsSound
<1>6. q.pc = "locking" => \E n \in Int : q.now = n % Modulus /\ n <= clock + 1 /\ clock + 1 - n < Modulus \div 4
  <2> SUFFICES ASSUME q.pc = "locking"
               PROVE  \E n \in Int : q.now = n % Modulus /\ n <= clock + 1 /\ clock + 1 - n < Modulus \div 4
    OBVIOUS
  <2>1. PICK n \in Int : q.now = n % Modulus /\ n <= clock /\ clock - n < Modulus \div 4
    BY <1>0 DEF ThreadSound
  <2>2. (clock - q.now) % Modulus < (Modulus \div 4) - 1
    BY DEF Tick
  <2>3. (clock - (n % Modulus)) % Modulus = (clock - n) % Modulus
    BY <1>0, StampDifference
  <2>4. clock - n \in 0..(Modulus - 1) /\ clock - n + 0 * Modulus = clock - n
    BY <1>0, <2>1, Range4
  <2>5. (clock - n) % Modulus = clock - n
    BY <2>4, Remainder
  <2>6. clock - n < (Modulus \div 4) - 1
    BY <2>1, <2>2, <2>3, <2>5, Zenon
  <2> QED BY <1>0, <2>1, <2>6, Range4
<1>7. ThreadSound(q, clock + 1)
  BY <1>0, <1>1, <1>6 DEF ThreadSound
<1> QED BY <1>0, <1>5, <1>7 DEF QInv

\* An event that is in no list is not an element of one.
LEMMA Unlisted ==
    ASSUME NEW e, ~Listed(e)
    PROVE  /\ \A k \in 1..Len(q.events) : q.events[k] # e
           /\ \A k \in 1..Len(q.timed) : q.timed[k] # e
BY DEF Listed, Range

LEMMA PostKeeps ==
    ASSUME QInv, NEW e \in Events, Post(e), clock' = clock
    PROVE  QInv'
<1>0. q \in QueueShape /\ clock \in Int /\ ThreadSound(q, clock) /\ ListsSound(q, clock)
  BY DEF QInv
<1> DEFINE n == q.signals + 1
<1>1. /\ n \in Int /\ q.events \in Seq(Events) /\ q.timed \in Seq(Events)
      /\ q.due \in [Events -> Int] /\ q.stamp \in [Events -> Int]
  BY ONLY <1>0 DEF QueueShape
<1>2. CASE Listed(e)
  <2>1. q' = [q EXCEPT !.signals = n]
    <3>1. [q.due EXCEPT ![e] = q.due[e]] = q.due
      BY Zenon, <1>1
    <3>2. q' = [[[q EXCEPT !.events = q.events] EXCEPT !.due = q.due] EXCEPT !.signals = n]
      BY Zenon, <1>2, <3>1 DEF Post
    <3> HIDE DEF n
    <3>3. [[q EXCEPT !.events = q.events] EXCEPT !.due = q.due] = q
      BY Zenon, <1>0 DEF QueueShape
    <3> QED BY ONLY Zenon, <3>2, <3>3
  <2> HIDE DEF n
  <2>2. /\ q' \in QueueShape /\ q'.events = q.events /\ q'.timed = q.timed /\ q'.stamp = q.stamp
        /\ q'.due = q.due /\ q'.pc = q.pc /\ q'.now = q.now /\ q'.from = q.from
    BY ONLY Zenon, <1>0, <1>1, <2>1 DEF QueueShape
  <2>3. ThreadSound(q', clock)
    BY <1>0, <2>2 DEF ThreadSound
  <2> QED BY <2>2, <2>3, ListsApart
<1>3. CASE ~Listed(e)
  <2> DEFINE events == Append(q.events, e)
             due == [q.due EXCEPT ![e] = clock]
             s1 == [q EXCEPT !.events = events]
             s2 == [s1 EXCEPT !.due = due]
             l == Len(q.events)
  <2>1. q' = [s2 EXCEPT !.signals = n]
    BY <1>3 DEF Post
  <2>2. /\ events \in Seq(Events) /\ l \in Nat /\ Len(events) = l + 1 /\ events[l + 1] = e
        /\ \A k \in 1..l : events[k] = q.events[k]
    BY <1>1
  <2>3. due \in [Events -> Int] /\ due[e] = clock /\ \A g \in Events \ {e} : due[g] = q.due[g]
    BY <1>0, <1>1
  <2> HIDE DEF n, events, due, l
  <2>4. s1 \in QueueShape
    BY Zenon, <1>0, <2>2, FieldSet
  <2> HIDE DEF s1
  <2>5. s2 \in QueueShape
    BY Zenon, <2>3, <2>4, FieldSet
  <2> HIDE DEF s2
  <2>6. q' \in QueueShape
    BY Zenon, <1>1, <2>1, <2>5, FieldSet
  <2>7. /\ q'.events = events /\ q'.due = due /\ q'.timed = q.timed /\ q'.stamp = q.stamp
        /\ q'.pc = q.pc /\ q'.now = q.now /\ q'.from = q.from
    <3>1. /\ s1.events = events /\ s1.timed = q.timed /\ s1.stamp = q.stamp
          /\ s1.pc = q.pc /\ s1.now = q.now /\ s1.from = q.from
      BY ONLY <1>0 DEF s1, QueueShape
    <3>2. /\ s2.events = events /\ s2.timed = q.timed /\ s2.stamp = q.stamp /\ s2.due = due
          /\ s2.pc = q.pc /\ s2.now = q.now /\ s2.from = q.from
      BY ONLY <2>4, <3>1 DEF s2, QueueShape
    <3> QED BY ONLY <2>1, <2>5, <3>2 DEF QueueShape
  <2>8. ThreadSound(q', clock)
    BY <1>0, <2>7 DEF ThreadSound
  <2>9. /\ \A k \in 1..l : q.events[k] # e /\ q.events[k] \in Events
        /\ \A k \in 1..Len(q.timed) : q.timed[k] # e /\ q.timed[k] \in Events
    BY <1>1, <1>3, Unlisted, ElementOfSeq DEF l
  <2>10. ListsSound(q', clock)
    <3>1. OncePerList(q'.events)
      <4> SUFFICES ASSUME NEW i \in 1..(l + 1), NEW j \in 1..(l + 1), events[i] = events[j]
                   PROVE  i = j
        BY <2>2, <2>7 DEF OncePerList
      <4>1. OncePerList(q.events)
        BY <1>0 DEF ListsSound
      <4>2. CASE i \in 1..l /\ j \in 1..l
        BY <2>2, <4>1, <4>2 DEF OncePerList, l
      <4>3. CASE i = l + 1 \/ j = l + 1
        BY <2>2, <2>9, <4>3
      <4> QED BY <2>2, <4>2, <4>3
    <3>2. OncePerList(q'.timed)
      BY <1>0, <2>7 DEF ListsSound
    <3>3. ASSUME NEW j \in 1..Len(q'.events) PROVE q'.due[q'.events[j]] <= clock
      <4>1. j \in 1..(l + 1)
        BY <2>2, <2>7
      <4>2. CASE j = l + 1
        BY <1>0, <2>2, <2>3, <2>7, <4>2
      <4>3. CASE j \in 1..l
        <5>1. q.due[q.events[j]] <= clock
          BY <1>0, <4>3 DEF ListsSound, l
        <5> QED BY <2>2, <2>3, <2>7, <2>9, <4>3, <5>1
      <4> QED BY <2>2, <4>1, <4>2, <4>3
    <3>4. ASSUME NEW i \in 1..Len(q'.timed)
          PROVE  TimedSound(q', clock, q'.timed[i]) /\ \A j \in 1..Len(q'.events) : q'.events[j] # q'.timed[i]
      <4>1. TimedSound(q, clock, q.timed[i]) /\ \A j \in 1..l : q.events[j] # q.timed[i]
        BY <1>0, <2>7 DEF ListsSound, l
      <4>2. q.timed[i] \in Events \ {e}
        BY <2>7, <2>9
      <4>3. TimedSound(q', clock, q.timed[i])
        BY <2>3, <2>7, <4>1, <4>2 DEF TimedSound
      <4>4. ASSUME NEW j \in 1..(l + 1) PROVE events[j] # q.timed[i]
        <5>1. j \in 1..l \/ j = l + 1
          BY <2>2
        <5> QED BY <2>2, <4>1, <4>2, <5>1
      <4> QED BY <2>2, <2>7, <4>3, <4>4
    <3>5. ASSUME NEW i \in 1..Len(q'.timed), NEW j \in 1..Len(q'.timed), i < j
          PROVE  q'.due[q'.timed[i]] <= q'.due[q'.timed[j]]
      <4>1. q.due[q.timed[i]] <= q.due[q.timed[j]]
        BY <1>0, <2>7, <3>5 DEF ListsSound
      <4> QED BY <2>3, <2>7, <2>9, <4>1
    <3> QED BY <3>1, <3>2, <3>3, <3>4, <3>5 DEF ListsSound
  <2> QED BY <1>0, <2>6, <2>8, <2>10 DEF QInv
<1> QED BY <1>2, <1>3

LEMMA CancelKeeps ==
    ASSUME QInv, NEW e \in Events, Cancel(e), clock' = clock
    PROVE  QInv'
<1>0. q \in QueueShape /\ clock \in Int /\ ThreadSound(q, clock) /\ ListsSound(q, clock)
  BY DEF QInv
<1>1. /\ q.events \in Seq(Events) /\ q.timed \in Seq(Events) /\ OncePerList(q.events) /\ OncePerList(q.timed)
      /\ q.due \in [Events -> Int] /\ q.stamp \in [Events -> Int] /\ q.void \in BOOLEAN
  BY ONLY <1>0 DEF QueueShape, ListsSound
<1> DEFINE events == Without(q.events, e)
           timed == Without(q.timed, e)
           stamp == [q.stamp EXCEPT ![e] = 0]
           due == [q.due EXCEPT ![e] = 0]
           void == q.void \/ q.event = e
           s1 == [q EXCEPT !.events = events]
           s2 == [s1 EXCEPT !.timed = timed]
           s3 == [s2 EXCEPT !.stamp = stamp]
           s4 == [s3 EXCEPT !.due = due]
<1>2. q' = [s4 EXCEPT !.void = void]
  BY DEF Cancel
<1>3. /\ events \in Seq(Events) /\ Shorter(events, q.events, e)
      /\ timed \in Seq(Events) /\ Shorter(timed, q.timed, e)
  BY <1>1, WithoutIsShorter
<1>4. /\ stamp \in [Events -> Int] /\ due \in [Events -> Int] /\ void \in BOOLEAN
      /\ \A g \in Events \ {e} : due[g] = q.due[g] /\ stamp[g] = q.stamp[g]
  <2>1. void \in BOOLEAN
    BY ONLY TRUE
  <2> HIDE DEF void
  <2>2. /\ stamp \in [Events -> Int] /\ due \in [Events -> Int]
        /\ \A g \in Events \ {e} : due[g] = q.due[g] /\ stamp[g] = q.stamp[g]
    BY ONLY <1>1
  <2> QED BY <2>1, <2>2
<1> HIDE DEF events, timed, stamp, due, void
<1>5. s1 \in QueueShape
  BY Zenon, <1>0, <1>3, FieldSet
<1>6. /\ s1.events = events /\ s1.pc = q.pc /\ s1.now = q.now /\ s1.from = q.from
  BY ONLY <1>0 DEF QueueShape
<1> HIDE DEF s1
<1>7. s2 \in QueueShape
  BY Zenon, <1>3, <1>5, FieldSet
<1>8. /\ s2.events = events /\ s2.timed = timed /\ s2.pc = q.pc /\ s2.now = q.now /\ s2.from = q.from
  BY ONLY <1>5, <1>6 DEF QueueShape
<1> HIDE DEF s2
<1>9. s3 \in QueueShape
  BY Zenon, <1>4, <1>7, FieldSet
<1>10. /\ s3.events = events /\ s3.timed = timed /\ s3.stamp = stamp
       /\ s3.pc = q.pc /\ s3.now = q.now /\ s3.from = q.from
  BY ONLY <1>7, <1>8 DEF QueueShape
<1> HIDE DEF s3
<1>11. s4 \in QueueShape
  BY Zenon, <1>4, <1>9, FieldSet
<1>12. /\ s4.events = events /\ s4.timed = timed /\ s4.stamp = stamp /\ s4.due = due
       /\ s4.pc = q.pc /\ s4.now = q.now /\ s4.from = q.from
  BY ONLY <1>9, <1>10 DEF QueueShape
<1> HIDE DEF s4
<1>13. q' \in QueueShape
  BY Zenon, <1>2, <1>4, <1>11, FieldSet
<1>14. /\ q'.events = events /\ q'.timed = timed /\ q'.stamp = stamp /\ q'.due = due
       /\ q'.pc = q.pc /\ q'.now = q.now /\ q'.from = q.from
  BY ONLY <1>2, <1>11, <1>12 DEF QueueShape
<1>15. ListsSound(q', clock)
  <2>1. /\ Shorter(q'.events, q.events, e) /\ Shorter(q'.timed, q.timed, e)
        /\ \A g \in Events \ {e} : q'.due[g] = q.due[g] /\ q'.stamp[g] = q.stamp[g]
    BY ONLY <1>3, <1>4, <1>14
  <2> QED BY ONLY <1>0, <1>13, <2>1, EventLeaves
<1>16. ThreadSound(q', clock)
  BY <1>0, <1>14 DEF ThreadSound
<1> QED BY <1>0, <1>13, <1>15, <1>16 DEF QInv

LEMMA PostTimedKeeps ==
    ASSUME ~Folded, QInv, NEW e \in Events, NEW ms \in 1..MaxDelay, PostTimed(e, ms), clock' = clock
    PROVE  QInv'
<1>0. q \in QueueShape /\ clock \in Int /\ ThreadSound(q, clock) /\ ListsSound(q, clock)
  BY DEF QInv
<1>1. /\ q.events \in Seq(Events) /\ q.timed \in Seq(Events) /\ OncePerList(q.events) /\ OncePerList(q.timed)
      /\ q.due \in [Events -> Int] /\ q.stamp \in [Events -> Int] /\ q.signals + 1 \in Int
  BY ONLY <1>0 DEF QueueShape, ListsSound
<1> DEFINE d == clock + ms
           t == d % Modulus
           events == Without(q.events, e)
           rest == Without(q.timed, e)
           timed == Inserted(rest, e, t)
           stamp == [q.stamp EXCEPT ![e] = t]
           due == [q.due EXCEPT ![e] = d]
           n == q.signals + 1
           s1 == [q EXCEPT !.stamp = stamp]
           s2 == [s1 EXCEPT !.events = events]
           s3 == [s2 EXCEPT !.timed = timed]
           s4 == [s3 EXCEPT !.due = due]
           \* The queue with e taken out and not yet inserted.
           o1 == [q EXCEPT !.events = events]
           o == [o1 EXCEPT !.timed = rest]
<1>2. q' = [s4 EXCEPT !.signals = n]
  BY DEF PostTimed
<1>3. /\ events \in Seq(Events) /\ Shorter(events, q.events, e)
      /\ rest \in Seq(Events) /\ Shorter(rest, q.timed, e)
  BY <1>1, WithoutIsShorter
<1>4. d \in Int /\ d <= clock + MaxDelay /\ clock - d < Modulus \div 4 /\ t \in Int
  BY <1>0, Range4
<1> HIDE DEF events, rest, d
<1>5. /\ stamp \in [Events -> Int] /\ due \in [Events -> Int] /\ due[e] = d /\ stamp[e] = t /\ n \in Int
      /\ \A g \in Events \ {e} : due[g] = q.due[g] /\ stamp[g] = q.stamp[g]
  BY <1>1, <1>4
<1> HIDE DEF t
<1>6. PICK at \in 1..(Len(rest) + 1) :
        /\ \A j \in 1..Len(rest) : j < at => ~LessOrEqual(t, q.stamp[rest[j]])
        /\ at <= Len(rest) => LessOrEqual(t, q.stamp[rest[at]])
        /\ timed = InsertBefore(rest, at, e)
  <2> DEFINE l == Len(rest)
             later == {i \in 1 .. l : LessOrEqual(t, q.stamp[rest[i]])}
             P(i) == i \in later \cup {l + 1} /\ \A j \in later : i <= j
             at == CHOOSE i \in later \cup {l + 1} : \A j \in later : i <= j
  <2>1. l \in Nat
    BY <1>3, LenProperties
  <2>2. later \in SUBSET Nat /\ later \in SUBSET (1..l)
    BY <2>1
  <2>3. \E i \in later \cup {l + 1} : \A j \in later : i <= j
    BY Zenon, <2>1, <2>2, HasLeast
  <2>4. at \in later \cup {l + 1} /\ \A j \in later : at <= j
    <3> HIDE DEF later, l
    <3> QED BY Zenon, <2>3
  <2>5. timed = InsertBefore(rest, at, e)
    BY DEF Inserted
  <2> HIDE DEF at
  <2>6. at \in 1..(l + 1)
    BY <2>1, <2>2, <2>4
  <2>7. ASSUME NEW j \in 1..l, j < at PROVE ~LessOrEqual(t, q.stamp[rest[j]])
    BY <2>1, <2>4, <2>6, <2>7
  <2>8. at <= l => LessOrEqual(t, q.stamp[rest[at]])
    BY <2>1, <2>4, <2>6
  <2> QED BY <2>5, <2>6, <2>7, <2>8
<1> DEFINE inserted == InsertBefore(rest, at, e)
<1>7. timed = inserted /\ inserted \in Seq(Events)
  BY <1>3, <1>6, InsertedAt
<1> HIDE DEF timed, inserted, stamp, due, n
<1>8. o \in QueueShape
  <2>1. o1 \in QueueShape
    BY Zenon, <1>0, <1>3, FieldSet
  <2> HIDE DEF o1
  <2> QED BY Zenon, <1>3, <2>1, FieldSet
<1>9. o.events = events /\ o.timed = rest /\ o.due = q.due /\ o.stamp = q.stamp
  BY ONLY <1>0 DEF QueueShape
<1> HIDE DEF o
<1>10. /\ ListsSound(o, clock)
       /\ \A k \in 1..Len(o.events) : o.events[k] # e
       /\ \A k \in 1..Len(o.timed) : o.timed[k] # e
  BY ZenonT(40), <1>0, <1>3, <1>8, <1>9, EventLeaves
<1>11. s1 \in QueueShape /\ s1.stamp = stamp /\ s1.pc = q.pc /\ s1.now = q.now /\ s1.from = q.from
  <2>1. s1 \in QueueShape
    BY Zenon, <1>0, <1>5, FieldSet
  <2> QED BY ONLY Zenon, <1>0, <2>1 DEF QueueShape
<1> HIDE DEF s1
<1>12. /\ s2 \in QueueShape /\ s2.stamp = stamp /\ s2.events = events
       /\ s2.pc = q.pc /\ s2.now = q.now /\ s2.from = q.from
  <2>1. s2 \in QueueShape
    BY Zenon, <1>3, <1>11, FieldSet
  <2> QED BY ONLY Zenon, <1>11, <2>1 DEF QueueShape
<1> HIDE DEF s2
<1>13. /\ s3 \in QueueShape /\ s3.stamp = stamp /\ s3.events = events /\ s3.timed = timed
       /\ s3.pc = q.pc /\ s3.now = q.now /\ s3.from = q.from
  <2>1. s3 \in QueueShape
    BY Zenon, <1>7, <1>12, FieldSet
  <2> QED BY ONLY Zenon, <1>12, <2>1 DEF QueueShape
<1> HIDE DEF s3
<1>14. /\ s4 \in QueueShape /\ s4.stamp = stamp /\ s4.events = events /\ s4.timed = timed /\ s4.due = due
       /\ s4.pc = q.pc /\ s4.now = q.now /\ s4.from = q.from
  <2>1. s4 \in QueueShape
    BY Zenon, <1>5, <1>13, FieldSet
  <2> QED BY ONLY Zenon, <1>13, <2>1 DEF QueueShape
<1> HIDE DEF s4
<1>15. /\ q' \in QueueShape /\ q'.stamp = stamp /\ q'.events = events /\ q'.timed = timed /\ q'.due = due
       /\ q'.pc = q.pc /\ q'.now = q.now /\ q'.from = q.from
  <2>1. q' \in QueueShape
    BY ZenonT(40), <1>2, <1>5, <1>14, FieldSet
  <2> QED BY ONLY Zenon, <1>2, <1>14, <2>1 DEF QueueShape
<1>16. ListsSound(q', clock)
  <2>1. /\ q'.events = o.events /\ q'.timed = InsertBefore(o.timed, at, e) /\ q'.due[e] = d /\ q'.stamp[e] = t
        /\ \A g \in Events \ {e} : q'.due[g] = o.due[g] /\ q'.stamp[g] = o.stamp[g]
    BY <1>5, <1>7, <1>9, <1>15 DEF inserted
  <2>2. /\ at \in 1..(Len(o.timed) + 1)
        /\ \A j \in 1..Len(o.timed) : j < at => ~LessOrEqual(d % Modulus, o.stamp[o.timed[j]])
        /\ at <= Len(o.timed) => LessOrEqual(d % Modulus, o.stamp[o.timed[at]])
    BY <1>6, <1>9 DEF t
  <2>3. q'.stamp[e] = d % Modulus
    BY <2>1 DEF t
  <2>4. q' \in QueueShape
    BY <1>15
  <2> HIDE DEF t
  <2> QED BY ONLY <1>0, <1>4, <1>8, <1>10, <2>1, <2>2, <2>3, <2>4, EventInserted, ~Folded, e \in Events
<1>17. ThreadSound(q', clock)
  BY <1>0, <1>15 DEF ThreadSound
<1> QED BY <1>0, <1>15, <1>16, <1>17 DEF QInv

LEMMA TakeShape ==
    ASSUME NEW s \in QueueShape, NEW e \in Events
    PROVE  LET t == Take(s, e) IN
           /\ t \in QueueShape /\ t.events = s.events /\ t.timed = s.timed
           /\ t.pc = "taken" /\ t.from = s.due[e]
           /\ \A g \in Events \ {e} : t.due[g] = s.due[g] /\ t.stamp[g] = s.stamp[g]
<1>z. PICK zero \in Int : zero = 0
  OBVIOUS
<1>0. /\ s.due \in [Events -> Int] /\ s.stamp \in [Events -> Int] /\ s.due[e] \in Int
      /\ s.events \in Seq(Events) /\ s.timed \in Seq(Events)
  BY DEF QueueShape
<1> DEFINE from == s.due[e]
           stamp == [s.stamp EXCEPT ![e] = zero]
           due == [s.due EXCEPT ![e] = zero]
           s1 == [s EXCEPT !.pc = "taken"]
           s2 == [s1 EXCEPT !.event = e]
           s3 == [s2 EXCEPT !.now = zero]
           s4 == [s3 EXCEPT !.from = from]
           s5 == [s4 EXCEPT !.stamp = stamp]
           s6 == [s5 EXCEPT !.due = due]
<1>1. Take(s, e) = s6
  BY <1>z DEF Take
<1>2. /\ stamp \in [Events -> Int] /\ due \in [Events -> Int] /\ from \in Int
      /\ \A g \in Events \ {e} : due[g] = s.due[g] /\ stamp[g] = s.stamp[g]
  BY ONLY <1>z, <1>0
<1> HIDE DEF from, stamp, due
<1>3. s1 \in QueueShape /\ s1.events = s.events /\ s1.timed = s.timed /\ s1.pc = "taken"
  <2>1. s1 \in QueueShape
    BY Zenon, FieldSet
  <2> QED BY ONLY Zenon, s \in QueueShape, <2>1 DEF QueueShape
<1> HIDE DEF s1
<1>4. s2 \in QueueShape /\ s2.events = s.events /\ s2.timed = s.timed /\ s2.pc = "taken"
  <2>1. s2 \in QueueShape
    BY Zenon, <1>3, FieldSet
  <2> QED BY ONLY Zenon, <1>3, <2>1 DEF QueueShape
<1> HIDE DEF s2
<1>5. s3 \in QueueShape /\ s3.events = s.events /\ s3.timed = s.timed /\ s3.pc = "taken"
  <2>1. s3 \in QueueShape
    BY Zenon, <1>4, FieldSet
  <2> QED BY ONLY Zenon, <1>4, <2>1 DEF QueueShape
<1> HIDE DEF s3
<1>6. s4 \in QueueShape /\ s4.events = s.events /\ s4.timed = s.timed /\ s4.pc = "taken" /\ s4.from = from
  <2>1. s4 \in QueueShape
    BY Zenon, <1>2, <1>5, FieldSet
  <2> QED BY ONLY Zenon, <1>5, <2>1 DEF QueueShape
<1> HIDE DEF s4
<1>7. /\ s5 \in QueueShape /\ s5.events = s.events /\ s5.timed = s.timed /\ s5.pc = "taken" /\ s5.from = from
      /\ s5.stamp = stamp
  <2>1. s5 \in QueueShape
    BY Zenon, <1>2, <1>6, FieldSet
  <2> QED BY ONLY Zenon, <1>6, <2>1 DEF QueueShape
<1> HIDE DEF s5
<1>8. /\ s6 \in QueueShape /\ s6.events = s.events /\ s6.timed = s.timed /\ s6.pc = "taken" /\ s6.from = from
      /\ s6.stamp = stamp /\ s6.due = due
  <2>1. s6 \in QueueShape
    BY Zenon, <1>2, <1>7, FieldSet
  <2> QED BY ONLY Zenon, <1>7, <2>1 DEF QueueShape
<1> HIDE DEF s6
<1> QED BY <1>1, <1>2, <1>8 DEF from

LEMMA TakeEventKeeps ==
    ASSUME QInv, TakeEvent, clock' = clock
    PROVE  QInv'
<1>0. q \in QueueShape /\ clock \in Int /\ ThreadSound(q, clock) /\ ListsSound(q, clock) /\ q.events # << >>
  BY DEF QInv, TakeEvent
<1>1. /\ q.events \in Seq(Events) /\ q.timed \in Seq(Events) /\ OncePerList(q.events) /\ OncePerList(q.timed)
      /\ q.due \in [Events -> Int]
  BY ONLY <1>0 DEF QueueShape, ListsSound
<1> DEFINE e == Head(q.events)
           t == Take(q, e)
           events == Tail(q.events)
<1>2. /\ e \in Events /\ e = q.events[1] /\ 1 \in 1..Len(q.events)
      /\ events \in Seq(Events) /\ Shorter(events, q.events, e)
  <2>1. e \in Events /\ e = q.events[1] /\ 1 \in 1..Len(q.events)
    BY <1>0, <1>1
  <2> QED BY <1>0, <1>1, <2>1, TailIsShorter
<1>3. q' = [t EXCEPT !.events = Tail(t.events)]
  BY DEF TakeEvent
<1>4. q.due[e] <= clock
  BY <1>0, <1>2 DEF ListsSound
<1>5. \A k \in 1..Len(q.timed) : q.timed[k] # e
  BY <1>0, <1>2 DEF ListsSound
<1>6. Shorter(q.timed, q.timed, e)
  BY <1>1, <1>5, SameIsShorter
<1> HIDE DEF e, t, events
<1>7. /\ t \in QueueShape /\ t.events = q.events /\ t.timed = q.timed /\ t.pc = "taken" /\ t.from = q.due[e]
      /\ \A g \in Events \ {e} : t.due[g] = q.due[g] /\ t.stamp[g] = q.stamp[g]
  BY <1>0, <1>2, TakeShape DEF t
<1>8. q' = [t EXCEPT !.events = events]
  BY <1>3, <1>7 DEF events
<1>9. q' \in QueueShape
  BY Zenon, <1>2, <1>7, <1>8, FieldSet
<1>10. /\ q'.events = events /\ q'.timed = t.timed /\ q'.due = t.due /\ q'.stamp = t.stamp
       /\ q'.pc = "taken" /\ q'.from = t.from
  BY ONLY <1>7, <1>8 DEF QueueShape
<1>11. ListsSound(q', clock)
  <2>1. /\ Shorter(q'.events, q.events, e) /\ Shorter(q'.timed, q.timed, e)
        /\ \A g \in Events \ {e} : q'.due[g] = q.due[g] /\ q'.stamp[g] = q.stamp[g]
    BY ONLY <1>2, <1>6, <1>7, <1>10
  <2> QED BY ONLY <1>0, <1>9, <2>1, EventLeaves
<1>12. ThreadSound(q', clock)
  BY <1>4, <1>7, <1>10 DEF ThreadSound
<1> QED BY <1>0, <1>9, <1>11, <1>12 DEF QInv

LEMMA TakeTimedKeeps ==
    ASSUME ~Folded, QInv, TakeTimedEvent, clock' = clock
    PROVE  QInv'
<1>0. /\ q \in QueueShape /\ clock \in Int /\ ThreadSound(q, clock) /\ ListsSound(q, clock)
      /\ q.timed # << >> /\ q.events = << >> /\ q.pc = "locking" /\ LessOrEqual(q.stamp[Head(q.timed)], q.now)
  BY DEF QInv, TakeTimedEvent, Due
<1>1. /\ q.events \in Seq(Events) /\ q.timed \in Seq(Events) /\ OncePerList(q.events) /\ OncePerList(q.timed)
      /\ q.due \in [Events -> Int]
  BY ONLY <1>0 DEF QueueShape, ListsSound
<1> DEFINE e == Head(q.timed)
           t == Take(q, e)
           timed == Tail(q.timed)
<1>2. /\ e \in Events /\ e = q.timed[1] /\ 1 \in 1..Len(q.timed)
      /\ timed \in Seq(Events) /\ Shorter(timed, q.timed, e)
  <2>1. e \in Events /\ e = q.timed[1] /\ 1 \in 1..Len(q.timed)
    BY <1>0, <1>1
  <2> QED BY <1>0, <1>1, <2>1, TailIsShorter
<1>3. q' = [t EXCEPT !.timed = Tail(t.timed)]
  BY DEF TakeTimedEvent
<1>4. LessOrEqual(q.stamp[e], q.now)
  BY <1>0
<1>5. TimedSound(q, clock, e)
  BY <1>0, <1>2 DEF ListsSound
<1>6. Shorter(q.events, q.events, e)
  <2>1. \A k \in 1..Len(q.events) : q.events[k] # e
    BY <1>0, <1>2 DEF ListsSound
  <2> QED BY <1>1, <2>1, SameIsShorter
<1> HIDE DEF e, t, timed
<1>7. q.due[e] <= clock
  <2> DEFINE d == q.due[e]
  <2>1. d \in Int /\ q.stamp[e] = d % Modulus /\ d <= clock + MaxDelay /\ clock - d < Modulus \div 4
    BY <1>1, <1>2, <1>5 DEF TimedSound
  <2> HIDE DEF d
  <2>2. PICK n \in Int : q.now = n % Modulus /\ n <= clock /\ clock - n < Modulus \div 4
    BY <1>0 DEF ThreadSound
  <2>3. -(Modulus \div 2) <= d - n /\ d - n < Modulus \div 2
    BY ONLY <1>0, <2>1, <2>2, Range4
  <2>4. LessOrEqual(d % Modulus, n % Modulus)
    BY <1>4, <2>1, <2>2
  <2>5. d <= n
    BY <2>1, <2>3, <2>4, StampsCompare
  <2>6. d <= clock
    BY ONLY <1>0, <2>1, <2>2, <2>5
  <2> QED BY <2>6 DEF d
<1>8. /\ t \in QueueShape /\ t.events = q.events /\ t.timed = q.timed /\ t.pc = "taken" /\ t.from = q.due[e]
      /\ \A g \in Events \ {e} : t.due[g] = q.due[g] /\ t.stamp[g] = q.stamp[g]
  BY <1>0, <1>2, TakeShape DEF t
<1>9. q' = [t EXCEPT !.timed = timed]
  BY <1>3, <1>8 DEF timed
<1>10. q' \in QueueShape
  BY Zenon, <1>2, <1>8, <1>9, FieldSet
<1>11. /\ q'.events = t.events /\ q'.timed = timed /\ q'.due = t.due /\ q'.stamp = t.stamp
       /\ q'.pc = "taken" /\ q'.from = t.from
  BY ONLY <1>8, <1>9 DEF QueueShape
<1>12. ListsSound(q', clock)
  <2>1. /\ Shorter(q'.events, q.events, e) /\ Shorter(q'.timed, q.timed, e)
        /\ \A g \in Events \ {e} : q'.due[g] = q.due[g] /\ q'.stamp[g] = q.stamp[g]
    BY ONLY <1>2, <1>6, <1>8, <1>11
  <2> QED BY ONLY Zenon, <1>0, <1>10, <2>1, EventLeaves
<1>13. ThreadSound(q', clock)
  BY <1>7, <1>8, <1>11 DEF ThreadSound
<1> QED BY <1>0, <1>10, <1>12, <1>13 DEF QInv

-----------------------------------------------------------------------------
(* Futures *)

\* The future that the callback thread has taken from the queue and not called yet.
Taken(s, f) == s.pc \in {"popped", "calling"} /\ s.popped = f

Queued(s, f) == \E i \in 1..Len(s.queue) : s.queue[i] = f

\* One future. While it is used its operation is under way, or it is resolved with the code of this
\* operation; it is in the queue, or taken from it, only when it is resolved and its user waits
\* for the callback; and cb is set until the callback is taken.
FutureSound(s, f) ==
    /\ s.user[f] = "idle" => s.got[f] = s.uses[f] /\ ~s.op[f]
    /\ s.user[f] # "idle" =>
         IF s.op[f] THEN ~s.ready[f] ELSE s.ready[f] /\ s.ec[f] = s.uses[f]
    /\ Queued(s, f) \/ Taken(s, f) => s.ready[f] /\ s.user[f] = "callback" /\ ~s.op[f]
    /\ s.cb[f] => s.user[f] = "callback" /\ ~(s.pc = "calling" /\ s.popped = f)

\* The queue holds no future twice, and not the one that was taken from it.
QueueSound(s) ==
    /\ \A i, j \in 1..Len(s.queue) : s.queue[i] = s.queue[j] => i = j
    /\ s.pc \in {"popped", "calling"} => s.popped \in FutureSet /\ ~Queued(s, s.popped)

FInv == ft \in FutureState /\ QueueSound(ft) /\ \A f \in FutureSet : FutureSound(ft, f)

USE MaxUsesAssumption

LEMMA FuturesStart == FuturesInit => FInv
BY DEF FuturesInit, FInv, FutureState, QueueSound, FutureSound, Queued, Taken, Nobody

\* A step that concerns one future f and neither the queue nor its thread.
LEMMA OneFuture ==
    ASSUME FInv, NEW f \in FutureSet, ft' \in FutureState,
           ft'.queue = ft.queue, ft'.pc = ft.pc, ft'.popped = ft.popped,
           \A g \in FutureSet \ {f} :
             /\ ft'.ready[g] = ft.ready[g] /\ ft'.ec[g] = ft.ec[g] /\ ft'.op[g] = ft.op[g]
             /\ ft'.uses[g] = ft.uses[g] /\ ft'.user[g] = ft.user[g] /\ ft'.got[g] = ft.got[g]
             /\ ft'.cb[g] = ft.cb[g],
           FutureSound(ft, f)'
    PROVE  FInv'
<1>1. QueueSound(ft)'
  BY DEF FInv, QueueSound, Queued
<1>2. ASSUME NEW g \in FutureSet \ {f} PROVE FutureSound(ft, g)'
  BY <1>2 DEF FInv, FutureSound, Queued, Taken
<1> QED BY <1>1, <1>2 DEF FInv

\* A future is queued that is not in the queue, nor taken.
LEMMA FutureQueued ==
    ASSUME FInv, NEW f \in FutureSet, NEW s \in FutureState, QueueSound(s),
           s.pc = ft.pc, s.popped = ft.popped, s.queue = ft.queue,
           \A g \in FutureSet \ {f} : FutureSound(s, g),
           ~Queued(s, f), ~Taken(s, f),
           s.ready[f], s.user[f] = "callback", ~s.op[f], s.ec[f] = s.uses[f],
           ft' = QueuePost(s, f)
    PROVE  FInv'
<1>1. s.queue \in Seq(FutureSet) /\ s.signals \in Nat
  BY DEF FutureState
<1> DEFINE queue == Append(s.queue, f)
           signals == s.signals + 1
<1>2. queue \in Seq(FutureSet) /\ signals \in Nat /\ Len(queue) = Len(s.queue) + 1 /\ Len(s.queue) \in Nat
  BY <1>1
<1>3. \A i \in 1..Len(queue) : queue[i] = IF i <= Len(s.queue) THEN s.queue[i] ELSE f
  BY <1>1
<1> HIDE DEF queue, signals
<1>4. ft' = [s EXCEPT !.queue = queue, !.signals = signals]
  BY DEF QueuePost, queue, signals
<1>5. ft' \in FutureState
  BY ZenonT(40), <1>2, <1>4 DEF FutureState
<1>6. /\ ft'.queue = queue /\ ft'.pc = s.pc /\ ft'.popped = s.popped /\ ft'.ready = s.ready
      /\ ft'.ec = s.ec /\ ft'.op = s.op /\ ft'.uses = s.uses /\ ft'.user = s.user /\ ft'.got = s.got
      /\ ft'.cb = s.cb
  BY <1>4 DEF FutureState
<1>7. ASSUME NEW g PROVE Queued(ft', g) <=> Queued(s, g) \/ g = f
  <2>1. ASSUME Queued(ft', g) PROVE Queued(s, g) \/ g = f
    <3>1. PICK i \in 1..Len(queue) : queue[i] = g
      BY <1>6, <2>1 DEF Queued
    <3> QED BY <1>2, <1>3, <3>1 DEF Queued
  <2>2. ASSUME Queued(s, g) PROVE Queued(ft', g)
    <3>1. PICK i \in 1..Len(s.queue) : s.queue[i] = g
      BY <2>2 DEF Queued
    <3>2. i \in 1..Len(queue) /\ queue[i] = g
      BY <1>2, <1>3, <3>1
    <3> QED BY <1>6, <3>2 DEF Queued
  <2>3. Queued(ft', f)
    <3>1. Len(queue) \in 1..Len(queue) /\ queue[Len(queue)] = f
      BY <1>2, <1>3
    <3> QED BY <1>6, <3>1 DEF Queued
  <2> QED BY <2>1, <2>2, <2>3
<1>8. QueueSound(ft)'
  <2>1. ASSUME NEW i \in 1..Len(queue), NEW j \in 1..Len(queue), queue[i] = queue[j] PROVE i = j
    BY <1>2, <1>3, <2>1 DEF QueueSound, Queued
  <2>2. s.pc \in {"popped", "calling"} => s.popped # f
    BY DEF Taken
  <2> QED BY <1>6, <1>7, <2>1, <2>2 DEF QueueSound
<1>9. ASSUME NEW g \in FutureSet PROVE FutureSound(ft, g)'
  BY <1>6, <1>7 DEF FutureSound, Taken
<1> QED BY <1>5, <1>8, <1>9 DEF FInv

\* An asynchronous API function and the user's calls after it.
LEMMA UserKeeps ==
    ASSUME FInv, NEW f \in FutureSet, Start(f) \/ UserStep(f)
    PROVE  FInv'
<1>0. ft \in FutureState /\ FutureSound(ft, f) /\ QueueSound(ft)
  BY DEF FInv
<1>1. CASE Start(f)
  <2>0. ft.user[f] = "idle" /\ ft.uses[f] < MaxUses
    BY <1>1 DEF Start
  <2> DEFINE ready == [ft.ready EXCEPT ![f] = FALSE]
             cb == [ft.cb EXCEPT ![f] = FALSE]
             ec == [ft.ec EXCEPT ![f] = 0]
             op == [ft.op EXCEPT ![f] = TRUE]
             uses == [ft.uses EXCEPT ![f] = ft.uses[f] + 1]
             user == [ft.user EXCEPT ![f] = "started"]
  <2>1. /\ ready \in [FutureSet -> BOOLEAN] /\ cb \in [FutureSet -> BOOLEAN] /\ op \in [FutureSet -> BOOLEAN]
        /\ ec \in [FutureSet -> 0..MaxUses] /\ uses \in [FutureSet -> 0..MaxUses]
        /\ user \in [FutureSet -> {"idle", "started", "waiting", "timedWaiting", "woken", "callback"}]
    BY <1>0, <2>0 DEF FutureState
  <2>2. ft' = [ft EXCEPT !.ready = ready, !.cb = cb, !.ec = ec, !.op = op, !.uses = uses, !.user = user]
    BY <1>0, <1>1 DEF Start, FutureState
  <2>3. \A g \in FutureSet \ {f} :
          /\ ready[g] = ft.ready[g] /\ ec[g] = ft.ec[g] /\ op[g] = ft.op[g] /\ uses[g] = ft.uses[g]
          /\ user[g] = ft.user[g] /\ cb[g] = ft.cb[g]
    BY <1>0 DEF FutureState
  <2>4. ~ready[f] /\ ~cb[f] /\ op[f] /\ user[f] = "started"
    BY <1>0 DEF FutureState
  <2> HIDE DEF ready, cb, ec, op, uses, user
  <2>5. /\ ft' \in FutureState /\ ft'.queue = ft.queue /\ ft'.pc = ft.pc /\ ft'.popped = ft.popped
        /\ ft'.ready = ready /\ ft'.ec = ec /\ ft'.op = op /\ ft'.uses = uses /\ ft'.user = user
        /\ ft'.got = ft.got /\ ft'.cb = cb
    BY ZenonT(40), <1>0, <2>1, <2>2 DEF FutureState
  <2>6. FutureSound(ft, f)'
    BY <1>0, <2>0, <2>4, <2>5 DEF FutureSound, Queued, Taken
  <2> QED BY <2>3, <2>5, <2>6, OneFuture
<1>2. CASE ft.user[f] \in {"started", "woken", "timedWaiting"} /\ ft.ready[f] /\ ft' = Deliver(ft, f)
  <2> DEFINE user == [ft.user EXCEPT ![f] = "idle"]
             got == [ft.got EXCEPT ![f] = ft.ec[f]]
  <2>1. /\ got \in [FutureSet -> 0..MaxUses]
        /\ user \in [FutureSet -> {"idle", "started", "waiting", "timedWaiting", "woken", "callback"}]
    BY <1>0 DEF FutureState
  <2>2. ft' = [ft EXCEPT !.user = user, !.got = got]
    BY <1>0, <1>2 DEF Deliver, FutureState
  <2>3. \A g \in FutureSet \ {f} : user[g] = ft.user[g] /\ got[g] = ft.got[g]
    BY <1>0 DEF FutureState
  <2>4. user[f] = "idle" /\ got[f] = ft.ec[f]
    BY <1>0 DEF FutureState
  <2> HIDE DEF user, got
  <2>5. /\ ft' \in FutureState /\ ft'.queue = ft.queue /\ ft'.pc = ft.pc /\ ft'.popped = ft.popped
        /\ ft'.ready = ft.ready /\ ft'.ec = ft.ec /\ ft'.op = ft.op /\ ft'.uses = ft.uses /\ ft'.user = user
        /\ ft'.got = got /\ ft'.cb = ft.cb
    BY ZenonT(40), <1>0, <2>1, <2>2 DEF FutureState
  <2>6. FutureSound(ft, f)'
    BY <1>0, <1>2, <2>4, <2>5 DEF FutureSound, Queued, Taken
  <2> QED BY <2>3, <2>5, <2>6, OneFuture
<1>3. ASSUME NEW u \in {"started", "waiting", "timedWaiting", "woken"},
             ft.user[f] \in {"started", "waiting", "timedWaiting", "woken"}, ft' = [ft EXCEPT !.user[f] = u]
      PROVE  FInv'
  <2> DEFINE user == [ft.user EXCEPT ![f] = u]
  <2>1. user \in [FutureSet -> {"idle", "started", "waiting", "timedWaiting", "woken", "callback"}]
    BY <1>0 DEF FutureState
  <2>2. (\A g \in FutureSet \ {f} : user[g] = ft.user[g]) /\ user[f] = u
    BY <1>0 DEF FutureState
  <2>3. ft' = [ft EXCEPT !.user = user]
    BY <1>0, <1>3 DEF FutureState
  <2> HIDE DEF user
  <2>4. /\ ft' \in FutureState /\ ft'.queue = ft.queue /\ ft'.pc = ft.pc /\ ft'.popped = ft.popped
        /\ ft'.ready = ft.ready /\ ft'.ec = ft.ec /\ ft'.op = ft.op /\ ft'.uses = ft.uses /\ ft'.user = user
        /\ ft'.got = ft.got /\ ft'.cb = ft.cb
    BY Zenon, <1>0, <2>1, <2>3 DEF FutureState
  <2>5. FutureSound(ft, f)'
    BY <1>0, <1>3, <2>2, <2>4 DEF FutureSound, Queued, Taken
  <2> QED BY <2>2, <2>4, <2>5, OneFuture
<1>4. CASE SetCallback(f)
  <2> DEFINE cb == [ft.cb EXCEPT ![f] = TRUE]
             user == [ft.user EXCEPT ![f] = "callback"]
             s == [ft EXCEPT !.cb = cb, !.user = user]
  <2>1. /\ cb \in [FutureSet -> BOOLEAN]
        /\ user \in [FutureSet -> {"idle", "started", "waiting", "timedWaiting", "woken", "callback"}]
    BY <1>0 DEF FutureState
  <2>2. (\A g \in FutureSet \ {f} : user[g] = ft.user[g] /\ cb[g] = ft.cb[g]) /\ user[f] = "callback" /\ ft.user[f] = "started"
    BY <1>0, <1>4 DEF FutureState, SetCallback
  <2>3. ft' = IF ft.ready[f] THEN QueuePost(s, f) ELSE s
    BY <1>0, <1>4 DEF FutureState, SetCallback
  <2> HIDE DEF cb, user
  <2>4. /\ s \in FutureState /\ s.queue = ft.queue /\ s.pc = ft.pc /\ s.popped = ft.popped
        /\ s.ready = ft.ready /\ s.ec = ft.ec /\ s.op = ft.op /\ s.uses = ft.uses /\ s.user = user
        /\ s.got = ft.got /\ s.cb = cb
    BY ZenonT(40), <1>0, <2>1 DEF FutureState
  <2> HIDE DEF s
  <2>5. CASE ft.ready[f]
    <3>1. ~Queued(s, f) /\ ~Taken(s, f) /\ QueueSound(s)
      BY <1>0, <2>2, <2>4 DEF FutureSound, Queued, Taken, QueueSound
    <3>2. ~s.op[f] /\ s.ec[f] = s.uses[f]
      BY <1>0, <2>2, <2>4, <2>5 DEF FutureSound
    <3>3. ASSUME NEW g \in FutureSet \ {f} PROVE FutureSound(s, g)
      BY <2>2, <2>4 DEF FInv, FutureSound, Queued, Taken
    <3> QED BY <2>2, <2>3, <2>4, <2>5, <3>1, <3>2, <3>3, FutureQueued
  <2>6. CASE ~ft.ready[f]
    <3>0. ft' = s
      BY <2>3, <2>6
    <3>1. FutureSound(ft, f)'
      BY <1>0, <2>2, <2>4, <2>6, <3>0 DEF FutureSound, Queued, Taken
    <3> QED BY <2>2, <2>4, <3>0, <3>1, OneFuture
  <2> QED BY <2>5, <2>6
<1> QED
  BY <1>1, <1>2, <1>3, <1>4 DEF UserStep, Wait, WaitReturns, TimedWait, TimedWaitReturns, Poll, SpuriousWakeup

\* nabto_device_future_resolve.
LEMMA ResolveKeeps ==
    ASSUME FInv, NEW f \in FutureSet, Resolve(f)
    PROVE  FInv'
<1>0. ft \in FutureState /\ FutureSound(ft, f) /\ QueueSound(ft) /\ ft.op[f]
  BY DEF FInv, Resolve
<1> DEFINE ec == [ft.ec EXCEPT ![f] = ft.uses[f]]
           ready == [ft.ready EXCEPT ![f] = TRUE]
           op == [ft.op EXCEPT ![f] = FALSE]
           s == [ft EXCEPT !.ec = ec, !.ready = ready, !.op = op]
<1>1. ec \in [FutureSet -> 0..MaxUses] /\ ready \in [FutureSet -> BOOLEAN] /\ op \in [FutureSet -> BOOLEAN]
  BY <1>0 DEF FutureState
<1>2. /\ \A g \in FutureSet \ {f} : ec[g] = ft.ec[g] /\ ready[g] = ft.ready[g] /\ op[g] = ft.op[g]
      /\ ec[f] = ft.uses[f] /\ ready[f] /\ ~op[f]
  BY <1>0 DEF FutureState
<1>3. ft' = IF ft.cb[f] THEN QueuePost(s, f)
            ELSE [s EXCEPT !.user[f] = IF @ = "waiting" THEN "woken" ELSE @]
  BY <1>0 DEF Resolve, FutureState
<1>4. ft.user[f] # "idle" /\ ~Queued(ft, f) /\ ~Taken(ft, f)
  BY <1>0 DEF FutureSound
<1> HIDE DEF ec, ready, op
<1>5. /\ s \in FutureState /\ s.queue = ft.queue /\ s.pc = ft.pc /\ s.popped = ft.popped
      /\ s.ready = ready /\ s.ec = ec /\ s.op = op /\ s.uses = ft.uses /\ s.user = ft.user
      /\ s.got = ft.got /\ s.cb = ft.cb
  BY Zenon, <1>0, <1>1 DEF FutureState
<1> HIDE DEF s
<1>6. CASE ft.cb[f] /\ ft.user[f] = "callback"
  <2>1. ~Queued(s, f) /\ ~Taken(s, f) /\ QueueSound(s)
    BY <1>0, <1>4, <1>5 DEF Queued, Taken, QueueSound
  <2>2. ASSUME NEW g \in FutureSet \ {f} PROVE FutureSound(s, g)
    BY <1>2, <1>5 DEF FInv, FutureSound, Queued, Taken
  <2> QED BY <1>2, <1>3, <1>5, <1>6, <2>1, <2>2, FutureQueued
<1>7. CASE ~ft.cb[f]
  <2> DEFINE user == [ft.user EXCEPT ![f] = IF ft.user[f] = "waiting" THEN "woken" ELSE ft.user[f]]
  <2>1. user \in [FutureSet -> {"idle", "started", "waiting", "timedWaiting", "woken", "callback"}]
    BY <1>0 DEF FutureState
  <2>2. (\A g \in FutureSet \ {f} : user[g] = ft.user[g]) /\ user[f] # "idle"
    BY <1>0, <1>4 DEF FutureState
  <2>3. ft' = [s EXCEPT !.user = user]
    BY <1>3, <1>5, <1>7 DEF FutureState
  <2> HIDE DEF user
  <2>4. /\ ft' \in FutureState /\ ft'.queue = ft.queue /\ ft'.pc = ft.pc /\ ft'.popped = ft.popped
        /\ ft'.ready = ready /\ ft'.ec = ec /\ ft'.op = op /\ ft'.uses = ft.uses /\ ft'.user = user
        /\ ft'.got = ft.got /\ ft'.cb = ft.cb
    BY ZenonT(40), <1>5, <2>1, <2>3 DEF FutureState
  <2>5. FutureSound(ft, f)'
    BY <1>2, <1>4, <1>7, <2>2, <2>4 DEF FutureSound, Queued, Taken
  <2> QED BY <1>2, <2>2, <2>4, <2>5, OneFuture
<1> QED BY <1>0, <1>6, <1>7 DEF FutureSound, FutureState

\* execution_thread of the future queue, and the signals for it.
LEMMA ExecutionKeeps ==
    ASSUME FInv, ExecutionThread \/ StopFutureQueue
    PROVE  FInv'
<1>0. ft \in FutureState /\ QueueSound(ft)
  BY DEF FInv
<1>1. CASE FutureSignal \/ StopFutureQueue
  <2>1. PICK signals \in Nat, stopped \in BOOLEAN :
          \/ ft' = [ft EXCEPT !.signals = signals, !.pc = IF @ = "wait" THEN "loop" ELSE @]
          \/ ft' = [ft EXCEPT !.signals = signals, !.stopped = stopped]
    <3>1. CASE FutureSignal
      <4>1. ft.signals \in Nat /\ ft.signals > 0
        BY <1>0, <3>1 DEF FutureSignal, FutureState
      <4>2. ft.signals - 1 \in Nat
        BY <4>1
      <4>3. ft' = [ft EXCEPT !.signals = ft.signals - 1, !.pc = IF @ = "wait" THEN "loop" ELSE @]
        BY <1>0, <3>1 DEF FutureSignal, FutureState
      <4> QED BY Zenon, <4>2, <4>3
    <3>2. CASE StopFutureQueue
      <4>1. ft.signals + 1 \in Nat
        BY <1>0 DEF FutureState
      <4>2. ft' = [ft EXCEPT !.signals = ft.signals + 1, !.stopped = TRUE]
        BY Zenon, <1>0, <3>2 DEF StopFutureQueue, FutureState
      <4> QED BY Zenon, <4>1, <4>2
    <3> QED BY Zenon, <1>1, <3>1, <3>2
  <2>2. /\ ft' \in FutureState /\ ft'.queue = ft.queue /\ ft'.popped = ft.popped
        /\ ft'.pc = ft.pc \/ (ft.pc = "wait" /\ ft'.pc = "loop")
        /\ ft'.ready = ft.ready /\ ft'.ec = ft.ec /\ ft'.op = ft.op /\ ft'.uses = ft.uses
        /\ ft'.user = ft.user /\ ft'.got = ft.got /\ ft'.cb = ft.cb
    <3>1. CASE ft' = [ft EXCEPT !.signals = signals, !.pc = IF @ = "wait" THEN "loop" ELSE @]
      BY ZenonT(40), <1>0, <3>1 DEF FutureState
    <3>2. CASE ft' = [ft EXCEPT !.signals = signals, !.stopped = stopped]
      BY Zenon, <1>0, <3>2 DEF FutureState
    <3> QED BY <2>1, <3>1, <3>2
  <2> QED BY <2>2 DEF FInv, QueueSound, FutureSound, Queued, Taken
<1>2. CASE Loop
  <2>1. CASE ft.queue = << >>
    <3>1. PICK pc \in {"exited", "wait"} : ft' = [ft EXCEPT !.pc = pc]
      BY <1>2, <2>1 DEF Loop
    <3>2. /\ ft' \in FutureState /\ ft'.queue = ft.queue /\ ft'.pc = pc /\ ft'.popped = ft.popped
          /\ ft'.ready = ft.ready /\ ft'.ec = ft.ec /\ ft'.op = ft.op /\ ft'.uses = ft.uses
          /\ ft'.user = ft.user /\ ft'.got = ft.got /\ ft'.cb = ft.cb
      BY Zenon, <1>0, <3>1 DEF FutureState
    <3> QED BY <3>2 DEF FInv, QueueSound, FutureSound, Queued, Taken
  <2>2. CASE ft.queue # << >>
    <3> DEFINE f == Head(ft.queue)
               queue == Tail(ft.queue)
    <3>0. ft.queue \in Seq(FutureSet) /\ ft.pc = "loop"
      BY <1>0, <1>2 DEF FutureState, Loop
    <3>1. /\ f \in FutureSet /\ queue \in Seq(FutureSet) /\ f = ft.queue[1] /\ Len(ft.queue) \in Nat
          /\ Len(ft.queue) >= 1 /\ Len(queue) = Len(ft.queue) - 1
          /\ \A i \in 1..Len(queue) : queue[i] = ft.queue[i + 1]
      BY <2>2, <3>0
    <3>2. ft' = [ft EXCEPT !.pc = "popped", !.popped = f, !.queue = queue]
      BY <1>0, <1>2, <2>2 DEF Loop, FutureState
    <3> HIDE DEF f, queue
    <3>3. /\ ft' \in FutureState /\ ft'.queue = queue /\ ft'.pc = "popped" /\ ft'.popped = f
          /\ ft'.ready = ft.ready /\ ft'.ec = ft.ec /\ ft'.op = ft.op /\ ft'.uses = ft.uses
          /\ ft'.user = ft.user /\ ft'.got = ft.got /\ ft'.cb = ft.cb
      BY Zenon, <1>0, <3>1, <3>2 DEF FutureState
    <3>4. Queued(ft, f)
      BY <3>1 DEF Queued
    <3>5. ASSUME NEW g, Queued(ft', g) PROVE Queued(ft, g) /\ g # f
      <4>1. PICK i \in 1..Len(queue) : queue[i] = g
        BY <3>3, <3>5 DEF Queued
      <4>2. i + 1 \in 1..Len(ft.queue) /\ ft.queue[i + 1] = g /\ i + 1 # 1
        BY <3>1, <4>1
      <4>3. 1 \in 1..Len(ft.queue)
        BY <3>1
      <4> QED BY <1>0, <3>1, <4>2, <4>3 DEF QueueSound, Queued
    <3>6. \A i, j \in 1..Len(queue) : queue[i] = queue[j] => i = j
      <4>1. ASSUME NEW i \in 1..Len(queue), NEW j \in 1..Len(queue), queue[i] = queue[j] PROVE i = j
        <5>1. i + 1 \in 1..Len(ft.queue) /\ j + 1 \in 1..Len(ft.queue) /\ ft.queue[i + 1] = ft.queue[j + 1]
          BY <3>1, <4>1
        <5>2. i + 1 = j + 1
          BY <1>0, <5>1 DEF QueueSound
        <5> QED BY <5>2
      <4> QED BY <4>1
    <3>7. QueueSound(ft)'
      BY <3>1, <3>3, <3>5, <3>6 DEF QueueSound
    <3>8. ASSUME NEW g \in FutureSet PROVE FutureSound(ft, g)'
      BY <3>0, <3>3, <3>4, <3>5 DEF FInv, FutureSound, Taken
    <3> QED BY <3>3, <3>7, <3>8 DEF FInv
  <2> QED BY <2>1, <2>2
<1>3. CASE TakeCallback
  <2> DEFINE f == ft.popped
             cb == [ft.cb EXCEPT ![f] = FALSE]
  <2>0. f \in FutureSet /\ ft.pc = "popped"
    BY <1>0, <1>3 DEF TakeCallback, QueueSound
  <2>1. cb \in [FutureSet -> BOOLEAN] /\ ~cb[f] /\ (\A g \in FutureSet \ {f} : cb[g] = ft.cb[g])
        /\ ft.cb[f] \in BOOLEAN
    BY <1>0, <2>0 DEF FutureState
  <2>2. ft' = [ft EXCEPT !.pc = "calling", !.call = ft.cb[f], !.cb = cb]
    BY <1>0, <1>3 DEF TakeCallback, FutureState
  <2> HIDE DEF cb
  <2>3. /\ ft' \in FutureState /\ ft'.queue = ft.queue /\ ft'.pc = "calling" /\ ft'.popped = ft.popped
        /\ ft'.ready = ft.ready /\ ft'.ec = ft.ec /\ ft'.op = ft.op /\ ft'.uses = ft.uses
        /\ ft'.user = ft.user /\ ft'.got = ft.got /\ ft'.cb = cb
    BY ZenonT(40), <1>0, <2>1, <2>2 DEF FutureState
  <2>4. QueueSound(ft)'
    BY <1>0, <2>0, <2>3 DEF QueueSound, Queued
  <2>5. ASSUME NEW g \in FutureSet PROVE FutureSound(ft, g)'
    BY <2>0, <2>1, <2>3 DEF FInv, FutureSound, Queued, Taken
  <2> QED BY <2>3, <2>4, <2>5 DEF FInv
<1>4. CASE CallCallback
  <2> DEFINE f == ft.popped
             s == [ft EXCEPT !.pc = "loop", !.popped = Nobody, !.call = FALSE]
             user == [ft.user EXCEPT ![f] = "idle"]
             got == [ft.got EXCEPT ![f] = ft.ec[f]]
  <2>0. f \in FutureSet /\ ft.pc = "calling" /\ ~Queued(ft, f)
    BY <1>0, <1>4 DEF CallCallback, QueueSound
  <2>1. FutureSound(ft, f) /\ Taken(ft, f)
    BY <2>0 DEF FInv, Taken
  <2>2. /\ s \in FutureState /\ s.queue = ft.queue /\ s.pc = "loop"
        /\ s.ready = ft.ready /\ s.ec = ft.ec /\ s.op = ft.op /\ s.uses = ft.uses
        /\ s.user = ft.user /\ s.got = ft.got /\ s.cb = ft.cb
    BY Zenon, <1>0 DEF FutureState, Nobody
  <2>3. ft' = IF ft.call THEN Deliver(s, f) ELSE s
    BY <1>4 DEF CallCallback
  <2> HIDE DEF s, f
  <2>4. CASE ft' = s
    BY <2>2, <2>4 DEF FInv, QueueSound, FutureSound, Queued, Taken
  <2>5. CASE ft' = Deliver(s, f)
    <3>1. /\ got \in [FutureSet -> 0..MaxUses]
          /\ user \in [FutureSet -> {"idle", "started", "waiting", "timedWaiting", "woken", "callback"}]
          /\ user[f] = "idle" /\ got[f] = ft.ec[f]
          /\ \A g \in FutureSet \ {f} : user[g] = ft.user[g] /\ got[g] = ft.got[g]
      BY <1>0, <2>0 DEF FutureState
    <3>2. ft' = [s EXCEPT !.user = user, !.got = got]
      BY Zenon, <2>2, <2>5 DEF Deliver, FutureState
    <3> HIDE DEF user, got
    <3>3. /\ ft' \in FutureState /\ ft'.queue = ft.queue /\ ft'.pc = "loop"
          /\ ft'.ready = ft.ready /\ ft'.ec = ft.ec /\ ft'.op = ft.op /\ ft'.uses = ft.uses
          /\ ft'.user = user /\ ft'.got = got /\ ft'.cb = ft.cb
      BY ZenonT(40), <2>2, <3>1, <3>2 DEF FutureState
    <3>4. QueueSound(ft)'
      BY <1>0, <3>3 DEF QueueSound, Queued
    <3>5. FutureSound(ft', f)
      <4>1. ~ft.op[f] /\ ft.ec[f] = ft.uses[f] /\ ~ft.cb[f]
        BY <2>0, <2>1 DEF FutureSound, Taken, f
      <4>2. ~Queued(ft', f) /\ ~Taken(ft', f)
        BY <2>0, <3>3 DEF Queued, Taken
      <4> QED BY <3>1, <3>3, <4>1, <4>2 DEF FutureSound
    <3>6. ASSUME NEW g \in FutureSet \ {f} PROVE FutureSound(ft', g)
      BY <3>1, <3>3 DEF FInv, FutureSound, Queued, Taken
    <3> QED BY <3>3, <3>4, <3>5, <3>6 DEF FInv
  <2> QED BY <2>3, <2>4, <2>5
<1> QED BY <1>1, <1>2, <1>3, <1>4 DEF ExecutionThread

LEMMA FuturesStep == FInv /\ [Next]_vars => FInv'
<1> SUFFICES ASSUME FInv, [Next]_vars PROVE FInv'
  OBVIOUS
<1>1. CASE UNCHANGED ft
  BY <1>1 DEF FInv, QueueSound, FutureSound, Queued, Taken
<1>2. CASE \E f \in FutureSet : Start(f) \/ UserStep(f) \/ Resolve(f)
  BY <1>2, UserKeeps, ResolveKeeps
<1>3. CASE ExecutionThread \/ StopFutureQueue
  BY <1>3, ExecutionKeeps
<1> QED
  BY <1>1, <1>2, <1>3 DEF Next, vars, StartOperation, User, RunResolver, PostTimer, CancelTimer, RunTimer, Time,
     Thread, CallbackThread, StopFutures, StopPlatform, Joined, Finished

\* Every use of a future delivers the result of its own operation, however many futures share the
\* queue and its thread (nabto_device_future_resolve, execution_thread).
THEOREM ResultsDelivered == Spec => []ResultDelivered
<1>1. FInv => ResultDelivered
  <2> SUFFICES ASSUME FInv PROVE ResultDelivered
    OBVIOUS
  <2>1. ft.queue \in Seq(FutureSet)
    BY DEF FInv, FutureState
  <2>2. DOMAIN ft.queue = 1..Len(ft.queue) /\ Range(ft.queue) \subseteq FutureSet
    BY <2>1 DEF Range
  <2>3. IsInjective(ft.queue)
    BY <2>2 DEF FInv, QueueSound, IsInjective
  <2>4. \A f \in Range(ft.queue) : Queued(ft, f)
    BY <2>2 DEF Queued, Range
  <2> QED BY <2>2, <2>3, <2>4 DEF ResultDelivered, FInv, FutureSound
<1>2. Init => FInv
  BY FuturesStart DEF Init
<1> QED BY <1>1, <1>2, FuturesStep, PTL DEF Spec

-----------------------------------------------------------------------------
(* The event queue *)

LEMMA QueueStepKeeps ==
    ASSUME ~Folded, QInv, [Next]_vars
    PROVE  QInv'
<1>1. CASE q' = q /\ clock' = clock
  BY <1>1 DEF QInv
<1>2. ASSUME NEW f \in FutureSet, StartOperation(f) PROVE QInv'
  <2>1. f \in Events /\ 1 \in 1..MaxDelay
    BY EventsAssumption, Range4
  <2> QED BY <1>2, <2>1, PostKeeps, PostTimedKeeps DEF StartOperation
<1>3. CASE PostTimer
  <2>1. Timer \in Events
    BY EventsAssumption
  <2> QED BY <1>3, <2>1, PostKeeps, PostTimedKeeps DEF PostTimer
<1>4. CASE CancelTimer
  <2>1. Timer \in Events
    BY EventsAssumption
  <2> QED BY <1>4, <2>1, CancelKeeps DEF CancelTimer
<1>5. ASSUME NEW f \in FutureSet, RunResolver(f) PROVE QInv'
  <2>1. f \in Events
    BY EventsAssumption
  <2> QED BY <1>5, <2>1, WaitingKeeps DEF RunResolver
<1>6. CASE RunTimer
  <2>1. Timer \in Events
    BY EventsAssumption
  <2> QED BY <1>6, <2>1, WaitingKeeps DEF RunTimer
<1>7. CASE Time
  BY <1>7, TickKeeps DEF Time
<1>8. CASE Thread
  BY <1>8, WaitingKeeps, TakeEventKeeps, TakeTimedKeeps DEF Thread, QueueStep
<1>9. CASE StopPlatform
  BY <1>9, WaitingKeeps DEF StopPlatform
<1>10. ASSUME NEW f \in FutureSet, User(f) PROVE QInv'
  BY <1>1, <1>10 DEF User
<1>11. CASE CallbackThread \/ StopFutures \/ Joined \/ Finished \/ UNCHANGED vars
  BY <1>1, <1>11 DEF CallbackThread, StopFutures, Joined, Finished, vars
<1> QED BY <1>2, <1>3, <1>4, <1>5, <1>6, <1>7, <1>8, <1>9, <1>10, <1>11 DEF Next

\* TimedInOrder for every set of events, every range of the timestamps and all delays up to a
\* quarter of it, with a compiler that wraps the difference of two timestamps
\* (nm_event_queue_post_timed_event, nm_event_queue_take_timed_event, np_timestamp_less_or_equal).
THEOREM TimersInOrder ==
    ASSUME ~Folded
    PROVE  Spec => []TimedInOrder
<1>1. Init => QInv
  BY QueueStart DEF Init
<1>2. QInv /\ [Next]_vars => QInv'
  BY QueueStepKeeps
<1>3. QInv => TimedInOrder
  <2> SUFFICES ASSUME QInv PROVE TimedInOrder
    OBVIOUS
  <2>1. q \in QueueShape /\ clock \in Int /\ ListsSound(q, clock) /\ ThreadSound(q, clock)
    BY DEF QInv
  <2>2. q.from \in Int
    BY <2>1 DEF QueueShape
  <2> QED BY <2>1, <2>2 DEF ListsSound, ThreadSound, TimedInOrder
<1> QED BY <1>1, <1>2, <1>3, PTL DEF Spec
=============================================================================
