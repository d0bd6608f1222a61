----------------------------- MODULE IamProofs ------------------------------
(***************************************************************************)
(* Proofs about the policies and the users of a device. Conditions,        *)
(* statements, policies and roles of any size give what they should, by    *)
(* induction over the loops that evaluate them (the least pass that would  *)
(* not), and a policy is the same after a conversion to JSON and back.     *)
(* The users of the TCP tunnel application survive a restart, and a client *)
(* is a single user: IamInv is the invariant, for every value of the       *)
(* constants.                                                              *)
(***************************************************************************)
EXTENDS Iam, SequenceTheorems, FiniteSetTheorems, WellFoundedInduction, TLAPS

\* What a leaf is tried with, in this order, unless it names a prover of its own.
USE SMTT(30), Zenon, SMTT(60)

\* A set of numbers that is not empty has a smallest one.
LEMMA Smallest ==
    ASSUME NEW T, T \subseteq Nat, T # {}
    PROVE  \E n \in T : \A m \in T : n <= m
<1>1. \E n \in T : \A m \in T : ~(<<m, n>> \in OpToRel(<, Nat))
  BY Zenon, NatLessThanWellFounded, WFMin
<1>2. PICK n \in T : \A m \in T : ~(<<m, n>> \in OpToRel(<, Nat))
  BY Zenon, <1>1
<1>3. \A m \in T : ~(m < n)
  BY Zenon, <1>2 DEF OpToRel
<1> QED BY <1>3

(***************************************************************************)
(* Policies of any size.                                                   *)
(***************************************************************************)
\* f[i] is what a loop that starts with x and applies g[1], g[2], ... has after pass i.
Follows(f, n, x, g) == f[0] = x /\ \A i \in 1..n : f[i] = g[i][f[i - 1]]

\* Every loop over 1..n has such a record of its passes, whatever n.
LEMMA Passes ==
    ASSUME NEW n \in Nat, NEW S, NEW x \in S, NEW g \in [1..n -> [S -> S]]
    PROVE  \E f \in [0..n -> S] : Follows(f, n, x, g)
<1> DEFINE Done(k) == \E f \in [0..k -> S] : /\ f[0] = x
                                             /\ \A i \in 1..k : f[i] = g[i][f[i - 1]]
           T == {k \in 0..n : ~Done(k)}
<1>1. SUFFICES Done(n)
  BY DEF Follows
<1> HIDE DEF Done
<1>a. SUFFICES ASSUME T # {}
               PROVE  FALSE
  <2>1. n \in 0..n
    OBVIOUS
  <2> QED BY <2>1
<1>b. T \subseteq Nat
  OBVIOUS
<1> HIDE DEF T
<1>2. PICK k \in T : \A m \in T : k <= m
  BY Zenon, <1>a, <1>b, Smallest
<1>c. k \in 0..n /\ ~Done(k) /\ \A m \in 0..n : m < k => Done(m)
  BY <1>2, <1>b DEF T
<1> HIDE DEF T
<1>3. Done(0)
  <2> DEFINE f == [i \in 0..0 |-> x]
  <2>1. f \in [0..0 -> S] /\ f[0] = x /\ 1..0 = {}
    OBVIOUS
  <2> QED BY Zenon, <2>1 DEF Done
<1>4. k \in 1..n /\ k - 1 \in 0..n /\ k - 1 < k
  BY <1>c, <1>3
<1>5. Done(k - 1)
  BY <1>c, <1>4
<1>6. PICK f \in [0..(k - 1) -> S] : f[0] = x /\ \A i \in 1..(k - 1) : f[i] = g[i][f[i - 1]]
  BY Zenon, <1>5 DEF Done
<1> DEFINE h == [i \in 0..k |-> IF i = k THEN g[k][f[k - 1]] ELSE f[i]]
<1>7. f[k - 1] \in S /\ g[k][f[k - 1]] \in S
  BY <1>4, <1>6
<1>8. h \in [0..k -> S]
  BY <1>4, <1>6, <1>7
<1>9. h[0] = x /\ \A i \in 1..k : h[i] = g[i][h[i - 1]]
  BY <1>4, <1>6
<1>10. Done(k)
  BY Zenon, <1>8, <1>9 DEF Done
<1> QED BY <1>c, <1>10

\* Conditions, statements and policies of any size over any strings.
PolicyValues(U) == [variable: BOOLEAN, text: U]

PolicyConditions(U) == [op: Operators, key: U, values: Seq(PolicyValues(U))]

PolicyStatements(U) == [effect: {"ALLOW", "DENY"}, actions: Seq(U), conditions: Seq(PolicyConditions(U))]

AllPolicies(U) == [id: U, statements: Seq(PolicyStatements(U))]

Outcomes == {"MATCH", "NO_MATCH", "ERROR"}

Effects == {"ALLOW", "DENY", "NO_MATCH", "ERROR"}

\* The names of the operators are those of the enumeration, each once.
LEMMA OperatorNamed ==
    ASSUME NEW op \in Operators
    PROVE  /\ OperatorNames[op] \in {"StringEquals", "StringNotEquals", "NumericEquals", "NumericNotEquals",
                                     "NumericLessThan", "NumericLessThanEquals", "NumericGreaterThan",
                                     "NumericGreaterThanEquals", "Bool"}
           /\ \A o \in Operators : OperatorNames[o] = OperatorNames[op] => o = op
<1>1. Operators = 1..9
  BY DEF Operators, OperatorNames
<1>2. op = 1 \/ op = 2 \/ op = 3 \/ op = 4 \/ op = 5 \/ op = 6 \/ op = 7 \/ op = 8 \/ op = 9
  BY <1>1
<1>3. \A o \in Operators : o = 1 \/ o = 2 \/ o = 3 \/ o = 4 \/ o = 5 \/ o = 6 \/ o = 7 \/ o = 8 \/ o = 9
  BY <1>1
<1>4. /\ OperatorNames[1] = "StringEquals" /\ OperatorNames[2] = "StringNotEquals"
      /\ OperatorNames[3] = "NumericEquals" /\ OperatorNames[4] = "NumericNotEquals"
      /\ OperatorNames[5] = "NumericLessThan" /\ OperatorNames[6] = "NumericLessThanEquals"
      /\ OperatorNames[7] = "NumericGreaterThan" /\ OperatorNames[8] = "NumericGreaterThanEquals"
      /\ OperatorNames[9] = "Bool"
  BY DEF OperatorNames
<1> QED BY <1>2, <1>3, <1>4

\* match has one of three outcomes.
LEMMA MatchOutcome ==
    ASSUME NEW op \in Operators, NEW lhs, NEW rhs
    PROVE  Match(op, lhs, rhs) \in Outcomes
<1> DEFINE name == OperatorNames[op]
<1>1. name \in {"StringEquals", "StringNotEquals", "NumericEquals", "NumericNotEquals",
                "NumericLessThan", "NumericLessThanEquals", "NumericGreaterThan",
                "NumericGreaterThanEquals", "Bool"}
  BY OperatorNamed
<1>2. \A b : Status(b) \in Outcomes
  BY DEF Status, Outcomes
<1>3. StringEquals(lhs, rhs) \in Outcomes /\ StringNotEquals(lhs, rhs) \in Outcomes
  BY <1>2 DEF StringEquals, StringNotEquals
<1>4. BoolEquals(lhs, rhs) \in Outcomes
  <2>1. CASE ParseBool(lhs) /\ ParseBool(rhs)
    BY Zenon, <1>2, <2>1 DEF BoolEquals
  <2>2. CASE ~(ParseBool(lhs) /\ ParseBool(rhs))
    BY <2>2 DEF BoolEquals, Outcomes
  <2> QED BY <2>1, <2>2
<1>5. name \notin {"StringEquals", "StringNotEquals", "Bool"} => NumericOperator(op, lhs, rhs) \in Outcomes
  <2>1. CASE ~ParseNumeric(lhs) \/ ~ParseNumeric(rhs)
    BY <2>1 DEF NumericOperator, Outcomes
  <2>2. CASE ~(~ParseNumeric(lhs) \/ ~ParseNumeric(rhs))
    BY <1>1, <1>2, <2>2 DEF NumericOperator
  <2> QED BY <2>1, <2>2
<1>6. /\ name = "StringEquals" => Match(op, lhs, rhs) = StringEquals(lhs, rhs)
      /\ name = "StringNotEquals" => Match(op, lhs, rhs) = StringNotEquals(lhs, rhs)
      /\ name = "Bool" => Match(op, lhs, rhs) = BoolEquals(lhs, rhs)
      /\ name \notin {"StringEquals", "StringNotEquals", "Bool"} => Match(op, lhs, rhs) = NumericOperator(op, lhs, rhs)
  BY DEF Match
<1> HIDE DEF name
<1> QED BY <1>1, <1>3, <1>4, <1>5, <1>6

\* The first of some places of a sequence.
LEMMA FirstPlace ==
    ASSUME NEW n \in Nat, NEW at, at \subseteq 1..n, at # {}
    PROVE  /\ (CHOOSE i \in at : \A j \in at : i <= j) \in at
           /\ \A j \in at : (CHOOSE i \in at : \A k \in at : i <= k) <= j
<1>1. at \subseteq Nat
  OBVIOUS
<1>2. \E i \in at : \A j \in at : i <= j
  BY Zenon, <1>1, Smallest
<1> QED BY Zenon, <1>2

\* A value of a condition resolves to one string or to none.
LEMMA ResolvesToOne ==
    ASSUME NEW attributes, NEW v
    PROVE  \A r, q \in ResolveValue(attributes, v) : r = q
BY DEF ResolveValue

\* Value i of a condition compares to the attribute with the outcome o.
Compares(c, attributes, i, o) ==
    \E r \in ResolveValue(attributes, c.values[i]) : Match(c.op, attributes[c.key], r) = o

\* The first value that matches or cannot be compared has the outcome o.
FirstCompares(c, attributes, o) ==
    \E i \in DOMAIN c.values :
        /\ Compares(c, attributes, i, o)
        /\ \A j \in DOMAIN c.values : j < i => ~Compares(c, attributes, j, "MATCH") /\ ~Compares(c, attributes, j, "ERROR")

\* A condition of any number of values on any attributes (nm_condition_matches): an
\* attribute that is not there does not match; else the first value that matches or cannot
\* be compared decides, and when there is none it does not match.
THEOREM ConditionDecided ==
    ASSUME NEW U, NEW c \in PolicyConditions(U), NEW attributes
    PROVE  /\ ConditionMatches(c, attributes) \in Outcomes
           /\ c.key \notin DOMAIN attributes => ConditionMatches(c, attributes) = "NO_MATCH"
           /\ c.key \in DOMAIN attributes =>
                \A o \in {"MATCH", "ERROR"} : ConditionMatches(c, attributes) = o <=> FirstCompares(c, attributes, o)
<1>1. CASE c.key \notin DOMAIN attributes
  BY <1>1 DEF ConditionMatches, Outcomes
<1>2. CASE c.key \in DOMAIN attributes
  <2> DEFINE result(v) == {Match(c.op, attributes[c.key], r) : r \in ResolveValue(attributes, v)}
             decides == {i \in DOMAIN c.values : result(c.values[i]) \cap {"MATCH", "ERROR"} # {}}
             first == CHOOSE i \in decides : \A j \in decides : i <= j
             RR == CHOOSE r \in result(c.values[first]) : TRUE
  <2>1. ConditionMatches(c, attributes) = IF decides = {} THEN "NO_MATCH" ELSE RR
    BY Zenon, <1>2 DEF ConditionMatches
  <2>2. c.op \in Operators /\ c.values \in Seq(PolicyValues(U))
    BY DEF PolicyConditions
  <2>3. \A v : \A x \in result(v) : x \in Outcomes
    BY Zenon, <2>2, MatchOutcome
  <2>4. \A v : \A x, y \in result(v) : x = y
    BY ZenonT(40), ResolvesToOne
  <2>5. \A i, o : o \in result(c.values[i]) <=> Compares(c, attributes, i, o)
    BY Zenon DEF Compares
  <2>6. \A i \in DOMAIN c.values : i \in decides <=> "MATCH" \in result(c.values[i]) \/ "ERROR" \in result(c.values[i])
    OBVIOUS
  <2>7. DOMAIN c.values = 1..Len(c.values) /\ Len(c.values) \in Nat /\ decides \subseteq 1..Len(c.values)
    BY <2>2
  <2>8. decides # {} => first \in decides /\ \A j \in decides : first <= j
    <3> HIDE DEF decides
    <3> QED BY Zenon, <2>7, FirstPlace
  <2>9. \A i \in decides : i \in DOMAIN c.values
    OBVIOUS
  <2>10. \A v : result(v) # {} => (CHOOSE r \in result(v) : TRUE) \in result(v)
    BY Zenon
  <2> HIDE DEF result
  <2>11. first \in decides => RR \in result(c.values[first]) /\ result(c.values[first]) # {}
    <3>1. first \in decides => result(c.values[first]) # {}
      BY Zenon DEF decides
    <3> QED BY Zenon, <3>1, <2>10
  <2> HIDE DEF decides, first, RR
  <2>12. CASE decides = {}
    <3>1. ConditionMatches(c, attributes) = "NO_MATCH"
      BY <2>1, <2>12
    <3>2. \A i \in DOMAIN c.values : ~Compares(c, attributes, i, "MATCH") /\ ~Compares(c, attributes, i, "ERROR")
      BY <2>5, <2>6, <2>12
    <3> QED BY <1>2, <3>1, <3>2 DEF FirstCompares, Outcomes
  <2>13. CASE decides # {}
    <3>1. ConditionMatches(c, attributes) = RR
      BY <2>1, <2>13
    <3>2. first \in DOMAIN c.values /\ first \in decides /\ \A j \in decides : first <= j
      BY <2>8, <2>9, <2>13
    <3>3. RR \in result(c.values[first]) /\ RR \in Outcomes
      BY <2>3, <2>11, <3>2
    <3>4. RR \in {"MATCH", "ERROR"}
      BY <2>4, <2>6, <3>2, <3>3
    <3>5. \A j \in DOMAIN c.values : j < first => ~Compares(c, attributes, j, "MATCH") /\ ~Compares(c, attributes, j, "ERROR")
      BY <2>5, <2>6, <2>7, <3>2
    <3>6. FirstCompares(c, attributes, RR)
      BY <2>5, <3>2, <3>3, <3>5 DEF FirstCompares
    <3>7. ASSUME NEW o \in {"MATCH", "ERROR"}, FirstCompares(c, attributes, o)
          PROVE  o = RR
      <4>1. PICK i \in DOMAIN c.values :
                /\ Compares(c, attributes, i, o)
                /\ \A j \in DOMAIN c.values : j < i => ~Compares(c, attributes, j, "MATCH") /\ ~Compares(c, attributes, j, "ERROR")
        BY <3>7 DEF FirstCompares
      <4>2. i \in decides
        BY <2>5, <2>6, <3>7, <4>1
      <4>3. ~(first < i)
        BY <2>5, <3>2, <3>3, <3>4, <4>1
      <4>4. i = first
        BY <2>7, <3>2, <4>2, <4>3
      <4> QED BY <2>4, <2>5, <3>3, <4>1, <4>4
    <3> QED BY <1>2, <3>1, <3>3, <3>4, <3>6, <3>7
  <2> QED BY <2>12, <2>13
<1> QED BY <1>1, <1>2

\* A statement of any number of actions and conditions (nm_statement_eval,
\* match_conditions): it has its effect exactly when it names the action and each of its
\* conditions matches, and else it does not match or cannot be evaluated.
THEOREM StatementDecided ==
    ASSUME NEW U, NEW s \in PolicyStatements(U), NEW action, NEW attributes
    PROVE  /\ StatementEval(s, action, attributes) \in Effects
           /\ \A e \in {"ALLOW", "DENY"} :
                StatementEval(s, action, attributes) = e <=>
                    /\ s.effect = e
                    /\ \E i \in DOMAIN s.actions : s.actions[i] = action
                    /\ \A i \in DOMAIN s.conditions : ConditionMatches(s.conditions[i], attributes) = "MATCH"
<1> DEFINE result(i) == ConditionMatches(s.conditions[i], attributes)
           fails == {i \in DOMAIN s.conditions : result(i) # "MATCH"}
           first == CHOOSE i \in fails : \A j \in fails : i <= j
<1>1. MatchConditions(s, attributes) = IF fails = {} THEN "MATCH" ELSE result(first)
  BY Zenon DEF MatchConditions
<1>2. s.conditions \in Seq(PolicyConditions(U)) /\ s.effect \in {"ALLOW", "DENY"}
  BY DEF PolicyStatements
<1>3. DOMAIN s.conditions = 1..Len(s.conditions) /\ Len(s.conditions) \in Nat
  BY <1>2
<1>4. \A i \in DOMAIN s.conditions : s.conditions[i] \in PolicyConditions(U)
  BY <1>2
<1>5. \A i \in DOMAIN s.conditions : result(i) \in Outcomes
  BY <1>4, ConditionDecided
<1>6. fails \subseteq 1..Len(s.conditions)
  BY <1>3
<1>7. fails # {} => first \in fails
  <2> HIDE DEF fails
  <2> QED BY Zenon, <1>3, <1>6, FirstPlace
<1>8. \A i \in fails : i \in DOMAIN s.conditions /\ result(i) # "MATCH"
  OBVIOUS
<1>9. fails = {} <=> \A i \in DOMAIN s.conditions : ConditionMatches(s.conditions[i], attributes) = "MATCH"
  OBVIOUS
<1> HIDE DEF result, fails, first
<1>10. /\ MatchConditions(s, attributes) \in Outcomes
       /\ MatchConditions(s, attributes) = "MATCH" <=> fails = {}
  <2>1. CASE fails = {}
    BY <1>1, <2>1 DEF Outcomes
  <2>2. CASE fails # {}
    BY <1>1, <1>5, <1>7, <1>8, <2>2
  <2> QED BY <2>1, <2>2
<1> DEFINE r == MatchConditions(s, attributes)
<1>11. StatementEval(s, action, attributes)
         = IF ~\E i \in DOMAIN s.actions : s.actions[i] = action THEN "NO_MATCH"
           ELSE IF r = "MATCH" THEN s.effect ELSE r
  BY Zenon DEF StatementEval
<1> HIDE DEF r
<1>12. r \in Outcomes /\ (r = "MATCH" <=> fails = {})
  BY <1>10 DEF r
<1> QED BY <1>2, <1>9, <1>11, <1>12 DEF Outcomes, Effects

\* How the evaluation goes from state to result over statements that say says: a denial or
\* a failure stays; it allows when something allows and nothing denies or fails; and it
\* does not match when nothing has.
Adds(state, says, result) ==
    /\ result \in Effects /\ says \subseteq Effects
    /\ state \in {"DENY", "ERROR"} => result = state
    /\ result = "ALLOW" <=> /\ state = "ALLOW" \/ (state = "NO_MATCH" /\ "ALLOW" \in says)
                            /\ says \cap {"DENY", "ERROR"} = {}
    /\ result = "NO_MATCH" <=> state = "NO_MATCH" /\ says \subseteq {"NO_MATCH"}

LEMMA AddsNothing ==
    ASSUME NEW a \in Effects
    PROVE  Adds(a, {}, a)
BY DEF Adds

LEMMA AddsMore ==
    ASSUME NEW a \in Effects, NEW b, NEW c, NEW X, NEW Y, Adds(a, X, b), Adds(b, Y, c)
    PROVE  Adds(a, X \cup Y, c)
<1>1. b \in Effects /\ c \in Effects /\ X \subseteq Effects /\ Y \subseteq Effects
  BY DEF Adds
<1>2. a \in {"DENY", "ERROR"} => c = a
  BY DEF Adds
<1>3. c = "NO_MATCH" <=> a = "NO_MATCH" /\ X \cup Y \subseteq {"NO_MATCH"}
  BY DEF Adds
<1>4. c = "ALLOW" <=> /\ a = "ALLOW" \/ (a = "NO_MATCH" /\ "ALLOW" \in X \cup Y)
                      /\ (X \cup Y) \cap {"DENY", "ERROR"} = {}
  <2>1. CASE b \in {"DENY", "ERROR"}
    BY <1>1, <2>1 DEF Adds, Effects
  <2>2. CASE b = "ALLOW"
    BY <1>1, <2>2 DEF Adds
  <2>3. CASE b = "NO_MATCH"
    BY <1>1, <2>3 DEF Adds
  <2> QED BY <1>1, <2>1, <2>2, <2>3 DEF Effects
<1> QED BY <1>1, <1>2, <1>3, <1>4 DEF Adds

\* A loop of any number of passes, pass i of which adds says[i], adds all of it.
LEMMA AddsAll ==
    ASSUME NEW n \in Nat, NEW x \in Effects, NEW says, NEW f, f[0] = x,
           \A i \in 1..n : f[i - 1] \in Effects => Adds(f[i - 1], says[i], f[i])
    PROVE  Adds(x, UNION {says[i] : i \in 1..n}, f[n])
<1> DEFINE Upto(k) == UNION {says[i] : i \in 1..k}
           Means(k) == Adds(x, Upto(k), f[k])
           T == {k \in 0..n : ~Means(k)}
<1>1. Means(0)
  <2>1. Upto(0) = {}
    OBVIOUS
  <2> QED BY <2>1, AddsNothing
<1>2. ASSUME NEW k \in 1..n, Means(k - 1)
      PROVE  Means(k)
  <2>1. \A i : i \in 1..k <=> i \in 1..(k - 1) \/ i = k
    OBVIOUS
  <2>2. Upto(k) = Upto(k - 1) \cup says[k]
    BY <2>1
  <2> HIDE DEF Upto
  <2>3. f[k - 1] \in Effects
    BY <1>2 DEF Adds
  <2>4. Adds(f[k - 1], says[k], f[k])
    BY <2>3
  <2>5. Adds(x, Upto(k - 1), f[k - 1])
    BY <1>2
  <2> HIDE DEF Means
  <2>6. Adds(x, Upto(k - 1) \cup says[k], f[k])
    BY ONLY Zenon, x \in Effects, <2>4, <2>5, AddsMore
  <2> QED BY ONLY Zenon, <2>2, <2>6 DEF Means
<1>3. T = {}
  <2>1. T \subseteq Nat /\ (\A k \in T : k \in 0..n /\ ~Means(k)) /\ \A k \in 0..n : k \notin T => Means(k)
    OBVIOUS
  <2> HIDE DEF T, Means
  <2>2. SUFFICES ASSUME T # {}
                 PROVE  FALSE
    OBVIOUS
  <2>3. PICK k \in T : \A m \in T : k <= m
    BY Zenon, <2>1, <2>2, Smallest
  <2>4. k \in 1..n
    BY <1>1, <2>1, <2>3
  <2>5. k - 1 \in 0..n /\ k - 1 \notin T
    BY <2>3, <2>4
  <2> QED BY <1>2, <2>1, <2>3, <2>4, <2>5
<1>4. n \in 0..n
  OBVIOUS
<1> QED BY Zenon, <1>3, <1>4

\* What a statement adds (nm_policy_statement_eval).
LEMMA StatementAdds ==
    ASSUME NEW U, NEW state \in Effects, NEW s \in PolicyStatements(U), NEW action, NEW attributes
    PROVE  Adds(state, {StatementEval(s, action, attributes)}, PolicyStatementEval(state, s, action, attributes))
<1> DEFINE e == StatementEval(s, action, attributes)
<1>1. e \in Effects
  BY StatementDecided
<1>2. PolicyStatementEval(state, s, action, attributes)
        = IF state \in {"DENY", "ERROR"} THEN state ELSE IF e = "NO_MATCH" THEN state ELSE e
  BY Zenon DEF PolicyStatementEval
<1> HIDE DEF e
<1>3. PICK r : r = IF state \in {"DENY", "ERROR"} THEN state ELSE IF e = "NO_MATCH" THEN state ELSE e
  OBVIOUS
<1>4. Adds(state, {e}, r)
  BY Zenon, <1>1, <1>3 DEF Adds, Effects
<1> QED BY <1>2, <1>3, <1>4 DEF e

\* What the statements of a policy say.
PolicySays(p, action, attributes) == {StatementEval(p.statements[i], action, attributes) : i \in DOMAIN p.statements}

\* A policy of any number of statements (nm_policy_eval), evaluated after others that gave
\* state, adds what its statements say: it allows when something allowed and no statement
\* denies or cannot be evaluated, and a denial or a failure is final.
THEOREM PolicyDecided ==
    ASSUME NEW U, NEW state \in Effects, NEW policy, policy.statements \in Seq(PolicyStatements(U)),
           NEW action, NEW attributes
    PROVE  Adds(state, PolicySays(policy, action, attributes), PolicyEval(state, policy, action, attributes))
<1> DEFINE n == Len(policy.statements)
           Step(e, i) == PolicyStatementEval(e, policy.statements[i], action, attributes)
           Is(f) == f = [i \in 0..n |-> IF i = 0 THEN state ELSE Step(f[i - 1], i)]
           g == [i \in 1..n |-> [e \in Effects |-> Step(e, i)]]
           after == CHOOSE f : Is(f)
           says == [i \in 1..n |-> {StatementEval(policy.statements[i], action, attributes)}]
<1>1. PolicyEval(state, policy, action, attributes) = after[n]
  BY Zenon DEF PolicyEval
<1>2. n \in Nat /\ DOMAIN policy.statements = 1..n /\ \A i \in 1..n : policy.statements[i] \in PolicyStatements(U)
  OBVIOUS
<1>3. \A e \in Effects : \A i \in 1..n : Adds(e, says[i], Step(e, i))
  <2>1. \A i \in 1..n : says[i] = {StatementEval(policy.statements[i], action, attributes)}
    OBVIOUS
  <2> HIDE DEF says, n
  <2> TAKE e \in Effects
  <2> TAKE i \in 1..n
  <2>2. policy.statements[i] \in PolicyStatements(U)
    BY <1>2
  <2>3. Adds(e, {StatementEval(policy.statements[i], action, attributes)}, Step(e, i))
    BY Zenon, <2>2, StatementAdds
  <2> QED BY Zenon, <2>1, <2>3
<1>4. PolicySays(policy, action, attributes) = UNION {says[i] : i \in 1..n}
  BY Zenon, <1>2 DEF PolicySays
<1> HIDE DEF Step, n, says
<1>5. \A e \in Effects : \A i \in 1..n : Step(e, i) \in Effects
  BY <1>3 DEF Adds
<1>6. g \in [1..n -> [Effects -> Effects]] /\ \A i \in 1..n : \A e \in Effects : g[i][e] = Step(e, i)
  BY <1>5
<1> HIDE DEF g
<1>7. PICK f \in [0..n -> Effects] : Follows(f, n, state, g)
  BY Zenon, <1>2, <1>6, Passes
<1>8. f \in [0..n -> Effects] /\ f[0] = state /\ \A i \in 1..n : f[i] = g[i][f[i - 1]]
  BY <1>7 DEF Follows
<1>9. \A i \in 1..n : i - 1 \in 0..n /\ f[i - 1] \in Effects
  BY <1>2, <1>8
<1>10. \A i \in 0..n : f[i] = IF i = 0 THEN state ELSE Step(f[i - 1], i)
  BY <1>2, <1>6, <1>8, <1>9
<1>11. Is(f)
  BY <1>8, <1>10
<1>12. Is(after)
  BY Zenon, <1>11
<1> HIDE DEF after
<1>13. after[0] = state /\ \A i \in 1..n : after[i] = Step(after[i - 1], i)
  BY <1>2, <1>12
<1>14. \A i \in 1..n : after[i - 1] \in Effects => Adds(after[i - 1], says[i], after[i])
  BY <1>3, <1>13
<1>15. Adds(state, UNION {says[i] : i \in 1..n}, after[n])
  BY Zenon, <1>2, <1>13, <1>14, AddsAll
<1> QED BY <1>1, <1>4, <1>15

\* The order of the statements, and how often each occurs, does not matter to what a
\* policy allows (nm_policy_eval).
THEOREM OrderOfStatements ==
    ASSUME NEW U, NEW p, p.statements \in Seq(PolicyStatements(U)), NEW q, q.statements \in Seq(PolicyStatements(U)),
           {p.statements[i] : i \in DOMAIN p.statements} = {q.statements[i] : i \in DOMAIN q.statements},
           NEW state \in Effects, NEW action, NEW attributes
    PROVE  PolicyEval(state, p, action, attributes) = "ALLOW" <=> PolicyEval(state, q, action, attributes) = "ALLOW"
<1>1. /\ Adds(state, PolicySays(p, action, attributes), PolicyEval(state, p, action, attributes))
      /\ Adds(state, PolicySays(q, action, attributes), PolicyEval(state, q, action, attributes))
  BY Zenon, PolicyDecided
<1>2. \A i \in DOMAIN p.statements : \E j \in DOMAIN q.statements : p.statements[i] = q.statements[j]
  BY Zenon
<1>3. \A j \in DOMAIN q.statements : \E i \in DOMAIN p.statements : p.statements[i] = q.statements[j]
  BY Zenon
<1>4. PolicySays(p, action, attributes) = PolicySays(q, action, attributes)
  BY Zenon, <1>2, <1>3 DEF PolicySays
<1> QED BY Zenon, <1>1, <1>4 DEF Adds

\* No string twice: what a string set holds.
NoTwice(w) == \A i, j \in DOMAIN w : w[i] = w[j] => i = j

Holds(w, v) == \E i \in DOMAIN w : w[i] = v

\* What nn_string_set_insert makes of a set, element by element.
LEMMA InsertOne ==
    ASSUME NEW E, NEW w \in Seq(E), NEW v \in E
    PROVE  /\ Insert(w, v) \in Seq(E)
           /\ NoTwice(w) => NoTwice(Insert(w, v))
           /\ \A x : Holds(Insert(w, v), x) <=> Holds(w, x) \/ x = v
<1>1. CASE Holds(w, v)
  BY <1>1 DEF Insert, Holds
<1>2. CASE ~Holds(w, v)
  <2> DEFINE u == Append(w, v)
  <2>1. u \in Seq(E) /\ Insert(w, v) = u /\ DOMAIN u = 1..(Len(w) + 1) /\ DOMAIN w = 1..Len(w) /\ Len(w) \in Nat
    BY <1>2 DEF Insert, Holds
  <2>2. u[Len(w) + 1] = v /\ \A i \in 1..Len(w) : u[i] = w[i]
    BY AppendProperties
  <2> HIDE DEF u
  <2>3. \A i \in DOMAIN u : i \in DOMAIN w \/ i = Len(w) + 1
    BY <2>1
  <2>4. NoTwice(w) => NoTwice(u)
    BY <1>2, <2>1, <2>2, <2>3 DEF NoTwice, Holds
  <2>5. \A x : Holds(u, x) <=> Holds(w, x) \/ x = v
    BY <2>1, <2>2, <2>3 DEF Holds
  <2> QED BY <2>1, <2>4, <2>5
<1> QED BY <1>1, <1>2

\* f[i] is the string set after element i of an array has been inserted.
Inserts(f, json) ==
    /\ f[0] = << >> /\ \A i \in 1..Len(json.array) : f[i] = Insert(f[i - 1], json.array[i])
    /\ InsertAll(json) = f[Len(json.array)]

LEMMA InsertAllRuns ==
    ASSUME NEW E, NEW json, json.array \in Seq(E)
    PROVE  \E f \in [0..Len(json.array) -> Seq(E)] : Inserts(f, json)
<1> DEFINE n == Len(json.array)
           Step(w, i) == Insert(w, json.array[i])
           Is(f) == f = [i \in 0..n |-> IF i = 0 THEN << >> ELSE Step(f[i - 1], i)]
           g == [i \in 1..n |-> [w \in Seq(E) |-> Step(w, i)]]
           kept == CHOOSE f : Is(f)
           e == << >>
<1>1. InsertAll(json) = kept[n]
  BY Zenon DEF InsertAll
<1>2. n \in Nat /\ e \in Seq(E) /\ \A i \in 1..n : json.array[i] \in E
  OBVIOUS
<1>2a. n \in 0..n
  BY <1>2
<1>3. \A w \in Seq(E) : \A i \in 1..n : Step(w, i) \in Seq(E)
  BY Zenon, <1>2, InsertOne
<1> HIDE DEF Step, n, e
<1>4. g \in [1..n -> [Seq(E) -> Seq(E)]]
  BY <1>3
<1>5. \A i \in 1..n : \A w \in Seq(E) : g[i][w] = Step(w, i)
  OBVIOUS
<1> HIDE DEF g
<1>a. PICK f \in [0..n -> Seq(E)] : Follows(f, n, e, g)
  BY Zenon, <1>2, <1>4, Passes
<1>6. f \in [0..n -> Seq(E)] /\ f[0] = e /\ \A i \in 1..n : f[i] = g[i][f[i - 1]]
  BY <1>a DEF Follows
<1>7. \A i \in 1..n : i - 1 \in 0..n /\ f[i - 1] \in Seq(E)
  BY <1>2, <1>6
<1>8. \A i \in 1..n : f[i] = Step(f[i - 1], i)
  BY Zenon, <1>5, <1>6, <1>7
<1>9. \A i \in 0..n : f[i] = IF i = 0 THEN e ELSE Step(f[i - 1], i)
  BY <1>2, <1>6, <1>8
<1>10. Is(f)
  BY <1>6, <1>9 DEF e
<1>11. Is(kept)
  BY Zenon, <1>10
<1> HIDE DEF kept
<1>12. kept[0] = e /\ \A i \in 1..n : kept[i] = Step(kept[i - 1], i)
  BY <1>2, <1>11 DEF e
<1> DEFINE T == {i \in 0..n : kept[i] # f[i]}
<1>14. T = {}
  <2>1. T \subseteq Nat /\ \A i \in T : i \in 0..n /\ kept[i] # f[i]
    BY <1>2
  <2>2. SUFFICES ASSUME T # {}
                 PROVE  FALSE
    OBVIOUS
  <2>3. \A i \in 0..n : i \notin T => kept[i] = f[i]
    OBVIOUS
  <2> HIDE DEF T
  <2>4. PICK k \in T : \A m \in T : k <= m
    BY Zenon, <2>1, <2>2, Smallest
  <2>5. k \in 1..n
    BY <1>2, <1>6, <1>12, <2>1, <2>4
  <2>6. k - 1 \in 0..n /\ k - 1 \notin T
    BY <1>2, <2>4, <2>5
  <2>7. kept[k] = f[k]
    BY <1>8, <1>12, <2>3, <2>5, <2>6
  <2> QED BY <2>1, <2>4, <2>7
<1>15. kept[n] = f[n]
  BY Zenon, <1>2a, <1>14
<1> QED BY <1>1, <1>6, <1>8, <1>15 DEF n, Step, Inserts, e

\* Reading an array of any length into a string set keeps each of its strings once
\* (nn_string_set_insert), and an array without repetition as it is.
THEOREM InsertAllKeeps ==
    ASSUME NEW E, NEW array \in Seq(E)
    PROVE  LET set == InsertAll(StringSetToJson(array)) IN
           /\ set \in Seq(E) /\ NoTwice(set)
           /\ \A x : Holds(set, x) <=> Holds(array, x)
           /\ NoTwice(array) => set = array
<1> DEFINE n == Len(array)
           json == StringSetToJson(array)
<1>b. json.array = array
  BY DEF StringSetToJson
<1> HIDE DEF json
<1>a. PICK f \in [0..n -> Seq(E)] : Inserts(f, json)
  BY Zenon, <1>b, InsertAllRuns
<1> DEFINE Means(k) == /\ NoTwice(f[k])
                       /\ \A x : Holds(f[k], x) <=> \E i \in 1..k : array[i] = x
                       /\ NoTwice(array) => Len(f[k]) = k /\ \A i \in 1..k : f[k][i] = array[i]
           T == {k \in 0..n : ~Means(k)}
<1>1. f \in [0..n -> Seq(E)] /\ f[0] = << >> /\ \A i \in 1..n : f[i] = Insert(f[i - 1], array[i])
  BY <1>a, <1>b DEF Inserts
<1>2. n \in Nat /\ (\A i \in 1..n : array[i] \in E) /\ DOMAIN array = 1..n
  OBVIOUS
<1>3. InsertAll(StringSetToJson(array)) = f[n]
  BY <1>a, <1>b DEF Inserts, json
<1> HIDE DEF n
<1>4. Means(0)
  BY <1>1 DEF NoTwice, Holds
<1>5. ASSUME NEW k \in 1..n, Means(k - 1)
      PROVE  Means(k)
  <2> DEFINE w == f[k - 1]
  <2>1. k - 1 \in 0..n /\ w \in Seq(E) /\ array[k] \in E /\ f[k] = Insert(w, array[k])
    BY <1>1, <1>2
  <2>a. NoTwice(w)
    BY <1>5
  <2>2. NoTwice(f[k]) /\ \A x : Holds(f[k], x) <=> Holds(w, x) \/ x = array[k]
    <3> HIDE DEF Means, w
    <3>1. NoTwice(Insert(w, array[k])) /\ \A x : Holds(Insert(w, array[k]), x) <=> Holds(w, x) \/ x = array[k]
      BY Zenon, <2>a, <2>1, InsertOne
    <3> QED BY ONLY Zenon, <2>1, <3>1
  <2>3. \A i : i \in 1..k <=> i \in 1..(k - 1) \/ i = k
    BY <1>2
  <2>4. \A x : Holds(w, x) <=> \E i \in 1..(k - 1) : array[i] = x
    BY <1>5
  <2>5. \A x : Holds(f[k], x) <=> \E i \in 1..k : array[i] = x
    <3> HIDE DEF Means, w
    <3> QED BY <2>2, <2>3, <2>4
  <2>6. ASSUME NoTwice(array)
        PROVE  Len(f[k]) = k /\ \A i \in 1..k : f[k][i] = array[i]
    <3>1. Len(w) = k - 1 /\ \A i \in 1..(k - 1) : w[i] = array[i]
      BY <1>5, <2>6
    <3> HIDE DEF Means, w
    <3>2. \A i \in 1..(k - 1) : i \in 1..n /\ i # k
      BY <1>2
    <3>3. \A i \in 1..(k - 1) : array[i] # array[k]
      BY Zenon, <1>2, <2>6, <3>2 DEF NoTwice
    <3>4. ~Holds(w, array[k])
      BY <2>4, <3>3
    <3>5. f[k] = Append(w, array[k])
      BY <2>1, <3>4 DEF Insert, Holds
    <3>6. Len(f[k]) = k /\ f[k][k] = array[k] /\ \A i \in 1..(k - 1) : f[k][i] = w[i]
      BY <2>1, <3>1, <3>5, AppendProperties
    <3> QED BY <2>3, <3>1, <3>6
  <2> QED BY <2>2, <2>5, <2>6
<1>6. T = {}
  <2>1. T \subseteq Nat /\ (\A k \in T : k \in 0..n /\ ~Means(k)) /\ \A k \in 0..n : k \notin T => Means(k)
    BY <1>2
  <2> HIDE DEF T, Means
  <2>2. SUFFICES ASSUME T # {}
                 PROVE  FALSE
    OBVIOUS
  <2>3. PICK k \in T : \A m \in T : k <= m
    BY Zenon, <2>1, <2>2, Smallest
  <2>4. k \in 1..n
    BY <1>2, <1>4, <2>1, <2>3
  <2>5. k - 1 \in 0..n /\ k - 1 \notin T
    BY <1>2, <2>3, <2>4
  <2> QED BY <1>5, <2>1, <2>3, <2>4, <2>5
<1>7. n \in 0..n /\ f[n] \in Seq(E)
  BY <1>1, <1>2
<1>8. Means(n)
  BY Zenon, <1>6, <1>7
<1>9. NoTwice(array) => f[n] = array
  <2>1. NoTwice(array) => Len(f[n]) = Len(array) /\ \A i \in 1..Len(array) : f[n][i] = array[i]
    BY <1>8 DEF n
  <2> QED BY <1>7, <2>1, SeqEqual
<1> QED BY Zenon, <1>2, <1>3, <1>7, <1>8, <1>9 DEF Holds

\* Policies as the program builds them: their string sets hold no string twice.
ProperCondition(U, c) == c \in PolicyConditions(U) /\ NoTwice(c.values)

ProperStatement(U, s) ==
    /\ s \in PolicyStatements(U) /\ NoTwice(s.actions)
    /\ \A i \in DOMAIN s.conditions : ProperCondition(U, s.conditions[i])

ProperPolicy(U, p) == p \in AllPolicies(U) /\ \A i \in DOMAIN p.statements : ProperStatement(U, p.statements[i])

\* The conversion of a condition and back.
LEMMA ConditionRoundTrip ==
    ASSUME NEW U, NEW c, ProperCondition(U, c)
    PROVE  ConditionFromJson(ConditionToJson(c)) = c /\ c # Null
<1> DEFINE json == ConditionToJson(c)
           ops == ParseOperator(json.operation)
           pick == CHOOSE op \in ops : TRUE
<1>1. c = [op |-> c.op, key |-> c.key, values |-> c.values] /\ c.op \in Operators /\ c.values \in Seq(PolicyValues(U)) /\ NoTwice(c.values)
  BY DEF ProperCondition, PolicyConditions
<1>2. /\ json.operation = OperatorNames[c.op] /\ json.key = c.key /\ json.values = StringSetToJson(c.values)
      /\ "values" \in DOMAIN json
  BY DEF ConditionToJson, OperatorToString
<1> HIDE DEF json
<1>3. ops = {c.op}
  BY <1>1, <1>2, OperatorNamed DEF ParseOperator
<1>4. ops # {} /\ pick = c.op
  <2> HIDE DEF ops
  <2> QED BY <1>3
<1>5. InsertAll(json.values) = c.values
  BY Zenon, <1>1, <1>2, InsertAllKeeps
<1>6. ConditionFromJson(json) = ConditionFromJsonParse(pick, json)
  <2> HIDE DEF pick
  <2> QED BY Zenon, <1>4 DEF ConditionFromJson, pick
<1> HIDE DEF ops, pick
<1>7. ConditionFromJsonParse(pick, json) = c
  BY <1>1, <1>2, <1>4, <1>5 DEF ConditionFromJsonParse
<1>8. c # Null
  <2>1. DOMAIN c = {"op", "key", "values"}
    BY <1>1
  <2>2. DOMAIN Null = {"null"}
    BY DEF Null
  <2> QED BY <2>1, <2>2
<1> QED BY <1>6, <1>7, <1>8 DEF json

\* The conversion of a statement and back, with or without conditions.
LEMMA StatementRoundTrip ==
    ASSUME NEW U, NEW s, ProperStatement(U, s)
    PROVE  StatementFromJson(StatementToJson(s)) = s /\ s # Null
<1> DEFINE json == StatementToJson(s)
           read == IF "Conditions" \notin DOMAIN json THEN << >>
                   ELSE [i \in DOMAIN json.Conditions |-> ConditionFromJson(json.Conditions[i])]
<1>1. /\ s = [effect |-> s.effect, actions |-> s.actions, conditions |-> s.conditions]
      /\ s.effect \in {"ALLOW", "DENY"} /\ s.actions \in Seq(U) /\ s.conditions \in Seq(PolicyConditions(U))
      /\ NoTwice(s.actions)
  BY DEF ProperStatement, PolicyStatements
<1>2. /\ json.Effect = IF s.effect = "ALLOW" THEN "Allow" ELSE "Deny"
      /\ json.Actions = StringSetToJson(s.actions)
      /\ {"Effect", "Actions"} \subseteq DOMAIN json
  BY DEF StatementToJson
<1>3. s.conditions = << >> => "Conditions" \notin DOMAIN json
  BY DEF StatementToJson
<1>4. s.conditions # << >> => "Conditions" \in DOMAIN json /\ json.Conditions = ConditionsToJson(s.conditions)
  BY DEF StatementToJson
<1> HIDE DEF json
<1>5. InsertAll(json.Actions) = s.actions
  BY Zenon, <1>1, <1>2, InsertAllKeeps
<1>6. \A i \in DOMAIN s.conditions : ConditionFromJson(ConditionToJson(s.conditions[i])) = s.conditions[i] /\ s.conditions[i] # Null
  BY ConditionRoundTrip DEF ProperStatement
<1>7. read = s.conditions
  <2>1. CASE s.conditions = << >>
    BY <1>3, <2>1
  <2>2. CASE s.conditions # << >>
    <3>1. DOMAIN json.Conditions = DOMAIN s.conditions
      BY <1>4, <2>2 DEF ConditionsToJson
    <3>2. \A i \in DOMAIN s.conditions : json.Conditions[i] = ConditionToJson(s.conditions[i])
      BY <1>4, <2>2 DEF ConditionsToJson
    <3>3. read = [i \in DOMAIN s.conditions |-> s.conditions[i]]
      BY <1>4, <1>6, <2>2, <3>1, <3>2
    <3> QED BY <1>1, <3>3
  <2> QED BY <2>1, <2>2
<1>8. \A e : StatementFromJsonParse(e, json)
               = IF \E i \in DOMAIN read : read[i] = Null THEN Null
                 ELSE [effect |-> e, actions |-> InsertAll(json.Actions), conditions |-> read]
  BY Zenon DEF StatementFromJsonParse
<1> HIDE DEF read
<1>9. \A e : StatementFromJsonParse(e, json) = [effect |-> e, actions |-> s.actions, conditions |-> s.conditions]
  BY Zenon, <1>5, <1>6, <1>7, <1>8
<1>10. StatementFromJson(json) = StatementFromJsonParse(s.effect, json)
  BY <1>1, <1>2 DEF StatementFromJson
<1>11. s # Null
  <2>1. DOMAIN s = {"effect", "actions", "conditions"}
    BY <1>1
  <2>2. DOMAIN Null = {"null"}
    BY DEF Null
  <2> QED BY <2>1, <2>2
<1> QED BY <1>1, <1>9, <1>10, <1>11 DEF json

\* A policy of any size written to JSON is the same policy when it is read again
\* (nm_policy_to_json, nm_policy_from_json).
THEOREM PolicyRoundTrip ==
    ASSUME NEW U, NEW p, ProperPolicy(U, p)
    PROVE  PolicyFromJson(PolicyToJson(p)) = p
<1> DEFINE json == PolicyToJson(p)
           array == StatementsToJson(p.statements)
           read == [i \in DOMAIN array |-> StatementFromJson(array[i])]
<1>1. p = [id |-> p.id, statements |-> p.statements] /\ p.statements \in Seq(PolicyStatements(U))
  BY DEF ProperPolicy, AllPolicies
<1>2. json.Id = p.id /\ json.Statements = array /\ {"Id", "Statements"} \subseteq DOMAIN json
  BY DEF PolicyToJson
<1>3. DOMAIN array = DOMAIN p.statements /\ \A i \in DOMAIN array : array[i] = StatementToJson(p.statements[i])
  BY DEF StatementsToJson
<1>4. \A i \in DOMAIN p.statements : StatementFromJson(StatementToJson(p.statements[i])) = p.statements[i] /\ p.statements[i] # Null
  BY StatementRoundTrip DEF ProperPolicy
<1> HIDE DEF json, array
<1>5. read = p.statements
  BY <1>1, <1>3, <1>4
<1>6. PolicyFromJsonParse(p.id, array)
        = IF \E i \in DOMAIN array : read[i] = Null THEN Null ELSE [id |-> p.id, statements |-> read]
  BY Zenon DEF PolicyFromJsonParse
<1>7. PolicyFromJson(json) = PolicyFromJsonParse(p.id, array)
  BY <1>2 DEF PolicyFromJson
<1> HIDE DEF read
<1> QED BY <1>1, <1>3, <1>4, <1>5, <1>6, <1>7 DEF json

\* The strings of the inputs that are tried.
SampleStrings == Literals \cup {"a", "b", "1", "x", "p", "Get", "Set"}

\* Those inputs are proper ones.
LEMMA ConditionsProper ==
    ASSUME NEW c \in Conditions
    PROVE  c \in PolicyConditions(SampleStrings) /\ c.key = "a"
<1> DEFINE Lists == {<< >>} \cup {<<v>> : v \in ConditionValues}
                    \cup {<<p[1], p[2]>> : p \in {q \in ConditionValues \X ConditionValues : q[1] # q[2]}}
<1>1. ConditionValues \subseteq PolicyValues(SampleStrings)
  <2>1. Keys \subseteq SampleStrings /\ Literals \subseteq SampleStrings
    BY DEF Keys, SampleStrings
  <2>2. \A b \in BOOLEAN, x \in SampleStrings : [variable |-> b, text |-> x] \in PolicyValues(SampleStrings)
    BY DEF PolicyValues
  <2> QED BY Zenon, <2>1, <2>2 DEF ConditionValues
<1>2. \A v \in ConditionValues : <<v>> \in Seq(PolicyValues(SampleStrings))
  BY <1>1
<1>3. \A v, w \in ConditionValues : <<v, w>> \in Seq(PolicyValues(SampleStrings))
  BY <1>1
<1>4. \A p \in ConditionValues \X ConditionValues : p[1] \in ConditionValues /\ p[2] \in ConditionValues
  OBVIOUS
<1>5. << >> \in Seq(PolicyValues(SampleStrings))
  OBVIOUS
<1>6. \A vs \in Lists : vs \in Seq(PolicyValues(SampleStrings))
  <2>1. \A vs \in {<<p[1], p[2]>> : p \in {q \in ConditionValues \X ConditionValues : q[1] # q[2]}} : vs \in Seq(PolicyValues(SampleStrings))
    BY Zenon, <1>3, <1>4
  <2>2. \A vs \in {<<v>> : v \in ConditionValues} : vs \in Seq(PolicyValues(SampleStrings))
    BY Zenon, <1>2
  <2> QED BY Zenon, <1>5, <2>1, <2>2
<1> HIDE DEF Lists
<1>7. PICK op \in Operators, vs \in Lists : c = [op |-> op, key |-> "a", values |-> vs]
  BY DEF Conditions, Lists
<1>8. vs \in Seq(PolicyValues(SampleStrings))
  BY <1>6
<1>9. "a" \in SampleStrings
  BY DEF SampleStrings
<1> QED BY <1>7, <1>8, <1>9 DEF PolicyConditions

LEMMA SamplesProper ==
    ASSUME NEW p \in SamplePolicies
    PROVE  ProperPolicy(SampleStrings, p)
<1>1. \A l \in {"1", "x"} : Literal(l) \in PolicyValues(SampleStrings)
  BY DEF Literal, PolicyValues, SampleStrings
<1>2. \A l \in {"1", "x"} : <<Literal(l)>> \in Seq(PolicyValues(SampleStrings)) /\ NoTwice(<<Literal(l)>>)
  BY <1>1 DEF NoTwice
<1>3. {1, 2, 3} \subseteq Operators
  BY DEF Operators, OperatorNames
<1>4. \A op \in {1, 2, 3}, l \in {"1", "x"} : ProperCondition(SampleStrings, [op |-> op, key |-> "a", values |-> <<Literal(l)>>])
  BY <1>2, <1>3 DEF ProperCondition, PolicyConditions, SampleStrings
<1>5. ASSUME NEW cs \in SampleConditions
      PROVE  cs \in Seq(PolicyConditions(SampleStrings)) /\ \A i \in DOMAIN cs : ProperCondition(SampleStrings, cs[i])
  <2>1. CASE cs = << >>
    BY <2>1
  <2>2. CASE cs # << >>
    <3>1. PICK op \in {1, 2, 3}, l \in {"1", "x"} : cs = <<[op |-> op, key |-> "a", values |-> <<Literal(l)>>]>>
      BY <2>2 DEF SampleConditions
    <3> DEFINE c == [op |-> op, key |-> "a", values |-> <<Literal(l)>>]
    <3>2. ProperCondition(SampleStrings, c) /\ cs = <<c>>
      BY <1>4, <3>1
    <3> HIDE DEF c
    <3>3. c \in PolicyConditions(SampleStrings)
      BY <3>2 DEF ProperCondition
    <3> QED BY <3>2, <3>3
  <2> QED BY <2>1, <2>2
<1>6. ASSUME NEW s \in SampleStatements
      PROVE  ProperStatement(SampleStrings, s) /\ s \in PolicyStatements(SampleStrings)
  <2>1. PICK e \in {"ALLOW", "DENY"}, act \in {"Get", "Set"}, cs \in SampleConditions :
           s = [effect |-> e, actions |-> <<act>>, conditions |-> cs]
    BY DEF SampleStatements
  <2>2. <<act>> \in Seq(SampleStrings) /\ NoTwice(<<act>>)
    BY DEF NoTwice, SampleStrings
  <2>3. cs \in Seq(PolicyConditions(SampleStrings)) /\ \A i \in DOMAIN cs : ProperCondition(SampleStrings, cs[i])
    BY <1>5
  <2>4. s \in PolicyStatements(SampleStrings) /\ s.actions = <<act>> /\ s.conditions = cs
    BY <2>1, <2>2, <2>3 DEF PolicyStatements
  <2> QED BY <2>2, <2>3, <2>4 DEF ProperStatement
<1>7. \E sts : /\ p = [id |-> "p", statements |-> sts] /\ sts \in Seq(PolicyStatements(SampleStrings))
               /\ \A i \in DOMAIN sts : ProperStatement(SampleStrings, sts[i])
  <2>1. CASE \E s \in SampleStatements : p = [id |-> "p", statements |-> <<s>>]
    <3>1. PICK s \in SampleStatements : p = [id |-> "p", statements |-> <<s>>]
      BY <2>1
    <3>2. ProperStatement(SampleStrings, s) /\ s \in PolicyStatements(SampleStrings)
      BY <1>6
    <3>3. <<s>> \in Seq(PolicyStatements(SampleStrings)) /\ \A i \in DOMAIN <<s>> : ProperStatement(SampleStrings, <<s>>[i])
      BY <3>2
    <3> QED BY Zenon, <3>1, <3>3
  <2>2. CASE \E w \in SampleStatements \X SampleStatements : p = [id |-> "p", statements |-> <<w[1], w[2]>>]
    <3>1. PICK s \in SampleStatements, t \in SampleStatements : p = [id |-> "p", statements |-> <<s, t>>]
      BY <2>2
    <3>2. ProperStatement(SampleStrings, s) /\ s \in PolicyStatements(SampleStrings) /\ ProperStatement(SampleStrings, t) /\ t \in PolicyStatements(SampleStrings)
      BY <1>6
    <3>3. <<s, t>> \in Seq(PolicyStatements(SampleStrings)) /\ \A i \in DOMAIN <<s, t>> : ProperStatement(SampleStrings, <<s, t>>[i])
      BY <3>2
    <3> QED BY Zenon, <3>1, <3>3
  <2> QED BY <2>1, <2>2 DEF SamplePolicies
<1>8. PICK sts : /\ p = [id |-> "p", statements |-> sts] /\ sts \in Seq(PolicyStatements(SampleStrings))
                 /\ \A i \in DOMAIN sts : ProperStatement(SampleStrings, sts[i])
  BY <1>7
<1> QED BY Zenon, <1>8 DEF ProperPolicy, AllPolicies, SampleStrings

\* What ConditionMeans says of a condition of any number of values, on any attributes
\* (nm_condition_matches).
THEOREM ConditionMeant ==
    ASSUME NEW U, NEW c \in PolicyConditions(U), NEW attributes
    PROVE  ConditionMeans(c, attributes, ConditionMatches(c, attributes))
<1> DEFINE result == ConditionMatches(c, attributes)
           holds == ComparedAs(c, attributes, "MATCH")
           fails == ComparedAs(c, attributes, "ERROR")
           Some(o) == \E i \in DOMAIN c.values : Compares(c, attributes, i, o)
<1>1. /\ result \in Outcomes
      /\ c.key \notin DOMAIN attributes => result = "NO_MATCH"
      /\ c.key \in DOMAIN attributes => \A o \in {"MATCH", "ERROR"} : result = o <=> FirstCompares(c, attributes, o)
  BY ConditionDecided
<1>2. c.key \in DOMAIN attributes => (holds # {} <=> Some("MATCH")) /\ (fails # {} <=> Some("ERROR"))
  BY Zenon DEF Compares, ComparedAs
<1>3. c.key \notin DOMAIN attributes => holds = {} /\ fails = {}
  BY Zenon DEF ComparedAs
<1>4. \A o \in {"MATCH", "ERROR"} : FirstCompares(c, attributes, o) => Some(o)
  BY DEF FirstCompares
<1>5. Some("MATCH") \/ Some("ERROR") => FirstCompares(c, attributes, "MATCH") \/ FirstCompares(c, attributes, "ERROR")
  <2> DEFINE at == {i \in DOMAIN c.values : Compares(c, attributes, i, "MATCH") \/ Compares(c, attributes, i, "ERROR")}
  <2>1. SUFFICES ASSUME Some("MATCH") \/ Some("ERROR")
                 PROVE  FirstCompares(c, attributes, "MATCH") \/ FirstCompares(c, attributes, "ERROR")
    OBVIOUS
  <2>2. DOMAIN c.values = 1..Len(c.values) /\ Len(c.values) \in Nat
    BY DEF PolicyConditions
  <2>3. at # {} /\ at \subseteq 1..Len(c.values) /\ at \subseteq Nat
    BY <2>1, <2>2
  <2>4. PICK i \in at : \A j \in at : i <= j
    <3> HIDE DEF at
    <3> QED BY Zenon, <2>3, Smallest
  <2>5. i \in DOMAIN c.values /\ i \in Nat
    BY <2>2
  <2>6. \A j \in DOMAIN c.values : j < i => j \notin at
    BY <2>2, <2>4, <2>5
  <2> QED BY <2>4, <2>5, <2>6 DEF FirstCompares
<1> HIDE DEF holds, fails, result, Some
<1>6. result = "MATCH" => holds # {}
  BY <1>1, <1>2, <1>4
<1>7. result = "NO_MATCH" <=> holds \cup fails = {}
  <2>1. holds \cup fails = {} <=> holds = {} /\ fails = {}
    OBVIOUS
  <2>2. CASE c.key \in DOMAIN attributes
    BY <1>1, <1>2, <1>4, <1>5, <2>1, <2>2 DEF Outcomes
  <2>3. CASE c.key \notin DOMAIN attributes
    BY <1>1, <1>3, <2>1, <2>3
  <2> QED BY <2>2, <2>3
<1> QED BY <1>6, <1>7 DEF ConditionMeans, holds, fails, result

\* What PolicyMeans says of a policy of any number of statements, any action and any
\* attributes (nm_policy_eval).
THEOREM PolicyMeant ==
    ASSUME NEW U, NEW p, p.statements \in Seq(PolicyStatements(U)), NEW action, NEW attributes
    PROVE  PolicyMeans(p, action, attributes, PolicyEval(PolicyEvalInit, p, action, attributes))
<1> DEFINE result == PolicyEval(PolicyEvalInit, p, action, attributes)
           says == PolicySays(p, action, attributes)
<1>1. PolicyEvalInit \in Effects /\ PolicyEvalInit = "NO_MATCH"
  BY DEF PolicyEvalInit, Effects
<1>2. Adds(PolicyEvalInit, says, result)
  BY Zenon, <1>1, PolicyDecided
<1> HIDE DEF result, says
<1>3. result = "ALLOW" <=> "ALLOW" \in says /\ says \cap {"DENY", "ERROR"} = {}
  BY <1>1, <1>2 DEF Adds
<1> QED BY Zenon, <1>3 DEF PolicyMeans, PolicySays, result, says

\* PolicyMeaning holds from the first state on: the evaluations and conversions that are
\* tried give what they should (nm_condition_matches, nm_policy_eval_simple,
\* nm_policy_to_json, nm_policy_from_json).
THEOREM PolicyMeaningKept ==
    /\ PoliciesInit => PolicyMeaning
    /\ PolicyMeaning /\ [PoliciesNext]_pol => PolicyMeaning'
<1>1. PoliciesInit => PolicyMeaning
  BY DEF PoliciesInit, PolicyMeaning
<1>2. ASSUME EvalCondition
      PROVE  PolicyMeaning'
  <2>1. PICK c \in Conditions, attributes \in AttributeMaps :
           pol' = [kind |-> "condition", c |-> c, attributes |-> attributes, result |-> ConditionMatches(c, attributes)]
    BY <1>2 DEF EvalCondition
  <2>2. ConditionMeans(c, attributes, ConditionMatches(c, attributes))
    BY Zenon, ConditionsProper, ConditionMeant
  <2> QED BY <2>1, <2>2 DEF PolicyMeaning
<1>3. ASSUME EvalPolicy
      PROVE  PolicyMeaning'
  <2> DEFINE get == [k \in {"a"} |-> "1"]
  <2>1. PICK p \in SamplePolicies :
           pol' = [kind |-> "policy", p |-> p, result |-> PolicyEval(PolicyEvalInit, p, "Get", get),
                   loaded |-> PolicyFromJson(PolicyToJson(p))]
    BY <1>3 DEF EvalPolicy
  <2>2. ProperPolicy(SampleStrings, p)
    BY SamplesProper
  <2>3. p.statements \in Seq(PolicyStatements(SampleStrings))
    BY <2>2 DEF ProperPolicy, AllPolicies
  <2>4. PolicyFromJson(PolicyToJson(p)) = p
    BY Zenon, <2>2, PolicyRoundTrip
  <2>5. PolicyMeans(p, "Get", get, PolicyEval(PolicyEvalInit, p, "Get", get))
    <3> HIDE DEF get
    <3> QED BY Zenon, <2>3, PolicyMeant
  <2>6. pol'.kind = "policy" /\ pol'.p = p /\ pol'.result = PolicyEval(PolicyEvalInit, p, "Get", get) /\ pol'.loaded = p
    BY <2>1, <2>4
  <2>7. PolicyMeans(pol'.p, "Get", get, pol'.result) /\ pol'.loaded = pol'.p /\ pol'.kind # "condition"
    <3> HIDE DEF get
    <3> QED BY <2>5, <2>6
  <2> QED BY ONLY Zenon, <2>7 DEF PolicyMeaning, get
<1>4. PolicyMeaning /\ UNCHANGED pol => PolicyMeaning'
  BY Zenon DEF PolicyMeaning
<1> QED BY Zenon, <1>1, <1>2, <1>3, <1>4 DEF PoliciesNext

\* Every evaluation and every conversion that is tried gives what it should.
THEOREM PoliciesAlwaysMean == PoliciesInit /\ [][PoliciesNext]_pol => []PolicyMeaning
BY PolicyMeaningKept, PTL

\* Every policy that a role names is there.
PoliciesThere(policies, U, role) ==
    /\ policies \in Seq(AllPolicies(U))
    /\ role.policies \in Seq(U)
    /\ \A i \in DOMAIN role.policies : \E j \in DOMAIN policies : policies[j].id = role.policies[i]

Configured(s, U, role) == PoliciesThere(s.policies, U, role)

\* What the statements of the policies of a role say.
RoleSays(s, role, action, attributes) ==
    UNION {PolicySays(FindPolicy(s, role.policies[i]), action, attributes) : i \in DOMAIN role.policies}

\* nm_iam_find_policy finds the policies that a role names.
LEMMA PolicyFound ==
    ASSUME NEW s, NEW U, NEW role, Configured(s, U, role), NEW i \in DOMAIN role.policies
    PROVE  FindPolicy(s, role.policies[i]).statements \in Seq(PolicyStatements(U))
<1> DEFINE id == role.policies[i]
           all == {s.policies[j] : j \in DOMAIN s.policies}
<1>1. \E p \in all : p.id = id
  BY Zenon DEF Configured, PoliciesThere
<1>2. \A p \in all : p \in AllPolicies(U)
  BY DEF Configured, PoliciesThere
<1>3. FindPolicy(s, id) \in all
  BY Zenon, <1>1 DEF FindPolicy
<1> HIDE DEF id, all
<1> QED BY <1>2, <1>3 DEF AllPolicies, id

\* A role of any number of policies of any number of statements (nm_iam_check_access_role,
\* nm_policy_eval): it allows if and only if some statement allows and none denies or cannot
\* be evaluated, and it does not match if and only if no statement does.
THEOREM RoleDecided ==
    ASSUME NEW s, NEW U, NEW role, Configured(s, U, role), NEW action, NEW attributes
    PROVE  Adds("NO_MATCH", RoleSays(s, role, action, attributes), CheckAccessRole(s, role, action, attributes))
<1> DEFINE n == Len(role.policies)
           policy(i) == FindPolicy(s, role.policies[i])
           Step(e, i) == PolicyEval(e, policy(i), action, attributes)
           Is(f) == f = [i \in 0..n |-> IF i = 0 THEN PolicyEvalInit ELSE Step(f[i - 1], i)]
           g == [i \in 1..n |-> [e \in Effects |-> Step(e, i)]]
           after == CHOOSE f : Is(f)
           says == [i \in 1..n |-> PolicySays(policy(i), action, attributes)]
<1>1. CheckAccessRole(s, role, action, attributes) = after[n]
  BY Zenon DEF CheckAccessRole
<1>2. n \in Nat /\ DOMAIN role.policies = 1..n
  BY DEF Configured, PoliciesThere
<1>3. \A i \in 1..n : policy(i).statements \in Seq(PolicyStatements(U))
  BY <1>2, PolicyFound
<1>4. \A e \in Effects : \A i \in 1..n : Adds(e, says[i], Step(e, i))
  <2>1. \A i \in 1..n : says[i] = PolicySays(policy(i), action, attributes)
    OBVIOUS
  <2> HIDE DEF policy, n, says
  <2> QED BY Zenon, <1>3, <2>1, PolicyDecided
<1>5. PolicyEvalInit = "NO_MATCH" /\ PolicyEvalInit \in Effects
  BY DEF PolicyEvalInit, Effects
<1>6. RoleSays(s, role, action, attributes) = UNION {says[i] : i \in 1..n}
  BY Zenon, <1>2 DEF RoleSays
<1> HIDE DEF n, Step, says, policy
<1>a. \A e \in Effects : \A i \in 1..n : Step(e, i) \in Effects
  BY <1>4 DEF Adds
<1>7. g \in [1..n -> [Effects -> Effects]] /\ \A i \in 1..n : \A e \in Effects : g[i][e] = Step(e, i)
  BY <1>a
<1> HIDE DEF g
<1>8. PICK f \in [0..n -> Effects] : Follows(f, n, PolicyEvalInit, g)
  BY Zenon, <1>2, <1>5, <1>7, Passes
<1>9. f \in [0..n -> Effects] /\ f[0] = PolicyEvalInit /\ \A i \in 1..n : f[i] = g[i][f[i - 1]]
  BY <1>8 DEF Follows
<1>10. \A i \in 1..n : i - 1 \in 0..n /\ f[i - 1] \in Effects
  BY <1>2, <1>9
<1>11. \A i \in 0..n : f[i] = IF i = 0 THEN PolicyEvalInit ELSE Step(f[i - 1], i)
  BY <1>2, <1>7, <1>9, <1>10
<1>12. Is(f)
  BY <1>9, <1>11
<1>13. Is(after)
  BY Zenon, <1>12
<1> HIDE DEF after
<1>14. after[0] = PolicyEvalInit /\ \A i \in 1..n : after[i] = Step(after[i - 1], i)
  BY <1>2, <1>13
<1>15. \A i \in 1..n : after[i - 1] \in Effects => Adds(after[i - 1], says[i], after[i])
  BY <1>4, <1>14
<1>16. Adds(PolicyEvalInit, UNION {says[i] : i \in 1..n}, after[n])
  BY ZenonT(40), <1>2, <1>5, <1>14, <1>15, AddsAll
<1> QED BY <1>1, <1>5, <1>6, <1>16

\* Who may do what: a connection that is gone nothing; a client that is not paired what the
\* statements of the role Unpaired say; a user, whose id becomes an attribute, what those
\* of its roles say when they are all there. Some statement must allow, and none may deny
\* or fail to be evaluated.
MayDo(s, fp, action, attributesIn) ==
    LET user == FindUserByFingerprint(s.users, fp)
        attributes == [k \in DOMAIN attributesIn \cup {"Connection:UserId"} |->
                         IF k = "Connection:UserId" THEN user.id ELSE attributesIn[k]]
        Allows(says) == "ALLOW" \in says /\ says \cap {"DENY", "ERROR"} = {}
    IN  /\ fp # "gone"
        /\ user = NoUser => \E role \in FindRole(s, "Unpaired") : Allows(RoleSays(s, role, action, attributesIn))
        /\ user # NoUser =>
             /\ \A id \in user.roles : FindRole(s, id) # {}
             /\ Allows(UNION {UNION {RoleSays(s, role, action, attributes) : role \in FindRole(s, id)} : id \in user.roles})

\* Access is granted as MayDo says, whatever the users, the roles and the policies
\* (nm_iam_check_access, nm_iam_check_access_user), when every policy that a role names is
\* there.
THEOREM AccessDecided ==
    ASSUME NEW s, NEW U, NEW fp, NEW action, NEW attributesIn,
           \A i \in DOMAIN s.roles : Configured(s, U, s.roles[i])
    PROVE  CheckAccess(s, fp, action, attributesIn) <=> MayDo(s, fp, action, attributesIn)
<1> DEFINE user == FindUserByFingerprint(s.users, fp)
           attributes == [k \in DOMAIN attributesIn \cup {"Connection:UserId"} |->
                            IF k = "Connection:UserId" THEN user.id ELSE attributesIn[k]]
           Allows(says) == "ALLOW" \in says /\ says \cap {"DENY", "ERROR"} = {}
           AllSay == UNION {UNION {RoleSays(s, role, action, attributes) : role \in FindRole(s, id)} : id \in user.roles}
<1>1. \A id : \A role \in FindRole(s, id) : Configured(s, U, role)
  BY Zenon DEF FindRole
<1>2. ASSUME NEW attrs, NEW id, NEW role \in FindRole(s, id)
      PROVE  /\ Adds("NO_MATCH", RoleSays(s, role, action, attrs), CheckAccessRole(s, role, action, attrs))
             /\ CheckAccessRole(s, role, action, attrs) = "ALLOW" <=> Allows(RoleSays(s, role, action, attrs))
  <2>1. Configured(s, U, role)
    BY <1>1
  <2>2. Adds("NO_MATCH", RoleSays(s, role, action, attrs), CheckAccessRole(s, role, action, attrs))
    BY Zenon, <2>1, RoleDecided
  <2> QED BY <2>2 DEF Adds
<1>3. user = NoUser => (CheckAccess(s, fp, action, attributesIn) <=>
         fp # "gone" /\ \E role \in FindRole(s, "Unpaired") : CheckAccessRole(s, role, action, attributesIn) = "ALLOW")
  BY Zenon DEF CheckAccess
<1>4. user # NoUser => (CheckAccess(s, fp, action, attributesIn) <=>
         fp # "gone" /\ CheckAccessUser(s, user, action, attributes) = "ALLOW")
  BY Zenon DEF CheckAccess
<1> HIDE DEF user, attributes
<1> DEFINE of(id) == {CheckAccessRole(s, role, action, attributes) : role \in FindRole(s, id)}
           effects == UNION {IF FindRole(s, id) = {} THEN {"ERROR"} ELSE of(id) : id \in user.roles}
<1>5. CheckAccessUser(s, user, action, attributes)
        = IF effects \cap {"ERROR", "DENY"} # {} THEN "DENY" ELSE IF "ALLOW" \in effects THEN "ALLOW" ELSE "NO_MATCH"
  BY Zenon DEF CheckAccessUser
<1>6. CheckAccessUser(s, user, action, attributes) = "ALLOW" <=> effects \cap {"ERROR", "DENY"} = {} /\ "ALLOW" \in effects
  <2> HIDE DEF effects
  <2> QED BY <1>5
<1> DEFINE CAR(role) == CheckAccessRole(s, role, action, attributes)
           RS(role) == RoleSays(s, role, action, attributes)
           All == \A id \in user.roles : FindRole(s, id) # {}
<1>7. "ALLOW" \in effects <=> \E id \in user.roles : \E role \in FindRole(s, id) : CAR(role) = "ALLOW"
  <2> HIDE DEF CAR
  <2>1. \A id : "ALLOW" \in (IF FindRole(s, id) = {} THEN {"ERROR"} ELSE of(id)) <=> \E role \in FindRole(s, id) : CAR(role) = "ALLOW"
    BY DEF CAR
  <2> HIDE DEF of
  <2> QED BY <2>1
<1>8. effects \cap {"ERROR", "DENY"} = {} <=> All /\ \A id \in user.roles : \A role \in FindRole(s, id) : CAR(role) \notin {"ERROR", "DENY"}
  <2>1. \A id : (IF FindRole(s, id) = {} THEN {"ERROR"} ELSE of(id)) \cap {"ERROR", "DENY"} = {}
                <=> FindRole(s, id) # {} /\ \A role \in FindRole(s, id) : CAR(role) \notin {"ERROR", "DENY"}
    BY Zenon
  <2> HIDE DEF of, CAR
  <2>2. effects \cap {"ERROR", "DENY"} = {} <=>
           \A id \in user.roles : (IF FindRole(s, id) = {} THEN {"ERROR"} ELSE of(id)) \cap {"ERROR", "DENY"} = {}
    BY Zenon
  <2> QED BY Zenon, <2>1, <2>2
<1> HIDE DEF effects, of
<1>9. \A id : \A role \in FindRole(s, id) : Adds("NO_MATCH", RS(role), CAR(role)) /\ (CAR(role) = "ALLOW" <=> Allows(RS(role)))
  BY Zenon, <1>2
<1>10. /\ "ALLOW" \in AllSay <=> \E id \in user.roles : \E role \in FindRole(s, id) : "ALLOW" \in RS(role)
       /\ AllSay \cap {"DENY", "ERROR"} = {} <=> \A id \in user.roles : \A role \in FindRole(s, id) : RS(role) \cap {"DENY", "ERROR"} = {}
  <2> HIDE DEF RS
  <2>1. AllSay = UNION {UNION {RS(role) : role \in FindRole(s, id)} : id \in user.roles}
    BY DEF RS
  <2> HIDE DEF AllSay
  <2>2. \A x : x \in AllSay <=> \E id \in user.roles : \E role \in FindRole(s, id) : x \in RS(role)
    <3> DEFINE In(id) == UNION {RS(role) : role \in FindRole(s, id)}
    <3>1. \A id, x : x \in In(id) <=> \E role \in FindRole(s, id) : x \in RS(role)
      BY Zenon
    <3>2. AllSay = UNION {In(id) : id \in user.roles}
      BY <2>1
    <3> HIDE DEF In
    <3>3. \A x : x \in AllSay <=> \E id \in user.roles : x \in In(id)
      BY Zenon, <3>2
    <3> QED BY Zenon, <3>1, <3>3
  <2> QED BY Zenon, <2>2
<1> HIDE DEF CAR, RS, AllSay
<1>11. \A id : \A role \in FindRole(s, id) : CAR(role) \notin {"ERROR", "DENY"} <=> RS(role) \cap {"DENY", "ERROR"} = {}
  <2> TAKE id
  <2> TAKE role \in FindRole(s, id)
  <2>1. Adds("NO_MATCH", RS(role), CAR(role))
    BY <1>9
  <2> QED BY <2>1 DEF Adds, Effects
<1>12. CheckAccessUser(s, user, action, attributes) = "ALLOW" <=> All /\ Allows(AllSay)
  <2>1. (effects \cap {"ERROR", "DENY"} = {}) <=> All /\ AllSay \cap {"DENY", "ERROR"} = {}
    BY Zenon, <1>8, <1>10, <1>11
  <2>2. AllSay \cap {"DENY", "ERROR"} = {} => ("ALLOW" \in effects <=> "ALLOW" \in AllSay)
    <3>1. SUFFICES ASSUME AllSay \cap {"DENY", "ERROR"} = {}
                   PROVE  "ALLOW" \in effects <=> "ALLOW" \in AllSay
      OBVIOUS
    <3>2. \A id \in user.roles : \A role \in FindRole(s, id) : CAR(role) = "ALLOW" <=> "ALLOW" \in RS(role)
      BY Zenon, <3>1, <1>9, <1>10
    <3> QED BY Zenon, <3>2, <1>7, <1>10
  <2> QED BY Zenon, <1>6, <2>1, <2>2
<1>13. user = NoUser => (CheckAccess(s, fp, action, attributesIn) <=>
         fp # "gone" /\ \E role \in FindRole(s, "Unpaired") : Allows(RoleSays(s, role, action, attributesIn)))
  BY Zenon, <1>2, <1>3
<1>14. CASE user = NoUser
  BY Zenon, <1>13, <1>14 DEF user, MayDo
<1>15. CASE user # NoUser
  BY Zenon, <1>4, <1>12, <1>15 DEF user, attributes, AllSay, RS, MayDo
<1> QED BY Zenon, <1>14, <1>15

(***************************************************************************)
(* The users.                                                              *)
(***************************************************************************)
\* No two users have an id or a fingerprint in common.
Unique(users) ==
    \A i, j \in DOMAIN users : i # j => users[i].id # users[j].id /\ users[i].fingerprint # users[j].fingerprint

UsersIn(users) == {users[i] : i \in DOMAIN users}

Good == {w \in Seq(Users) : Unique(w)}

\* What is at a place of a sequence of users.
LEMMA UserAt ==
    ASSUME NEW users \in Seq(Users), NEW i \in DOMAIN users
    PROVE  /\ users[i] \in Users /\ users[i] # NoUser /\ i \in Nat /\ i \in 1..Len(users)
           /\ users[i].id \in 1..MaxPairings /\ users[i].fingerprint \in Clients /\ users[i].sct \in 1..MaxPairings
<1>1. i \in 1..Len(users) /\ users[i] \in Users
  BY ElementOfSeq
<1>2. users[i].id \in 1..MaxPairings /\ users[i].fingerprint \in Clients /\ users[i].sct \in 1..MaxPairings
  BY <1>1 DEF Users
<1>3. users[i].id # 0
  BY <1>2
<1>4. NoUser.id = 0
  BY DEF NoUser
<1> QED BY <1>1, <1>2, <1>3, <1>4

\* The first of the users at some places is one of them.
LEMMA FirstIsUser ==
    ASSUME NEW users \in Seq(Users), NEW at, at \subseteq DOMAIN users
    PROVE  IF at = {} THEN FirstUser(users, at) = NoUser ELSE \E i \in at : FirstUser(users, at) = users[i]
<1>1. at \subseteq Nat
  BY UserAt
<1>2. at # {} => \E i \in at : \A j \in at : i <= j
  BY <1>1, Smallest
<1> QED BY <1>2 DEF FirstUser

\* nm_iam_find_user_by_id and nm_iam_find_user_by_fingerprint find a user if there is one.
LEMMA FoundById ==
    ASSUME NEW users \in Seq(Users), NEW id
    PROVE  /\ FindUserById(users, id) = NoUser <=> \A i \in DOMAIN users : users[i].id # id
           /\ FindUserById(users, id) # NoUser => \E i \in DOMAIN users : users[i].id = id /\ FindUserById(users, id) = users[i]
<1> DEFINE at == {i \in DOMAIN users : users[i].id = id}
<1>1. FindUserById(users, id) = FirstUser(users, at)
  BY DEF FindUserById
<1>2. IF at = {} THEN FirstUser(users, at) = NoUser ELSE \E i \in at : FirstUser(users, at) = users[i]
  BY Zenon, FirstIsUser
<1>3. \A i \in DOMAIN users : users[i] # NoUser
  BY UserAt
<1> QED BY <1>1, <1>2, <1>3

\* A user is found by the fingerprint of one of the users.
LEMMA FoundByFingerprint ==
    ASSUME NEW users \in Seq(Users), NEW fp
    PROVE  FindUserByFingerprint(users, fp) = NoUser <=> \A i \in DOMAIN users : users[i].fingerprint # fp
<1> DEFINE at == {i \in DOMAIN users : users[i].fingerprint = fp}
<1>1. FindUserByFingerprint(users, fp) = FirstUser(users, at)
  BY DEF FindUserByFingerprint
<1>2. IF at = {} THEN FirstUser(users, at) = NoUser ELSE \E i \in at : FirstUser(users, at) = users[i]
  BY Zenon, FirstIsUser
<1>3. \A i \in DOMAIN users : users[i] # NoUser
  BY UserAt
<1> QED BY <1>1, <1>2, <1>3

\* The ids of the users are no more than they.
LEMMA IdsFinite ==
    ASSUME NEW users \in Seq(Users)
    PROVE  LET ids == {users[i].id : i \in DOMAIN users} IN
           IsFiniteSet(ids) /\ Cardinality(ids) \in Nat /\ Cardinality(ids) <= Len(users) /\ ids \subseteq Nat
<1> DEFINE ids == {users[i].id : i \in DOMAIN users}
           f == [i \in 1..Len(users) |-> users[i].id]
<1>1. DOMAIN users = 1..Len(users) /\ Len(users) \in Nat
  BY LenProperties
<1>2. f \in Surjection(1..Len(users), ids)
  BY <1>1 DEF Surjection
<1>3. IsFiniteSet(1..Len(users)) /\ Cardinality(1..Len(users)) = Len(users)
  BY <1>1, FS_Interval
<1>4. IsFiniteSet(ids) /\ Cardinality(ids) <= Len(users)
  BY <1>2, <1>3, FS_Surjection
<1>5. Cardinality(ids) \in Nat
  BY <1>4, FS_CardinalityType
<1>6. ids \subseteq Nat
  BY UserAt
<1> QED BY <1>4, <1>5, <1>6

\* nm_iam_next_user_id gives a number that is no id: of one number more than there are users, one is
\* not an id, and so there is a first.
LEMMA NextUserIdNew ==
    ASSUME NEW users \in Seq(Users)
    PROVE  /\ NextUserId(users) \in 1..(Len(users) + 1)
           /\ \A i \in DOMAIN users : users[i].id # NextUserId(users)
<1> DEFINE ids == {users[i].id : i \in DOMAIN users}
           top == Len(users) + 1
           free == {n \in 1..top : n \notin ids}
<1>1. Len(users) \in Nat
  BY LenProperties
<1>2. IsFiniteSet(ids) /\ Cardinality(ids) \in Nat /\ Cardinality(ids) <= Len(users)
  BY IdsFinite
<1>3. IsFiniteSet(1..top) /\ Cardinality(1..top) = top
  BY <1>1, FS_Interval
<1>4. free # {}
  <2> SUFFICES ASSUME free = {} PROVE FALSE
    OBVIOUS
  <2>1. 1..top \in SUBSET ids
    OBVIOUS
  <2>2. Cardinality(1..top) <= Cardinality(ids)
    BY Zenon, <1>2, <2>1, FS_Subset
  <2> QED BY <1>1, <1>2, <1>3, <2>2
<1>5. free \subseteq Nat
  BY <1>1
<1>6. PICK n \in free : \A m \in free : n <= m
  BY Zenon, <1>4, <1>5, Smallest
<1>7. FindUserById(users, n) = NoUser
  BY <1>6, FoundById
<1>8. \A k \in 1..(n - 1) : k \in 1..top /\ k \notin free
  BY <1>1, <1>6
<1>9. \A k \in 1..(n - 1) : FindUserById(users, k) # NoUser
  <2> SUFFICES ASSUME NEW k \in 1..(n - 1) PROVE FindUserById(users, k) # NoUser
    OBVIOUS
  <2>1. k \in ids
    BY <1>8
  <2> QED BY <2>1, FoundById
<1>10. /\ NextUserId(users) \in 1..top
       /\ FindUserById(users, NextUserId(users)) = NoUser
  BY <1>6, <1>7, <1>9 DEF NextUserId
<1> QED BY <1>10, FoundById

\* The numbers of a finite set, counted from below, are one for each number of elements.
Rank(ids, id) == Cardinality({x \in ids : x <= id})

\* So that the ranks of a finite set are 1 to the number of its elements, each once.
LEMMA RankIsCount ==
    ASSUME NEW ids, ids \subseteq Nat, IsFiniteSet(ids)
    PROVE  /\ \A n \in 1..Cardinality(ids) : \E id \in ids : Rank(ids, id) = n
           /\ \A x, y \in ids : Rank(ids, x) = Rank(ids, y) => x = y
<1> DEFINE below(id) == {x \in ids : x <= id}
           N == Cardinality(ids)
           R == {Rank(ids, id) : id \in ids}
           f == [id \in ids |-> Rank(ids, id)]
<1>1. N \in Nat
  BY FS_CardinalityType
<1>2. \A id \in ids : IsFiniteSet(below(id)) /\ Rank(ids, id) \in 1..N
  <2> SUFFICES ASSUME NEW id \in ids PROVE IsFiniteSet(below(id)) /\ Rank(ids, id) \in 1..N
    OBVIOUS
  <2>1. below(id) \in SUBSET ids
    OBVIOUS
  <2>2. IsFiniteSet(below(id)) /\ Cardinality(below(id)) <= N
    BY <2>1, FS_Subset
  <2>3. Cardinality(below(id)) \in Nat
    BY <2>2, FS_CardinalityType
  <2>4. id \in below(id)
    OBVIOUS
  <2>5. Cardinality(below(id)) # 0
    BY <2>2, <2>4, FS_EmptySet
  <2> QED BY <1>1, <2>2, <2>3, <2>5 DEF Rank
<1>3. \A x, y \in ids : x < y => Rank(ids, x) # Rank(ids, y)
  <2> SUFFICES ASSUME NEW x \in ids, NEW y \in ids, x < y, Rank(ids, x) = Rank(ids, y) PROVE FALSE
    OBVIOUS
  <2>0. x \in Nat /\ y \in Nat /\ \A z \in ids : z \in Nat
    OBVIOUS
  <2>1. below(x) \in SUBSET below(y) /\ y \in below(y) /\ y \notin below(x)
    <3>1. \A z \in ids : z <= x => z <= y
      BY <2>0
    <3>2. y <= y /\ ~(y <= x)
      BY <2>0
    <3> QED BY Zenon, <3>1, <3>2
  <2>2. IsFiniteSet(below(y))
    BY <1>2
  <2>3. Cardinality(below(y)) = Cardinality(below(x))
    BY DEF Rank
  <2>4. below(y) = below(x)
    BY <2>1, <2>2, <2>3, FS_Subset
  <2> QED BY <2>1, <2>4
<1>4. \A x, y \in ids : Rank(ids, x) = Rank(ids, y) => x = y
  BY <1>3
<1>5. f \in Bijection(ids, R)
  BY <1>4 DEF Bijection, Injection, Surjection, IsInjective
<1>6. Cardinality(R) = N /\ IsFiniteSet(R)
  BY <1>5, FS_Bijection DEF ExistsBijection
<1>7. R \in SUBSET (1..N)
  BY Zenon, <1>2
<1>8. IsFiniteSet(1..N) /\ Cardinality(1..N) = N
  BY <1>1, FS_Interval
<1>9. R = 1..N
  BY Zenon, <1>6, <1>7, <1>8, FS_Subset
<1> QED BY <1>4, <1>9

\* The sequence that iam_user_changed gives to write_state_to_file.
SavedUsers(users) ==
    LET ids == {users[i].id : i \in DOMAIN users} IN
    [n \in 1..Cardinality(ids) |-> FindUserById(users, CHOOSE id \in ids : Rank(ids, id) = n)]

\* It holds each user once.
LEMMA AllSaved ==
    ASSUME NEW users \in Good
    PROVE  /\ SavedUsers(users) \in Good /\ UsersIn(SavedUsers(users)) = UsersIn(users)
           /\ Len(SavedUsers(users)) <= Len(users)
<1> DEFINE ids == {users[i].id : i \in DOMAIN users}
           N == Cardinality(ids)
           idOf(n) == CHOOSE id \in ids : Rank(ids, id) = n
           saved == SavedUsers(users)
<1>1. users \in Seq(Users) /\ Unique(users)
  BY DEF Good
<1>2. IsFiniteSet(ids) /\ N \in Nat /\ N <= Len(users) /\ ids \subseteq Nat
  BY Zenon, <1>1, IdsFinite
<1>3. saved = [n \in 1..N |-> FindUserById(users, idOf(n))]
  BY DEF SavedUsers
<1>4. /\ \A n \in 1..N : idOf(n) \in ids /\ Rank(ids, idOf(n)) = n
      /\ \A x, y \in ids : Rank(ids, x) = Rank(ids, y) => x = y
  BY ZenonT(40), <1>2, RankIsCount
<1>5. \A id \in ids : Rank(ids, id) \in 1..N
  <2> SUFFICES ASSUME NEW id \in ids PROVE Rank(ids, id) \in 1..N
    OBVIOUS
  <2> DEFINE below == {x \in ids : x <= id}
  <2>1. below \in SUBSET ids /\ id \in below
    <3> HIDE DEF ids
    <3>1. id <= id
      BY <1>2
    <3> QED BY <3>1
  <2>2. IsFiniteSet(below) /\ Cardinality(below) <= N
    BY <1>2, <2>1, FS_Subset
  <2>3. Cardinality(below) \in Nat /\ Cardinality(below) # 0
    BY <2>1, <2>2, FS_CardinalityType, FS_EmptySet
  <2> QED BY <1>2, <2>2, <2>3 DEF Rank
<1>6. \A id \in ids : idOf(Rank(ids, id)) = id
  BY <1>4, <1>5
<1>7. \A id \in ids : \E i \in DOMAIN users : users[i].id = id /\ FindUserById(users, id) = users[i]
  BY <1>1, FoundById
<1>8. \A n \in 1..N : saved[n] \in UsersIn(users) /\ saved[n].id = idOf(n)
  <2> HIDE DEF ids, N, saved
  <2> QED BY <1>3, <1>4, <1>7 DEF UsersIn
<1>9. \A i \in DOMAIN users : \A j \in DOMAIN users : users[i].id = users[j].id => users[i] = users[j]
  BY <1>1 DEF Unique
<1>10. \A i \in DOMAIN users : saved[Rank(ids, users[i].id)] = users[i] /\ Rank(ids, users[i].id) \in 1..N
  <2> SUFFICES ASSUME NEW i \in DOMAIN users
               PROVE  saved[Rank(ids, users[i].id)] = users[i] /\ Rank(ids, users[i].id) \in 1..N
    OBVIOUS
  <2>1. users[i].id \in ids
    OBVIOUS
  <2> HIDE DEF ids, N, saved
  <2>2. Rank(ids, users[i].id) \in 1..N /\ idOf(Rank(ids, users[i].id)) = users[i].id
    BY <1>5, <1>6, <2>1
  <2>3. saved[Rank(ids, users[i].id)] = FindUserById(users, users[i].id)
    BY <1>3, <2>2
  <2> QED BY <1>7, <1>9, <2>1, <2>2, <2>3
<1>11. \A u \in UsersIn(users) : u \in Users
  BY <1>1, UserAt DEF UsersIn
<1> HIDE DEF ids, N, saved
<1>12. saved \in Seq(Users) /\ Len(saved) = N /\ DOMAIN saved = 1..N
  <2>1. saved \in [1..N -> Users]
    BY <1>3, <1>8, <1>11
  <2> QED BY <1>2, <2>1
<1>13. UsersIn(saved) = UsersIn(users)
  BY <1>8, <1>10, <1>12 DEF UsersIn
<1>14. Unique(saved)
  <2> SUFFICES ASSUME NEW n \in 1..N, NEW m \in 1..N, n # m
               PROVE  saved[n].id # saved[m].id /\ saved[n].fingerprint # saved[m].fingerprint
    BY <1>12 DEF Unique
  <2>1. idOf(n) # idOf(m)
    BY <1>4
  <2>2. PICK i \in DOMAIN users : saved[n] = users[i]
    BY <1>8 DEF UsersIn
  <2>3. PICK j \in DOMAIN users : saved[m] = users[j]
    BY <1>8 DEF UsersIn
  <2>4. saved[n].id # saved[m].id
    BY Zenon, <1>8, <2>1
  <2>5. i # j
    BY <2>2, <2>3, <2>4
  <2> QED BY <1>1, <2>2, <2>3, <2>5 DEF Unique
<1> QED BY <1>2, <1>12, <1>13, <1>14 DEF Good, saved

\* The files: a state file that parses holds users no two of which are the same client.
StateJson(w) == [is |-> "json", users |-> [i \in DOMAIN w |-> UserToJson(w[i])]]

Unparsed == {[is |-> "none"], [is |-> "torn"]}

StateFiles == Unparsed \cup {StateJson(w) : w \in Good}

ConfigFiles == Unparsed \cup {DefaultIamConfig, ManagedIamConfig}

ServiceFiles == Unparsed \cup {DefaultServices}

KeyFiles == Unparsed \cup {NewPrivateKey}

FileMaps ==
    {g \in [Files -> StateFiles \cup ConfigFiles \cup ServiceFiles \cup KeyFiles] :
       g["state"] \in StateFiles /\ g["iam"] \in ConfigFiles /\ g["services"] \in ServiceFiles /\ g["key"] \in KeyFiles}

\* The types of the application.
IamCodes == {0, 201, 202, 205, 400, 401, 403, 404, 500}

ServiceSet == [id: {"ssh"}, port: Ports]

IamState(roles, policies) ==
    [run : {"off", "up", "failed"}, starts : 0..MaxStarts, users : Seq(Users), roles : {roles}, policies : {policies},
     services : Seq(ServiceSet), tokens : SUBSET (0..MaxPairings), notify : BOOLEAN, code : IamCodes,
     created : 0..MaxPairings, file : FileMaps, last : Seq(Users), lost : BOOLEAN]

\* The names that the configurations of policies and roles use.
IamNames ==
    {"PasswordPairing", "LocalPairing", "TunnelAll", "Paired", "Manage", "Pairing:Get", "Pairing:Password",
     "Pairing:Local", "TcpTunnel:GetService", "TcpTunnel:Connect", "TcpTunnel:ListServices", "IAM:ListUsers",
     "IAM:ListRoles", "IAM:GetUser", "IAM:DeleteUser", "IAM:AddRoleToUser", "IAM:RemoveRoleFromUser",
     "IAM:UserId", "Connection:UserId"}

\* The roles are those of the application, and the policies they name are there.
RolesRight(roles, policies) ==
    \A i \in DOMAIN roles :
        roles[i].id \in {"Unpaired", "Admin", "User"} /\ PoliciesThere(policies, IamNames, roles[i])

\* What holds in every state, within a handler too: roles are those of the configuration, users are
\* distinct, and there are no more of them than were ever paired.
Base(s) ==
    /\ s \in IamState(s.roles, s.policies)
    /\ RolesRight(s.roles, s.policies)
    /\ Unique(s.users) /\ Len(s.users) <= s.created

\* The state file holds the given users, if every save of it was whole.
Stored(s, users) ==
    /\ s.file["state"].is = "json" =>
         \E w \in Good : /\ s.file["state"] = StateJson(w) /\ Len(w) <= s.created
                         /\ ~s.lost => UsersIn(w) = UsersIn(users)
    /\ s.file["state"].is = "none" /\ ~s.lost => users = << >>

\* The device was told the server connect token of every user.
HasTokens(s) == \A i \in DOMAIN s.users : s.users[i].sct \in s.tokens

\* The application runs, and saves what changes.
Up(s) == s.run = "up" /\ s.notify /\ s.file["state"].is # "none" /\ HasTokens(s)

\* A handler has run, and what there is is saved.
Answered(s) == Base(s) /\ Up(s) /\ Stored(s, s.users)

\* The invariant: between events, what the state file is held against is what the users are.
IamInv(s) ==
    /\ Base(s) /\ Stored(s, s.last)
    /\ s.run = "up" => Up(s) /\ (~s.lost => UsersIn(s.users) = UsersIn(s.last))

\* The types of what the lemmas use.
LEMMA Typed ==
    ASSUME NEW s, Base(s)
    PROVE  /\ s \in IamState(s.roles, s.policies)
           /\ s.users \in Good /\ s.users \in Seq(Users) /\ s.created \in 0..MaxPairings /\ s.file \in FileMaps
           /\ s.tokens \in SUBSET (0..MaxPairings) /\ s.lost \in BOOLEAN /\ s.last \in Seq(Users) /\ s.notify \in BOOLEAN
           /\ s.starts \in 0..MaxStarts /\ Len(s.users) \in Nat /\ s.created \in Nat
<1>1. s \in IamState(s.roles, s.policies)
  BY DEF Base
<1>2. /\ s.users \in Seq(Users) /\ s.created \in 0..MaxPairings /\ s.file \in FileMaps
      /\ s.tokens \in SUBSET (0..MaxPairings) /\ s.lost \in BOOLEAN /\ s.last \in Seq(Users) /\ s.notify \in BOOLEAN
      /\ s.starts \in 0..MaxStarts
  BY <1>1 DEF IamState
<1>3. s.users \in Good
  BY <1>2 DEF Base, Good
<1>4. Len(s.users) \in Nat /\ s.created \in Nat
  BY <1>2, LenProperties
<1> QED BY <1>1, <1>2, <1>3, <1>4

\* A file is replaced by another of its kind.
LEMMA FileReplaced ==
    ASSUME NEW g \in FileMaps, NEW f \in Files, NEW x,
           f = "state" => x \in StateFiles, f = "iam" => x \in ConfigFiles,
           f = "services" => x \in ServiceFiles, f = "key" => x \in KeyFiles
    PROVE  /\ [g EXCEPT ![f] = x] \in FileMaps /\ [g EXCEPT ![f] = x][f] = x
           /\ \A o \in Files : o # f => [g EXCEPT ![f] = x][o] = g[o]
<1> DEFINE All == StateFiles \cup ConfigFiles \cup ServiceFiles \cup KeyFiles
           h == [g EXCEPT ![f] = x]
<1>1. g \in [Files -> All] /\ g["state"] \in StateFiles /\ g["iam"] \in ConfigFiles
      /\ g["services"] \in ServiceFiles /\ g["key"] \in KeyFiles
  BY DEF FileMaps
<1>2. x \in All
  BY DEF Files
<1> HIDE DEF All
<1>3. h \in [Files -> All] /\ h[f] = x /\ \A o \in Files : o # f => h[o] = g[o]
  BY <1>1, <1>2
<1>4. "state" \in Files /\ "iam" \in Files /\ "services" \in Files /\ "key" \in Files
  BY DEF Files
<1> HIDE DEF h
<1>5. h \in FileMaps
  BY <1>1, <1>3, <1>4 DEF FileMaps, All
<1> QED BY <1>3, <1>5 DEF h

\* A change of the users that iam_user_changed hears of is in the state file, or the loss is noted.
LEMMA UserChangedKeeps ==
    ASSUME NEW s, Base(s), Up(s), NEW u, Stored(s, u), NEW how \in Saves
    PROVE  Answered(IamUserChanged(s, how)) /\ IamUserChanged(s, how) \in IamState(s.roles, s.policies)
           /\ IamUserChanged(s, how).users = s.users /\ IamUserChanged(s, how).roles = s.roles
<1> DEFINE saved == SavedUsers(s.users)
           old == s.file["state"]
           new == CASE how = "ok" -> StateJson(saved) [] how = "cut" -> [is |-> "torn"] [] how = "unopened" -> old
           g == [s.file EXCEPT !["state"] = new]
           lost == s.lost \/ how # "ok"
           t == [s EXCEPT !.file = g, !.lost = lost]
<1>1. /\ s \in IamState(s.roles, s.policies) /\ s.users \in Good /\ s.file \in FileMaps /\ s.lost \in BOOLEAN
      /\ Len(s.users) \in Nat /\ s.created \in Nat
  BY Typed
<1>2. saved \in Good /\ UsersIn(saved) = UsersIn(s.users) /\ Len(saved) <= Len(s.users) /\ Len(saved) \in Nat
  <2>1. saved \in Good /\ UsersIn(saved) = UsersIn(s.users) /\ Len(saved) <= Len(s.users)
    BY <1>1, AllSaved
  <2> QED BY <2>1, LenProperties DEF Good
<1>3. IamUserChanged(s, how) = t
  <2>1. s.notify
    BY DEF Up
  <2>2. IamUserChanged(s, how) = WriteStateToFile(s, saved, how)
    BY <2>1 DEF IamUserChanged, SavedUsers, Rank
  <2> HIDE DEF saved
  <2>3. WriteStateToFile(s, saved, how) = t
    BY <1>1 DEF WriteStateToFile, StateJson, IamState
  <2> QED BY <2>2, <2>3
<1> HIDE DEF saved
<1>4. old \in StateFiles /\ "state" \in Files
  BY <1>1 DEF FileMaps, Files
<1>5. StateJson(saved) \in StateFiles /\ [is |-> "torn"] \in StateFiles
  BY <1>2 DEF StateFiles, Unparsed
<1>6. StateJson(saved).is = "json" /\ [is |-> "torn"].is = "torn"
  BY DEF StateJson
<1>7. /\ how = "ok" => new = StateJson(saved) /\ (lost <=> s.lost)
      /\ how = "cut" => new = [is |-> "torn"]
      /\ how = "unopened" => new = old
      /\ how # "ok" => lost
      /\ lost \in BOOLEAN
      /\ how \in {"ok", "cut", "unopened"}
  <2>1. how \in {"ok", "cut", "unopened"}
    BY DEF Saves
  <2>2. CASE how = "ok"
    BY <1>1, <2>2
  <2>3. CASE how = "cut"
    BY <1>1, <2>3
  <2>4. CASE how = "unopened"
    BY <1>1, <2>4
  <2> QED BY <2>1, <2>2, <2>3, <2>4
<1> HIDE DEF new, lost
<1>8. new \in StateFiles
  BY <1>4, <1>5, <1>7
<1>9. g \in FileMaps /\ g["state"] = new
  <2>1. s.file \in FileMaps
    BY <1>1
  <2> QED BY ONLY <2>1, <1>4, <1>8, FileReplaced DEF g
<1> HIDE DEF g
<1>10. t \in IamState(s.roles, s.policies)
  BY Zenon, <1>1, <1>7, <1>9 DEF IamState
<1>11. /\ t.run = s.run /\ t.users = s.users /\ t.roles = s.roles /\ t.policies = s.policies /\ t.tokens = s.tokens
       /\ t.notify = s.notify /\ t.created = s.created /\ t.file = g /\ t.lost = lost
  BY <1>1 DEF IamState
<1> HIDE DEF t
<1>12. Base(t)
  BY <1>10, <1>11 DEF Base
<1>13. old.is # "none"
  BY DEF Up
<1> HIDE DEF old
<1>14. new.is # "none"
  BY <1>6, <1>7, <1>13
<1>15. Up(t)
  BY <1>9, <1>11, <1>14 DEF Up, HasTokens
<1>16. Stored(t, t.users)
  <2>1. CASE how = "ok"
    <3>1. Len(saved) <= s.created
      BY <1>1, <1>2 DEF Base
    <3> QED BY <1>2, <1>7, <1>9, <1>11, <1>14, <2>1, <3>1 DEF Stored
  <2>2. CASE how = "cut"
    BY <1>6, <1>7, <1>9, <1>11, <2>2 DEF Stored
  <2>3. CASE how = "unopened"
    BY <1>7, <1>9, <1>11, <1>13, <2>3 DEF Stored, old
  <2> QED BY <1>7, <2>1, <2>2, <2>3
<1> QED BY <1>3, <1>10, <1>11, <1>12, <1>15, <1>16 DEF Answered

\* A response changes nothing else.
LEMMA CodeKeeps ==
    ASSUME NEW s, Answered(s), NEW code \in IamCodes
    PROVE  Answered([s EXCEPT !.code = code])
<1> DEFINE t == [s EXCEPT !.code = code]
<1>1. s \in IamState(s.roles, s.policies)
  BY DEF Answered, Base
<1>2. t \in IamState(s.roles, s.policies)
  BY <1>1 DEF IamState
<1>3. /\ t.run = s.run /\ t.users = s.users /\ t.roles = s.roles /\ t.policies = s.policies /\ t.tokens = s.tokens
      /\ t.notify = s.notify /\ t.created = s.created /\ t.file = s.file /\ t.lost = s.lost
  BY <1>1 DEF IamState
<1> HIDE DEF t
<1>4. Base(t) /\ Up(t) /\ Stored(t, t.users)
  BY <1>2, <1>3 DEF Answered, Base, Up, HasTokens, Stored
<1> QED BY <1>4 DEF Answered, t

\* The users are replaced by good ones with known tokens, and the change is reported.
LEMMA ReplacedKeeps ==
    ASSUME NEW s, Answered(s), NEW users \in Good, Len(users) <= s.created,
           \A i \in DOMAIN users : users[i].sct \in s.tokens, NEW how \in Saves
    PROVE  Answered(IamUserChanged([s EXCEPT !.users = users], how))
<1> DEFINE t == [s EXCEPT !.users = users]
<1>1. s \in IamState(s.roles, s.policies) /\ users \in Seq(Users)
  BY DEF Answered, Base, Good
<1>2. t \in IamState(s.roles, s.policies)
  BY Zenon, <1>1 DEF IamState
<1>3. /\ t.run = s.run /\ t.users = users /\ t.roles = s.roles /\ t.policies = s.policies /\ t.tokens = s.tokens
      /\ t.notify = s.notify /\ t.created = s.created /\ t.file = s.file /\ t.lost = s.lost
  BY <1>1 DEF IamState
<1> HIDE DEF t
<1>4. Base(t) /\ Up(t) /\ Stored(t, s.users)
  BY <1>2, <1>3 DEF Answered, Base, Up, HasTokens, Stored, Good
<1> QED BY <1>4, UserChangedKeeps DEF t

\* A new client becomes one user more, with an id of its own.
LEMMA PairNewClientKeeps ==
    ASSUME NEW s, Answered(s), NEW fp \in Clients, NEW how \in Saves
    PROVE  Answered(PairNewClient(s, fp, how))
<1> DEFINE n == s.created + 1
           user == [id |-> NextUserId(s.users), fingerprint |-> fp, sct |-> n,
                    roles |-> IF s.users = << >> THEN {"Admin"} ELSE {"User"}]
           a == [s EXCEPT !.created = n]
           users == Append(s.users, user)
           tokens == s.tokens \cup {n}
           b == [a EXCEPT !.users = users, !.tokens = tokens]
<1>1. /\ s \in IamState(s.roles, s.policies) /\ s.users \in Seq(Users) /\ s.created \in 0..MaxPairings
      /\ s.tokens \in SUBSET (0..MaxPairings) /\ s.created \in Nat /\ Len(s.users) \in Nat /\ Unique(s.users)
      /\ Len(s.users) <= s.created /\ DOMAIN s.users = 1..Len(s.users)
  BY Typed, LenProperties DEF Answered, Base
<1>2. CASE FindUserByFingerprint(s.users, fp) # NoUser \/ s.created = MaxPairings
  <2>1. 201 \in IamCodes /\ 500 \in IamCodes
    BY DEF IamCodes
  <2> QED BY <1>2, <2>1, CodeKeeps DEF PairNewClient
<1>3. CASE ~(FindUserByFingerprint(s.users, fp) # NoUser \/ s.created = MaxPairings)
  <2>1. \A i \in 1..Len(s.users) : s.users[i].fingerprint # fp /\ s.users[i].id # NextUserId(s.users)
    BY <1>1, <1>3, FoundByFingerprint, NextUserIdNew
  <2>2. NextUserId(s.users) \in 1..(Len(s.users) + 1)
    BY <1>1, NextUserIdNew
  <2>3. n \in 1..MaxPairings /\ n \in 0..MaxPairings /\ NextUserId(s.users) \in 1..MaxPairings /\ Len(s.users) + 1 <= n
    BY <1>1, <1>3, <2>2, PairingsAssumption
  <2>4. user \in Users /\ user.id = NextUserId(s.users) /\ user.fingerprint = fp /\ user.sct = n
    BY <2>3 DEF Users
  <2>5. a.users = s.users /\ a.tokens = s.tokens
    BY <1>1 DEF IamState
  <2>6. PairNewClient(s, fp, how) = [IamUserChanged(b, how) EXCEPT !.code = 201]
    BY <1>3, <2>4, <2>5 DEF PairNewClient, AddUser
  <2> HIDE DEF user, n
  <2>7. /\ users \in Seq(Users) /\ Len(users) = Len(s.users) + 1 /\ DOMAIN users = 1..(Len(s.users) + 1)
        /\ users[Len(s.users) + 1] = user
        /\ \A i \in 1..Len(s.users) : users[i] = s.users[i]
    BY <1>1, <2>4
  <2> HIDE DEF users
  <2>8. Unique(users)
    <3>1. \A i \in DOMAIN users : i \in 1..Len(s.users) \/ i = Len(s.users) + 1
      BY <1>1, <2>7
    <3>2. \A i, j \in 1..Len(s.users) : i # j => s.users[i].id # s.users[j].id /\ s.users[i].fingerprint # s.users[j].fingerprint
      BY <1>1 DEF Unique
    <3> QED BY <2>1, <2>4, <2>7, <3>1, <3>2 DEF Unique
  <2>9. tokens \in SUBSET (0..MaxPairings) /\ \A i \in DOMAIN users : users[i].sct \in tokens
    <3>1. \A i \in 1..Len(s.users) : s.users[i].sct \in s.tokens
      BY <1>1 DEF Answered, Up, HasTokens
    <3>2. \A i \in DOMAIN users : i \in 1..Len(s.users) \/ i = Len(s.users) + 1
      BY <1>1, <2>7
    <3> QED BY <1>1, <2>3, <2>4, <2>7, <3>1, <3>2
  <2> HIDE DEF tokens
  <2>10. b \in IamState(s.roles, s.policies)
    BY ZenonT(40), <1>1, <2>3, <2>7, <2>9 DEF IamState
  <2>11. /\ b.run = s.run /\ b.users = users /\ b.roles = s.roles /\ b.policies = s.policies /\ b.tokens = tokens
         /\ b.notify = s.notify /\ b.created = n /\ b.file = s.file /\ b.lost = s.lost
    BY <1>1 DEF IamState
  <2> HIDE DEF b
  <2>12. Base(b)
    BY <2>3, <2>7, <2>8, <2>10, <2>11 DEF Answered, Base
  <2>13. Up(b)
    BY <2>9, <2>11 DEF Answered, Up, HasTokens
  <2>14. Stored(b, s.users)
    <3>1. \A w \in Good : Len(w) <= s.created => Len(w) <= n
      <4>1. \A w \in Good : Len(w) \in Nat
        BY LenProperties DEF Good
      <4> QED BY <1>1, <4>1 DEF n
    <3>2. Stored(s, s.users)
      BY DEF Answered
    <3> QED BY ONLY <2>11, <3>1, <3>2 DEF Stored
  <2>15. Answered(IamUserChanged(b, how))
    BY <2>12, <2>13, <2>14, UserChangedKeeps
  <2>16. 201 \in IamCodes
    BY DEF IamCodes
  <2> QED BY ONLY <2>6, <2>15, <2>16, CodeKeeps
<1> QED BY <1>2, <1>3

\* A user less is reported (nm_iam_delete_user).
LEMMA DeleteUserKeeps ==
    ASSUME NEW s, Answered(s), NEW id, NEW how \in Saves
    PROVE  Answered(DeleteUser(s, id, how))
<1> DEFINE at == {i \in DOMAIN s.users : s.users[i].id = id}
<1>1. /\ s \in IamState(s.roles, s.policies) /\ s.users \in Seq(Users) /\ s.created \in Nat
      /\ Len(s.users) \in Nat /\ Unique(s.users) /\ Len(s.users) <= s.created /\ DOMAIN s.users = 1..Len(s.users)
  BY Typed, LenProperties DEF Answered, Base
<1>2. CASE at = {}
  BY <1>2 DEF DeleteUser
<1>3. CASE at # {}
  <2> DEFINE i == CHOOSE j \in at : \A k \in at : j <= k
             users == SubSeq(s.users, 1, i - 1) \o SubSeq(s.users, i + 1, Len(s.users))
  <2>1. at \subseteq Nat
    BY <1>1
  <2>2. i \in at
    BY ZenonT(40), <1>3, <2>1, Smallest
  <2>3. DeleteUser(s, id, how) = IamUserChanged([s EXCEPT !.users = users], how)
    BY <1>3 DEF DeleteUser
  <2>4. i \in 1..Len(s.users)
    BY <1>1, <2>2
  <2> HIDE DEF i
  <2> DEFINE place(k) == IF k < i THEN k ELSE k + 1
             N == Len(s.users) - 1
  <2>5. users \in Seq(Users) /\ Len(users) = N
        /\ \A k \in 1..N : users[k] = s.users[place(k)] /\ place(k) \in 1..Len(s.users)
    <3> DEFINE x == SubSeq(s.users, 1, i - 1)
               y == SubSeq(s.users, i + 1, Len(s.users))
    <3>1. x \in Seq(Users) /\ Len(x) = i - 1 /\ \A k \in 1..(i - 1) : x[k] = s.users[k]
      BY <1>1, <2>4
    <3>2. y \in Seq(Users) /\ Len(y) = Len(s.users) - i /\ \A k \in 1..(Len(s.users) - i) : y[k] = s.users[k + i]
      BY <1>1, <2>4
    <3> HIDE DEF x, y
    <3>3. x \o y \in Seq(Users) /\ Len(x \o y) = Len(x) + Len(y)
          /\ \A k \in 1..(Len(x) + Len(y)) : (x \o y)[k] = IF k <= Len(x) THEN x[k] ELSE y[k - Len(x)]
      BY ZenonT(40), <3>1, <3>2, ConcatProperties
    <3>4. x \o y = users
      BY DEF x, y
    <3> HIDE DEF users
    <3>5. \A k \in 1..N : users[k] = s.users[place(k)] /\ place(k) \in 1..Len(s.users)
      <4> SUFFICES ASSUME NEW k \in 1..N PROVE users[k] = s.users[place(k)] /\ place(k) \in 1..Len(s.users)
        OBVIOUS
      <4>1. CASE k < i
        <5>1. k \in 1..(i - 1) /\ k <= i - 1 /\ k \in 1..(Len(x) + Len(y)) /\ k \in 1..Len(s.users)
          BY <1>1, <2>4, <3>1, <3>2, <4>1
        <5>2. users[k] = x[k]
          BY <3>1, <3>3, <3>4, <5>1
        <5> QED BY <3>1, <4>1, <5>1, <5>2
      <4>2. CASE ~(k < i)
        <5>1. k - (i - 1) \in 1..(Len(s.users) - i) /\ ~(k <= i - 1) /\ k \in 1..(Len(x) + Len(y))
          BY <1>1, <2>4, <3>1, <3>2, <4>2
        <5>2. users[k] = y[k - (i - 1)]
          BY <3>1, <3>3, <3>4, <5>1
        <5>3. y[k - (i - 1)] = s.users[(k - (i - 1)) + i]
          BY <3>2, <5>1
        <5>4. (k - (i - 1)) + i = k + 1 /\ k + 1 \in 1..Len(s.users)
          BY <1>1, <2>4, <4>2
        <5> QED BY <4>2, <5>2, <5>3, <5>4
      <4> QED BY <4>1, <4>2
    <3> QED BY <1>1, <2>4, <3>1, <3>2, <3>3, <3>4, <3>5
  <2> HIDE DEF users
  <2>6. DOMAIN users = 1..N
    BY <2>5, LenProperties
  <2>7. \A k, l \in 1..N : k # l => place(k) # place(l)
    BY <1>1, <2>4
  <2> HIDE DEF place
  <2>8. Unique(users)
    <3> SUFFICES ASSUME NEW k \in 1..N, NEW l \in 1..N, k # l
                 PROVE  users[k].id # users[l].id /\ users[k].fingerprint # users[l].fingerprint
      BY <2>6 DEF Unique
    <3>1. place(k) # place(l) /\ place(k) \in DOMAIN s.users /\ place(l) \in DOMAIN s.users
      BY <1>1, <2>5, <2>7
    <3> QED BY ZenonT(40), <1>1, <2>5, <3>1 DEF Unique
  <2>9. \A k \in DOMAIN users : users[k].sct \in s.tokens
    <3>1. \A k \in 1..Len(s.users) : s.users[k].sct \in s.tokens
      BY <1>1 DEF Answered, Up, HasTokens
    <3> QED BY <2>5, <2>6, <3>1
  <2>10. Len(users) <= s.created
    BY <1>1, <2>5
  <2>11. users \in Good
    BY <2>5, <2>8 DEF Good
  <2> QED BY <2>3, <2>9, <2>10, <2>11, ReplacedKeeps
<1> QED BY <1>2, <1>3

\* The roles of a user are other ones, and that is reported.
LEMMA WithRolesKeeps ==
    ASSUME NEW s, Answered(s), NEW id, NEW roles \in SUBSET {"Admin", "User"}, NEW how \in Saves
    PROVE  Answered(IamUserChanged(WithRoles(s, id, roles), how))
<1>1. /\ s \in IamState(s.roles, s.policies) /\ s.users \in Seq(Users) /\ s.created \in Nat
      /\ Len(s.users) \in Nat /\ Unique(s.users) /\ Len(s.users) <= s.created /\ DOMAIN s.users = 1..Len(s.users)
  BY Typed, LenProperties DEF Answered, Base
<1> DEFINE changed(u) == IF u.id = id THEN [u EXCEPT !.roles = roles] ELSE u
           users == [i \in DOMAIN s.users |-> changed(s.users[i])]
<1>2. WithRoles(s, id, roles) = [s EXCEPT !.users = users]
  BY DEF WithRoles
<1>3. \A u \in Users : changed(u) \in Users /\ changed(u).id = u.id /\ changed(u).fingerprint = u.fingerprint
                       /\ changed(u).sct = u.sct
  BY DEF Users
<1> HIDE DEF changed
<1>4. \A i \in 1..Len(s.users) : s.users[i] \in Users
  BY <1>1, ElementOfSeq
<1>5. users \in Seq(Users) /\ Len(users) = Len(s.users) /\ DOMAIN users = DOMAIN s.users
      /\ \A i \in DOMAIN s.users : users[i] = changed(s.users[i])
  <2>1. users \in [1..Len(s.users) -> Users]
    BY <1>1, <1>3, <1>4
  <2> QED BY <1>1, <2>1
<1> HIDE DEF users
<1>6. users \in Good
  BY <1>1, <1>3, <1>4, <1>5 DEF Good, Unique
<1>7. \A i \in DOMAIN users : users[i].sct \in s.tokens
  BY <1>1, <1>3, <1>4, <1>5 DEF Answered, Up, HasTokens
<1> QED BY <1>1, <1>2, <1>5, <1>6, <1>7, ReplacedKeeps

\* The end of a request: history takes what the handler left.
LEMMA CallbackKeeps ==
    ASSUME NEW t, Answered(t), RequestCallback(t)
    PROVE  IamInv(iam')
<1> DEFINE users == t.users
<1>1. t \in IamState(t.roles, t.policies) /\ users \in Seq(Users)
  BY Typed DEF Answered
<1>2. iam' = [t EXCEPT !.last = users]
  BY DEF RequestCallback
<1> HIDE DEF users
<1>3. iam' \in IamState(t.roles, t.policies)
  BY Zenon, <1>1, <1>2 DEF IamState
<1>4. /\ iam'.run = t.run /\ iam'.users = t.users /\ iam'.roles = t.roles /\ iam'.policies = t.policies
      /\ iam'.tokens = t.tokens /\ iam'.notify = t.notify /\ iam'.created = t.created /\ iam'.file = t.file
      /\ iam'.lost = t.lost /\ iam'.last = t.users
  BY <1>1, <1>2 DEF IamState, users
<1>5. Base(iam')
  BY <1>3, <1>4 DEF Answered, Base
<1>6. Up(iam')
  BY <1>4 DEF Answered, Up, HasTokens
<1>7. Stored(iam', iam'.last)
  BY <1>4 DEF Answered, Stored
<1> QED BY <1>4, <1>5, <1>6, <1>7 DEF IamInv

\* The handlers that answer without a change.
LEMMA ReadsKeep ==
    ASSUME Answered(iam), NEW action, NEW granted, NEW fp, NEW attributes, Reads(action, granted, fp, attributes)
    PROVE  IamInv(iam')
<1>1. /\ 205 \in IamCodes /\ 403 \in IamCodes /\ 404 \in IamCodes /\ 201 \in IamCodes
  BY DEF IamCodes
<1>2. PICK code \in IamCodes : RequestCallback([iam EXCEPT !.code = code])
  BY <1>1 DEF Reads, PairingGet, IsPaired, ClientSettings, HandleAuthorization, ListUsers, ListRoles, GetUser, Code
<1> QED BY <1>2, CodeKeeps, CallbackKeeps

\* The handlers that change users.
LEMMA ChangesKeep ==
    ASSUME Answered(iam), NEW action, NEW granted, NEW fp, granted => fp \in Clients,
           NEW attributes \in AttributesOf(action), NEW how \in Saves,
           Changes(action, granted, fp, attributes, how)
    PROVE  IamInv(iam')
<1>1. /\ 201 \in IamCodes /\ 202 \in IamCodes /\ 400 \in IamCodes /\ 401 \in IamCodes /\ 403 \in IamCodes /\ 404 \in IamCodes
  BY DEF IamCodes
<1>2. Answered(Code(iam, 400)) /\ Answered(Code(iam, 401)) /\ Answered(Code(iam, 403))
  BY <1>1, CodeKeeps DEF Code
<1>3. granted => Answered(PairNewClient(iam, fp, how))
  BY PairNewClientKeeps
<1>4. ASSUME NEW local, NEW readable PROVE Answered(PairingLocal(iam, granted, fp, local, readable, how))
  BY <1>2, <1>3 DEF PairingLocal
<1>5. ASSUME NEW right, NEW readable PROVE Answered(PairingPassword(iam, granted, fp, right, readable, how))
  BY <1>2, <1>3 DEF PairingPassword
<1>6. Answered(HandleDeleteUser(iam, granted, attributes["IAM:UserId"], how))
  <2>1. Answered(DeleteUser(iam, attributes["IAM:UserId"], how))
    BY DeleteUserKeeps
  <2>2. Answered(Code(DeleteUser(iam, attributes["IAM:UserId"], how), 202))
    BY <1>1, <2>1, CodeKeeps DEF Code
  <2> QED BY <1>2, <2>2 DEF HandleDeleteUser
<1> DEFINE id == attributes["IAM:UserId"]
           role == attributes["IAM:RoleId"]
           user == FindUserById(iam.users, id)
<1>7. user # NoUser => user.roles \in SUBSET {"Admin", "User"}
  <2>1. iam.users \in Seq(Users)
    BY Typed DEF Answered
  <2>2. user # NoUser => \E i \in DOMAIN iam.users : user = iam.users[i]
    BY <2>1, FoundById
  <2> QED BY ZenonT(40), <2>1, <2>2, UserAt DEF Users
<1>8. Answered(HandleRemoveRole(iam, granted, id, role, how))
  <2>1. CASE user = NoUser
    BY <1>1, <1>2, <2>1, CodeKeeps DEF HandleRemoveRole, RemoveRoleFromUser, Code
  <2>2. CASE user # NoUser
    <3> DEFINE roles == user.roles \ {role}
               t == IamUserChanged(WithRoles(iam, id, roles), how)
    <3>1. roles \in SUBSET {"Admin", "User"}
      BY <1>7, <2>2
    <3>2. HandleRemoveRole(iam, granted, id, role, how) = IF ~granted THEN Code(iam, 403) ELSE Code(t, 202)
      BY <2>2 DEF HandleRemoveRole, RemoveRoleFromUser
    <3> HIDE DEF roles
    <3>3. Answered(t)
      BY <3>1, WithRolesKeeps
    <3> HIDE DEF t
    <3>4. Answered(Code(t, 202))
      BY <1>1, <3>3, CodeKeeps DEF Code
    <3> QED BY <1>2, <3>2, <3>4
  <2> QED BY <2>1, <2>2
<1>9. ASSUME action = "IAM:AddRoleToUser" PROVE Answered(HandleAddRole(iam, granted, id, role, how))
  <2>1. role \in {"Admin", "User", "Owner"}
    BY <1>9 DEF AttributesOf
  <2>2. CASE user = NoUser \/ FindRole(iam, role) = {}
    <3>1. HandleAddRole(iam, granted, id, role, how) = IF ~granted THEN Code(iam, 403) ELSE Code(iam, 404)
      BY <2>2 DEF HandleAddRole, AddRoleToUser, Code
    <3>2. Answered(Code(iam, 404))
      BY <1>1, CodeKeeps DEF Code
    <3> QED BY <1>2, <3>1, <3>2
  <2>3. CASE ~(user = NoUser \/ FindRole(iam, role) = {})
    <3> DEFINE roles == user.roles \cup {role}
               t == IamUserChanged(WithRoles(iam, id, roles), how)
    <3>1. PICK i \in DOMAIN iam.roles : iam.roles[i].id = role
      BY <2>3 DEF FindRole
    <3>2. role \in {"Unpaired", "Admin", "User"}
      BY <3>1 DEF Answered, Base, RolesRight
    <3>3. roles \in SUBSET {"Admin", "User"}
      BY <1>7, <2>1, <2>3, <3>2
    <3>4. HandleAddRole(iam, granted, id, role, how) = IF ~granted THEN Code(iam, 403) ELSE Code(t, 201)
      BY <2>3 DEF HandleAddRole, AddRoleToUser, Code
    <3> HIDE DEF roles
    <3>5. Answered(t)
      BY <3>3, WithRolesKeeps
    <3> HIDE DEF t
    <3>6. Answered(Code(t, 201))
      BY <1>1, <3>5, CodeKeeps DEF Code
    <3> QED BY <1>2, <3>4, <3>6
  <2> QED BY <2>2, <2>3
<1> QED BY <1>4, <1>5, <1>6, <1>8, <1>9, CallbackKeeps DEF Changes

\* A request, whoever makes it and however its save ends.
LEMMA RequestKeepsUsers ==
    ASSUME IamInv(iam), Request
    PROVE  IamInv(iam')
<1>1. iam.run = "up"
  BY DEF Request
<1>2. Answered(iam)
  <2>1. Base(iam) /\ Up(iam) /\ Stored(iam, iam.last) /\ (~iam.lost => UsersIn(iam.users) = UsersIn(iam.last))
    BY <1>1 DEF IamInv
  <2>2. Stored(iam, iam.users)
    BY <2>1 DEF Stored, Up
  <2> QED BY <2>1, <2>2 DEF Answered
<1>3. PICK fp \in Clients \cup {"gone"}, action \in Asked : \E attributes \in AttributesOf(action) :
         \E granted \in {CheckAccess(iam, fp, action, attributes)} :
            \/ Reads(action, granted, fp, attributes)
            \/ \E how \in Saves : Changes(action, granted, fp, attributes, how)
  BY DEF Request
<1>4. PICK attributes \in AttributesOf(action) :
         \E granted \in {CheckAccess(iam, fp, action, attributes)} :
            \/ Reads(action, granted, fp, attributes)
            \/ \E how \in Saves : Changes(action, granted, fp, attributes, how)
  BY <1>3
<1>5. PICK granted \in {CheckAccess(iam, fp, action, attributes)} :
            \/ Reads(action, granted, fp, attributes)
            \/ \E how \in Saves : Changes(action, granted, fp, attributes, how)
  BY <1>4
<1>6. granted => fp \in Clients
  BY <1>3, <1>5 DEF CheckAccess
<1> QED BY ZenonT(40), <1>2, <1>5, <1>6, ReadsKeep, ChangesKeep

\* What a load keeps of s: the users and what the state file is held against.
LEMMA FrameKeeps ==
    ASSUME NEW s, IamInv(s), NEW t, t \in IamState(t.roles, t.policies),
           RolesRight(t.roles, t.policies),
           t.users = s.users, t.created = s.created, t.file["state"] = s.file["state"], t.lost = s.lost,
           t.last = s.last, t.run # "up"
    PROVE  IamInv(t)
  BY DEF IamInv, Base, Stored

\* A part of s is loaded, or the start fails.
Loads(s, t) ==
    /\ IamInv(t) /\ t.run # "up" /\ t.lost = s.lost /\ t.last = s.last
    /\ s.run = "failed" => t.run = "failed"

\* The users are those of the state file.
Restored(s) ==
    s.file["state"].is # "none" /\ HasTokens(s) /\ (~s.lost => UsersIn(s.users) = UsersIn(s.last))

\* Each of the four files holds what is written to it.
LEMMA FileKinds ==
    ASSUME NEW g \in FileMaps
    PROVE  /\ g["state"] \in StateFiles /\ g["iam"] \in ConfigFiles /\ g["services"] \in ServiceFiles /\ g["key"] \in KeyFiles
           /\ Files = {"iam", "state", "services", "key"}
  BY DEF FileMaps, Files

\* A role that is read from the file it was written to is the role.
LEMMA RoleRead ==
    ASSUME NEW U, NEW role, NEW id, NEW policies \in Seq(U), NoTwice(policies), role = RoleNew(id, policies)
    PROVE  RoleFromJson(RoleToJson(role)) = role
<1> DEFINE json == RoleToJson(role)
<1>1. DOMAIN json = {"Id", "Policies"} /\ json.Id = id /\ json.Policies = StringSetToJson(policies)
  BY DEF RoleToJson, RoleNew
<1>2. InsertAll(StringSetToJson(policies)) = policies
  BY InsertAllKeeps
<1> HIDE DEF json
<1>3. RoleFromJson(json) = RoleNew(id, InsertAll(json.Policies))
  BY <1>1 DEF RoleFromJson
<1>4. RoleFromJson(json) = role
  BY Zenon, <1>1, <1>2, <1>3
<1> QED BY <1>4 DEF json

\* The roles of the application name policies that are there, each once.
ProperRoles(policies, roles) ==
    /\ policies \in Seq(AllPolicies(IamNames)) /\ \A i \in DOMAIN policies : ProperPolicy(IamNames, policies[i])
    /\ DOMAIN roles = 1..3 /\ roles = [i \in 1..3 |-> roles[i]]
    /\ \A i \in 1..3 : \E id \in {"Unpaired", "Admin", "User"}, ids \in Seq(IamNames) :
         /\ roles[i] = RoleNew(id, ids) /\ NoTwice(ids)
         /\ \A k \in DOMAIN ids : \E j \in DOMAIN policies : policies[j].id = ids[k]

\* A configuration that is read from the file it was written to is the configuration.
LEMMA ConfigRead ==
    ASSUME NEW policies, NEW roles, ProperRoles(policies, roles), NEW config, config = ConfigToJson(policies, roles)
    PROVE  RolesRight([i \in DOMAIN config.Roles |-> RoleFromJson(config.Roles[i])],
                      [i \in DOMAIN config.Policies |-> PolicyFromJson(config.Policies[i])])
<1>1. /\ config.Roles = [i \in DOMAIN roles |-> RoleToJson(roles[i])]
      /\ config.Policies = [i \in DOMAIN policies |-> PolicyToJson(policies[i])]
  BY DEF ConfigToJson
<1>2. policies = [i \in DOMAIN policies |-> policies[i]] /\ roles = [i \in DOMAIN roles |-> roles[i]]
  BY DEF ProperRoles
<1>3. \A i \in DOMAIN policies : PolicyFromJson(PolicyToJson(policies[i])) = policies[i]
  BY Zenon, PolicyRoundTrip DEF ProperRoles
<1>4. \A i \in DOMAIN roles : RoleFromJson(RoleToJson(roles[i])) = roles[i]
  BY ZenonT(40), RoleRead DEF ProperRoles
<1>5. [i \in DOMAIN config.Policies |-> PolicyFromJson(config.Policies[i])] = policies
  BY <1>1, <1>2, <1>3
<1>6. [i \in DOMAIN config.Roles |-> RoleFromJson(config.Roles[i])] = roles
  BY <1>1, <1>2, <1>4
<1>7. ASSUME NEW i \in DOMAIN roles
      PROVE  roles[i].id \in {"Unpaired", "Admin", "User"} /\ PoliciesThere(policies, IamNames, roles[i])
  <2>1. PICK id \in {"Unpaired", "Admin", "User"}, ids \in Seq(IamNames) :
          /\ roles[i] = RoleNew(id, ids)
          /\ \A k \in DOMAIN ids : \E j \in DOMAIN policies : policies[j].id = ids[k]
    BY ZenonT(40) DEF ProperRoles
  <2>2. roles[i].id = id /\ roles[i].policies = ids
    BY <2>1 DEF RoleNew
  <2>3. policies \in Seq(AllPolicies(IamNames))
    BY Zenon DEF ProperRoles
  <2> QED BY ZenonT(40), <2>1, <2>2, <2>3 DEF PoliciesThere
<1>8. RolesRight(roles, policies)
  BY Zenon, <1>7 DEF RolesRight
<1> QED BY ZenonT(40), <1>5, <1>6, <1>8

\* A policy of one statement without conditions.
LEMMA NewPolicyProper ==
    ASSUME NEW U, NEW id \in U, NEW actions \in Seq(U), NoTwice(actions)
    PROVE  ProperPolicy(U, PolicyNew(id, actions)) /\ PolicyNew(id, actions).id = id
<1> DEFINE st == [effect |-> "ALLOW", actions |-> actions, conditions |-> << >>]
           p == PolicyNew(id, actions)
<1>1. st \in PolicyStatements(U) /\ st.actions = actions /\ DOMAIN st.conditions = {}
  BY DEF PolicyStatements
<1>2. ProperStatement(U, st)
  <2> HIDE DEF st
  <2> QED BY <1>1 DEF ProperStatement
<1>3. p = [id |-> id, statements |-> <<st>>]
  BY DEF PolicyNew
<1> HIDE DEF st, p
<1>4. p \in AllPolicies(U) /\ p.id = id /\ DOMAIN p.statements = {1} /\ p.statements[1] = st
  BY <1>1, <1>3 DEF AllPolicies
<1>5. ProperPolicy(U, p)
  BY <1>2, <1>4 DEF ProperPolicy
<1> QED BY <1>4, <1>5 DEF p

\* The policies of create_default_iam_config.
LEMMA DefaultsProper ==
    /\ DefaultPolicies \in Seq(AllPolicies(IamNames)) /\ Len(DefaultPolicies) = 4
    /\ \A i \in 1..4 : ProperPolicy(IamNames, DefaultPolicies[i])
    /\ DefaultPolicies[1].id = "PasswordPairing" /\ DefaultPolicies[2].id = "LocalPairing"
    /\ DefaultPolicies[3].id = "TunnelAll" /\ DefaultPolicies[4].id = "Paired"
<1> DEFINE a == PolicyNew("PasswordPairing", <<"Pairing:Get", "Pairing:Password">>)
           b == PolicyNew("LocalPairing", <<"Pairing:Get", "Pairing:Local">>)
           c == PolicyNew("TunnelAll", <<"TcpTunnel:GetService", "TcpTunnel:Connect", "TcpTunnel:ListServices">>)
           e == PolicyNew("Paired", <<"Pairing:Get">>)
<1>1. /\ "PasswordPairing" \in IamNames /\ "LocalPairing" \in IamNames /\ "TunnelAll" \in IamNames /\ "Paired" \in IamNames
      /\ <<"Pairing:Get", "Pairing:Password">> \in Seq(IamNames) /\ <<"Pairing:Get", "Pairing:Local">> \in Seq(IamNames)
      /\ <<"TcpTunnel:GetService", "TcpTunnel:Connect", "TcpTunnel:ListServices">> \in Seq(IamNames)
      /\ <<"Pairing:Get">> \in Seq(IamNames)
  BY DEF IamNames
<1>2. /\ NoTwice(<<"Pairing:Get", "Pairing:Password">>) /\ NoTwice(<<"Pairing:Get", "Pairing:Local">>)
      /\ NoTwice(<<"TcpTunnel:GetService", "TcpTunnel:Connect", "TcpTunnel:ListServices">>) /\ NoTwice(<<"Pairing:Get">>)
  BY DEF NoTwice
<1>3. ProperPolicy(IamNames, a) /\ a.id = "PasswordPairing"
  BY ZenonT(40), <1>1, <1>2, NewPolicyProper
<1>4. ProperPolicy(IamNames, b) /\ b.id = "LocalPairing"
  BY ZenonT(40), <1>1, <1>2, NewPolicyProper
<1>5. ProperPolicy(IamNames, c) /\ c.id = "TunnelAll"
  BY ZenonT(40), <1>1, <1>2, NewPolicyProper
<1>6. ProperPolicy(IamNames, e) /\ e.id = "Paired"
  BY ZenonT(40), <1>1, <1>2, NewPolicyProper
<1>7. DefaultPolicies = <<a, b, c, e>>
  BY DEF DefaultPolicies
<1> HIDE DEF a, b, c, e
<1>8. a \in AllPolicies(IamNames) /\ b \in AllPolicies(IamNames) /\ c \in AllPolicies(IamNames) /\ e \in AllPolicies(IamNames)
  BY <1>3, <1>4, <1>5, <1>6 DEF ProperPolicy
<1> QED BY <1>3, <1>4, <1>5, <1>6, <1>7, <1>8

\* The policy by which an administrator manages the other users.
ManagePolicy ==
    [id |-> "Manage", statements |->
       <<PolicyNew("", <<"IAM:ListUsers", "IAM:ListRoles", "IAM:GetUser", "IAM:DeleteUser",
                         "IAM:AddRoleToUser", "IAM:RemoveRoleFromUser">>).statements[1],
         [effect |-> "DENY", actions |-> <<"IAM:DeleteUser">>, conditions |-> <<OwnUser>>]>>]

LEMMA ManageProper == ProperPolicy(IamNames, ManagePolicy) /\ ManagePolicy.id = "Manage"
<1> DEFINE all == <<"IAM:ListUsers", "IAM:ListRoles", "IAM:GetUser", "IAM:DeleteUser",
                    "IAM:AddRoleToUser", "IAM:RemoveRoleFromUser">>
           value == [variable |-> TRUE, text |-> "Connection:UserId"]
           one == [effect |-> "ALLOW", actions |-> all, conditions |-> << >>]
           two == [effect |-> "DENY", actions |-> <<"IAM:DeleteUser">>, conditions |-> <<OwnUser>>]
<1>1. all \in Seq(IamNames) /\ <<"IAM:DeleteUser">> \in Seq(IamNames) /\ "Manage" \in IamNames
  BY DEF IamNames
<1>2. NoTwice(all) /\ NoTwice(<<"IAM:DeleteUser">>) /\ NoTwice(<<value>>)
  BY DEF NoTwice
<1>3. value \in PolicyValues(IamNames)
  BY DEF PolicyValues, IamNames
<1>4. 1 \in Operators /\ "IAM:UserId" \in IamNames
  BY DEF Operators, OperatorNames, IamNames
<1>5. ProperCondition(IamNames, OwnUser)
  <2>1. OwnUser = [op |-> 1, key |-> "IAM:UserId", values |-> <<value>>]
    BY DEF OwnUser
  <2> HIDE DEF value
  <2> QED BY <1>2, <1>3, <1>4, <2>1 DEF ProperCondition, PolicyConditions
<1>6. PolicyNew("", all).statements[1] = one
  BY DEF PolicyNew
<1> HIDE DEF all
<1>7. one \in PolicyStatements(IamNames) /\ one.actions = all /\ DOMAIN one.conditions = {}
  BY <1>1 DEF PolicyStatements
<1>8. /\ two \in PolicyStatements(IamNames) /\ two.actions = <<"IAM:DeleteUser">>
      /\ DOMAIN two.conditions = {1} /\ two.conditions[1] = OwnUser
  BY <1>1, <1>5 DEF PolicyStatements, ProperCondition
<1> HIDE DEF one, two
<1>9. ProperStatement(IamNames, one) /\ ProperStatement(IamNames, two)
  BY <1>2, <1>5, <1>7, <1>8 DEF ProperStatement
<1>10. ManagePolicy = [id |-> "Manage", statements |-> <<one, two>>]
  BY ZenonT(40), <1>6 DEF ManagePolicy, two, all
<1>11. /\ ManagePolicy \in AllPolicies(IamNames) /\ ManagePolicy.id = "Manage"
       /\ DOMAIN ManagePolicy.statements = 1..2 /\ ManagePolicy.statements[1] = one /\ ManagePolicy.statements[2] = two
  BY <1>1, <1>7, <1>8, <1>10 DEF AllPolicies
<1> QED BY <1>9, <1>11 DEF ProperPolicy

\* Three roles, each with its policies.
LEMMA ThreeRoles ==
    ASSUME NEW policies \in Seq(AllPolicies(IamNames)), \A i \in DOMAIN policies : ProperPolicy(IamNames, policies[i]),
           NEW x \in Seq(IamNames), NEW y \in Seq(IamNames), NEW z \in Seq(IamNames), NoTwice(x), NoTwice(y), NoTwice(z),
           \A k \in DOMAIN x : \E j \in DOMAIN policies : policies[j].id = x[k],
           \A k \in DOMAIN y : \E j \in DOMAIN policies : policies[j].id = y[k],
           \A k \in DOMAIN z : \E j \in DOMAIN policies : policies[j].id = z[k]
    PROVE  ProperRoles(policies, <<RoleNew("Unpaired", x), RoleNew("Admin", y), RoleNew("User", z)>>)
<1> DEFINE roles == <<RoleNew("Unpaired", x), RoleNew("Admin", y), RoleNew("User", z)>>
           Right(role) == \E id \in {"Unpaired", "Admin", "User"}, ids \in Seq(IamNames) :
                            /\ role = RoleNew(id, ids) /\ NoTwice(ids)
                            /\ \A k \in DOMAIN ids : \E j \in DOMAIN policies : policies[j].id = ids[k]
<1>1. /\ DOMAIN roles = 1..3 /\ roles[1] = RoleNew("Unpaired", x) /\ roles[2] = RoleNew("Admin", y)
      /\ roles[3] = RoleNew("User", z) /\ roles = [i \in 1..3 |-> roles[i]]
  OBVIOUS
<1> HIDE DEF roles
<1>2. Right(RoleNew("Unpaired", x)) /\ Right(RoleNew("Admin", y)) /\ Right(RoleNew("User", z))
  BY Zenon
<1> HIDE DEF Right
<1>3. \A i \in 1..3 : Right(roles[i])
  BY <1>1, <1>2
<1>4. ProperRoles(policies, roles)
  BY ZenonT(40), <1>1, <1>3 DEF ProperRoles, Right
<1> QED BY <1>4 DEF roles

\* The roles and the policies that are read from either configuration belong together.
LEMMA RolesRead ==
    ASSUME NEW config \in {DefaultIamConfig, ManagedIamConfig}
    PROVE  RolesRight([i \in DOMAIN config.Roles |-> RoleFromJson(config.Roles[i])],
                      [i \in DOMAIN config.Policies |-> PolicyFromJson(config.Policies[i])])
<1> DEFINE unpaired == <<"PasswordPairing", "LocalPairing">>
           paired == <<"TunnelAll", "Paired">>
           manager == <<"TunnelAll", "Paired", "Manage">>
           managed == Append(DefaultPolicies, ManagePolicy)
<1>1. unpaired \in Seq(IamNames) /\ paired \in Seq(IamNames) /\ manager \in Seq(IamNames)
  BY DEF IamNames
<1>2. NoTwice(unpaired) /\ NoTwice(paired) /\ NoTwice(manager)
  BY DEF NoTwice
<1>3. /\ DOMAIN unpaired = 1..2 /\ unpaired[1] = "PasswordPairing" /\ unpaired[2] = "LocalPairing"
      /\ DOMAIN paired = 1..2 /\ paired[1] = "TunnelAll" /\ paired[2] = "Paired"
      /\ DOMAIN manager = 1..3 /\ manager[1] = "TunnelAll" /\ manager[2] = "Paired" /\ manager[3] = "Manage"
  OBVIOUS
<1>4. CASE config = DefaultIamConfig
  <2>1. config = ConfigToJson(DefaultPolicies, <<RoleNew("Unpaired", unpaired), RoleNew("Admin", paired), RoleNew("User", paired)>>)
    BY <1>4 DEF DefaultIamConfig
  <2> HIDE DEF unpaired, paired, manager
  <2>2. DOMAIN DefaultPolicies = 1..4
    BY DefaultsProper
  <2>3. \A k \in DOMAIN unpaired : \E j \in DOMAIN DefaultPolicies : DefaultPolicies[j].id = unpaired[k]
    BY <1>3, <2>2, DefaultsProper
  <2>4. \A k \in DOMAIN paired : \E j \in DOMAIN DefaultPolicies : DefaultPolicies[j].id = paired[k]
    BY <1>3, <2>2, DefaultsProper
  <2>5. ProperRoles(DefaultPolicies, <<RoleNew("Unpaired", unpaired), RoleNew("Admin", paired), RoleNew("User", paired)>>)
    BY ZenonT(40), <1>1, <1>2, <2>2, <2>3, <2>4, DefaultsProper, ThreeRoles
  <2> QED BY ZenonT(40), <2>1, <2>5, ConfigRead
<1>5. CASE config = ManagedIamConfig
  <2>1. config = ConfigToJson(managed, <<RoleNew("Unpaired", unpaired), RoleNew("Admin", manager), RoleNew("User", paired)>>)
    BY Zenon, <1>5 DEF ManagedIamConfig, ManagePolicy
  <2>2. /\ managed \in Seq(AllPolicies(IamNames)) /\ DOMAIN managed = 1..5 /\ managed[5] = ManagePolicy
        /\ \A i \in 1..4 : managed[i] = DefaultPolicies[i]
    <3>1. DefaultPolicies \in Seq(AllPolicies(IamNames)) /\ Len(DefaultPolicies) = 4
      BY Zenon, DefaultsProper
    <3>2. ManagePolicy \in AllPolicies(IamNames)
      BY Zenon, ManageProper DEF ProperPolicy
    <3>3. /\ managed \in Seq(AllPolicies(IamNames)) /\ Len(managed) = Len(DefaultPolicies) + 1
          /\ \A i \in 1..Len(DefaultPolicies) : managed[i] = DefaultPolicies[i]
          /\ managed[Len(DefaultPolicies) + 1] = ManagePolicy
      <4> DEFINE S == AllPolicies(IamNames)
      <4>1. DefaultPolicies \in Seq(S) /\ ManagePolicy \in S
        BY <3>1, <3>2
      <4> HIDE DEF S
      <4>2. /\ Append(DefaultPolicies, ManagePolicy) \in Seq(S)
            /\ Len(Append(DefaultPolicies, ManagePolicy)) = Len(DefaultPolicies) + 1
            /\ \A i \in 1..Len(DefaultPolicies) : Append(DefaultPolicies, ManagePolicy)[i] = DefaultPolicies[i]
            /\ Append(DefaultPolicies, ManagePolicy)[Len(DefaultPolicies) + 1] = ManagePolicy
        BY ONLY <4>1, AppendProperties
      <4> QED BY ONLY Zenon, <4>2 DEF managed, S
    <3> HIDE DEF managed
    <3> QED BY ONLY <3>1, <3>3
  <2> HIDE DEF unpaired, paired, manager, managed
  <2>3. \A i \in DOMAIN managed : ProperPolicy(IamNames, managed[i])
    BY <2>2, DefaultsProper, ManageProper
  <2>4. /\ managed[1].id = "PasswordPairing" /\ managed[2].id = "LocalPairing" /\ managed[3].id = "TunnelAll"
        /\ managed[4].id = "Paired" /\ managed[5].id = "Manage"
    BY <2>2, DefaultsProper, ManageProper
  <2>5. \A k \in DOMAIN unpaired : \E j \in DOMAIN managed : managed[j].id = unpaired[k]
    BY <1>3, <2>2, <2>4
  <2>6. \A k \in DOMAIN paired : \E j \in DOMAIN managed : managed[j].id = paired[k]
    BY <1>3, <2>2, <2>4
  <2>7. \A k \in DOMAIN manager : \E j \in DOMAIN managed : managed[j].id = manager[k]
    BY <1>3, <2>2, <2>4
  <2>8. ProperRoles(managed, <<RoleNew("Unpaired", unpaired), RoleNew("Admin", manager), RoleNew("User", paired)>>)
    BY ZenonT(40), <1>1, <1>2, <2>2, <2>3, <2>5, <2>6, <2>7, ThreeRoles
  <2> QED BY Zenon, <2>1, <2>8, ConfigRead
<1> QED BY <1>4, <1>5

\* The configuration is created or loaded.
LEMMA LoadIamConfigKeeps ==
    ASSUME NEW s, IamInv(s), s.run = "off", NEW cutAt
    PROVE  Loads(s, LoadIamConfig(s, cutAt))
<1> DEFINE content == IF "iam" = cutAt THEN [is |-> "torn"] ELSE DefaultIamConfig
           g == [s.file EXCEPT !["iam"] = content]
           a == IF Exists(s, "iam") THEN s ELSE [s EXCEPT !.file = g]
<1>1. s \in IamState(s.roles, s.policies) /\ s.file \in FileMaps /\ Base(s)
  BY Typed DEF IamInv
<1>2. LoadIamConfig(s, cutAt) = LoadFile(a, "iam", ReadIamConfig(a))
  BY DEF LoadIamConfig, SaveFile
<1>3. content \in ConfigFiles /\ content.is # "none"
  BY DEF ConfigFiles, Unparsed, DefaultIamConfig, ConfigToJson
<1>4. g \in FileMaps /\ g["iam"] = content /\ g["state"] = s.file["state"]
  <2>1. "iam" \in Files /\ "state" \in Files
    BY DEF Files
  <2> HIDE DEF content
  <2> QED BY ONLY <1>1, <1>3, <2>1, FileReplaced DEF g
<1> HIDE DEF g, content
<1>5. /\ a \in IamState(s.roles, s.policies) /\ a.roles = s.roles /\ a.policies = s.policies
      /\ a.users = s.users /\ a.created = s.created /\ a.lost = s.lost /\ a.last = s.last /\ a.run = "off"
      /\ a.file = s.file \/ a.file = g
  BY Zenon, <1>1, <1>4 DEF IamState
<1>6. a.file["state"] = s.file["state"] /\ a.file \in FileMaps
  BY <1>1, <1>4, <1>5
<1>7. a.file["iam"].is # "none"
  <2>1. CASE Exists(s, "iam")
    BY <2>1 DEF Exists
  <2>2. CASE ~Exists(s, "iam")
    <3>1. a.file = g
      BY <1>1, <2>2 DEF IamState
    <3> QED BY <1>3, <1>4, <3>1
  <2> QED BY <2>1, <2>2
<1> HIDE DEF a
<1>8. RolesRight(s.roles, s.policies)
  BY <1>1 DEF Base
<1> DEFINE f == [a EXCEPT !.run = "failed"]
<1>9. Loads(s, f)
  <2>1. /\ f \in IamState(s.roles, s.policies) /\ f.roles = s.roles /\ f.policies = s.policies
        /\ f.users = s.users /\ f.created = s.created /\ f.lost = s.lost /\ f.last = s.last /\ f.run = "failed"
        /\ f.file = a.file
    BY <1>5 DEF IamState
  <2> HIDE DEF f
  <2> QED BY <1>6, <1>8, <2>1, FrameKeeps DEF Loads
<1>10. CASE a.file["iam"].is = "torn"
  BY <1>2, <1>5, <1>9, <1>10 DEF LoadFile
<1>11. CASE a.file["iam"].is # "torn"
  <2> DEFINE config == a.file["iam"]
             policies == [i \in DOMAIN config.Policies |-> PolicyFromJson(config.Policies[i])]
             roles == [i \in DOMAIN config.Roles |-> RoleFromJson(config.Roles[i])]
             t == [a EXCEPT !.policies = policies, !.roles = roles]
  <2>1. LoadIamConfig(s, cutAt) = ReadIamConfig(a)
    BY <1>2, <1>5, <1>11 DEF LoadFile
  <2>2. ReadIamConfig(a) \in {f, t}
    BY DEF ReadIamConfig
  <2>3. config \in {DefaultIamConfig, ManagedIamConfig}
    BY <1>6, <1>7, <1>11, FileKinds DEF ConfigFiles, Unparsed
  <2> HIDE DEF config
  <2>4. RolesRight(roles, policies)
    BY <2>3, RolesRead
  <2> HIDE DEF roles, policies
  <2>5. /\ t \in IamState(roles, policies) /\ t.roles = roles /\ t.policies = policies
        /\ t.users = s.users /\ t.created = s.created /\ t.lost = s.lost /\ t.last = s.last /\ t.run = "off"
        /\ t.file = a.file
    BY ZenonT(40), <1>5 DEF IamState
  <2> HIDE DEF t
  <2>6. Loads(s, t)
    BY <1>6, <2>4, <2>5, FrameKeeps DEF Loads
  <2> QED BY <1>9, <2>1, <2>2, <2>6
<1> QED BY <1>10, <1>11

\* A user that is read from what it was written as is the same user.
LEMMA UserRead ==
    ASSUME NEW u \in Users
    PROVE  UserFromJson(UserToJson(u)) = u
<1>1. u = [id |-> u.id, fingerprint |-> u.fingerprint, roles |-> u.roles, sct |-> u.sct]
  BY DEF Users
<1>2. CASE u.roles = {}
  <2>1. UserFromJson(UserToJson(u)) = [id |-> u.id, fingerprint |-> u.fingerprint, sct |-> u.sct, roles |-> {}]
    BY <1>2 DEF UserFromJson, UserToJson
  <2> QED BY <1>1, <1>2, <2>1
<1>3. CASE u.roles # {}
  <2>1. UserFromJson(UserToJson(u)) = [id |-> u.id, fingerprint |-> u.fingerprint, sct |-> u.sct, roles |-> u.roles]
    BY <1>3 DEF UserFromJson, UserToJson
  <2> QED BY <1>1, <2>1
<1> QED BY <1>2, <1>3

\* The state is created or loaded: the users are those that were saved.
LEMMA LoadTcpTunnelStateKeeps ==
    ASSUME NEW s, IamInv(s), s.run # "up", NEW cutAt
    PROVE  LET t == LoadTcpTunnelState(s, cutAt) IN
           Loads(s, t) /\ (t.run = "off" => Restored(t))
<1>1. s \in IamState(s.roles, s.policies) /\ s.file \in FileMaps /\ Base(s)
  BY Typed DEF IamInv
<1>2. CASE s.run = "failed"
  <2>1. LoadTcpTunnelState(s, cutAt) = s
    BY <1>2 DEF LoadTcpTunnelState, LoadFile
  <2> QED BY <1>2, <2>1 DEF Loads
<1>3. CASE s.run # "failed"
  <2>0. s.run = "off"
    BY <1>1, <1>3 DEF IamState
  <2> DEFINE content == IF "state" = cutAt THEN [is |-> "torn"] ELSE DefaultState
             g == [s.file EXCEPT !["state"] = content]
             a == IF Exists(s, "state") THEN s ELSE [s EXCEPT !.file = g]
  <2>1. LoadTcpTunnelState(s, cutAt) = LoadFile(a, "state", ReadState(a))
    BY <1>3 DEF LoadTcpTunnelState, SaveFile
  <2>2. << >> \in Good /\ DefaultState = StateJson(<< >>) /\ UsersIn(<< >>) = {} /\ Len(<< >>) = 0
    <3>1. << >> \in Good
      BY DEF Good, Unique
    <3>2. [i \in DOMAIN << >> |-> UserToJson(<< >>[i])] = << >>
      OBVIOUS
    <3>3. DefaultState = StateJson(<< >>)
      BY <3>2 DEF DefaultState, StateJson
    <3>4. UsersIn(<< >>) = {} /\ Len(<< >>) = 0
      BY DEF UsersIn
    <3> QED BY <3>1, <3>3, <3>4
  <2>3. content \in StateFiles /\ content.is # "none" /\ (content.is = "json" => content = DefaultState)
    <3>1. [is |-> "torn"] \in StateFiles /\ DefaultState \in StateFiles
      BY <2>2 DEF StateFiles, Unparsed
    <3>2. [is |-> "torn"].is = "torn" /\ DefaultState.is = "json"
      BY DEF DefaultState
    <3> QED BY <3>1, <3>2
  <2> HIDE DEF content
  <2>4. g \in FileMaps /\ g["state"] = content
    <3>1. "state" \in Files
      BY DEF Files
    <3> QED BY ONLY <1>1, <2>3, <3>1, FileReplaced DEF g
  <2> HIDE DEF g
  <2>5. /\ a \in IamState(s.roles, s.policies) /\ a.roles = s.roles /\ a.policies = s.policies
        /\ a.users = s.users /\ a.created = s.created /\ a.lost = s.lost /\ a.last = s.last /\ a.run = "off"
    BY <1>1, <2>0, <2>4 DEF IamState
  <2>6. IamInv(a) /\ a.file["state"].is # "none"
    <3>1. CASE Exists(s, "state")
      BY <3>1 DEF Exists
    <3>2. CASE ~Exists(s, "state")
      <4>1. a.file = g
        BY <1>1, <3>2 DEF IamState
      <4>2. s.file["state"].is = "none"
        BY <3>2 DEF Exists
      <4>3. ~s.lost => s.last = << >>
        BY <4>2 DEF IamInv, Stored
      <4>4. s.created \in Nat
        BY <1>1, Typed
      <4> HIDE DEF a
      <4>5. Base(a)
        BY <1>1, <2>5 DEF Base
      <4>6. Stored(a, a.last)
        BY <2>2, <2>3, <2>4, <2>5, <4>1, <4>3, <4>4 DEF Stored
      <4> QED BY <2>3, <2>4, <2>5, <4>1, <4>5, <4>6 DEF IamInv
    <3> QED BY <3>1, <3>2
  <2> HIDE DEF a
  <2>7. Base(a) /\ a.file \in FileMaps
    BY <2>6, Typed DEF IamInv
  <2>8. CASE a.file["state"].is = "torn"
    <3> DEFINE f == [a EXCEPT !.run = "failed"]
    <3>1. LoadTcpTunnelState(s, cutAt) = f
      BY <2>1, <2>5, <2>8 DEF LoadFile
    <3>2. /\ f \in IamState(s.roles, s.policies) /\ f.roles = s.roles /\ f.policies = s.policies
          /\ f.users = a.users /\ f.created = a.created /\ f.lost = a.lost /\ f.last = a.last /\ f.run = "failed"
          /\ f.file = a.file
      BY <2>5 DEF IamState
    <3> HIDE DEF f
    <3>3. IamInv(f)
      <4>1. RolesRight(f.roles, f.policies)
        BY <1>1, <3>2 DEF Base
      <4> QED BY <2>6, <3>2, <4>1, FrameKeeps
    <3> QED BY <2>0, <2>5, <3>1, <3>2, <3>3 DEF Loads
  <2>9. CASE a.file["state"].is # "torn"
    <3>1. a.file["state"].is = "json"
      <4>1. a.file["state"] \in StateFiles
        BY <2>7, FileKinds
      <4> QED BY <2>6, <2>9, <4>1 DEF StateFiles, Unparsed, StateJson
    <3>2. PICK w \in Good : /\ a.file["state"] = StateJson(w) /\ Len(w) <= a.created
                            /\ ~a.lost => UsersIn(w) = UsersIn(a.last)
      BY <2>6, <3>1 DEF IamInv, Stored
    <3> DEFINE json == a.file["state"].users
               users == [i \in DOMAIN json |-> UserFromJson(json[i])]
               tokens == {0} \cup {w[i].sct : i \in DOMAIN w}
               t == [a EXCEPT !.users = w, !.tokens = tokens]
    <3>3. w \in Seq(Users) /\ Unique(w) /\ DOMAIN w = 1..Len(w)
      BY LenProperties DEF Good
    <3>4. users = w
      <4>1. json = [i \in DOMAIN w |-> UserToJson(w[i])]
        BY <3>2 DEF StateJson
      <4>2. \A i \in DOMAIN w : UserFromJson(UserToJson(w[i])) = w[i]
        BY <3>3, UserAt, UserRead
      <4> HIDE DEF json
      <4>3. DOMAIN users = DOMAIN w /\ \A i \in DOMAIN w : users[i] = w[i]
        BY <4>1, <4>2
      <4>4. users = [i \in 1..Len(w) |-> w[i]]
        BY <3>3, <4>1, <4>2
      <4>5. w = [i \in 1..Len(w) |-> w[i]]
        BY <3>3
      <4> QED BY <4>4, <4>5
    <3>5. LoadTcpTunnelState(s, cutAt) = t
      <4>1. LoadTcpTunnelState(s, cutAt) = ReadState(a)
        BY <2>1, <2>5, <2>9 DEF LoadFile
      <4>2. ReadState(a) = [a EXCEPT !.users = users, !.tokens = {0} \cup {users[i].sct : i \in DOMAIN users}]
        BY DEF ReadState
      <4> HIDE DEF users
      <4> QED BY <3>4, <4>1, <4>2
    <3>6. tokens \in SUBSET (0..MaxPairings) /\ \A i \in DOMAIN w : w[i].sct \in tokens
      <4>1. \A i \in DOMAIN w : w[i].sct \in 1..MaxPairings
        BY <3>3, UserAt
      <4> QED BY <4>1, PairingsAssumption
    <3> HIDE DEF tokens
    <3>7. t \in IamState(s.roles, s.policies)
      BY Zenon, <2>5, <3>3, <3>6 DEF IamState
    <3>8. /\ t.roles = s.roles /\ t.policies = s.policies /\ t.users = w /\ t.tokens = tokens
          /\ t.created = a.created /\ t.lost = a.lost /\ t.last = a.last /\ t.run = "off" /\ t.file = a.file
      BY <2>5 DEF IamState
    <3> HIDE DEF t
    <3>9. Base(t)
      BY <1>1, <3>2, <3>3, <3>7, <3>8 DEF Base
    <3>10. Stored(t, t.last)
      BY <2>6, <3>8 DEF IamInv, Stored
    <3>11. IamInv(t)
      BY <3>8, <3>9, <3>10 DEF IamInv
    <3>12. Restored(t)
      BY <2>6, <3>2, <3>6, <3>8 DEF Restored, HasTokens
    <3> QED BY <2>0, <2>5, <3>5, <3>8, <3>11, <3>12 DEF Loads
  <2> QED BY <2>8, <2>9
<1> QED BY <1>2, <1>3

\* What is loaded after the state leaves the users alone.
LEMMA RestoredKeeps ==
    ASSUME NEW s, IamInv(s), s.run = "off" => Restored(s),
           NEW t, t \in IamState(s.roles, s.policies), t.roles = s.roles, t.policies = s.policies,
           t.users = s.users, t.tokens = s.tokens, t.created = s.created, t.file["state"] = s.file["state"],
           t.lost = s.lost, t.last = s.last, t.run = s.run \/ t.run = "failed", s.run # "up"
    PROVE  Loads(s, t) /\ (t.run = "off" => Restored(t))
<1>1. RolesRight(t.roles, t.policies)
  BY DEF IamInv, Base
<1>2. IamInv(t)
  BY <1>1, FrameKeeps
<1> QED BY <1>2 DEF Loads, Restored, HasTokens

\* The services are created or loaded.
LEMMA LoadTcpTunnelServicesKeeps ==
    ASSUME NEW s, IamInv(s), s.run # "up", s.run = "off" => Restored(s), NEW cutAt
    PROVE  LET t == LoadTcpTunnelServices(s, cutAt) IN
           Loads(s, t) /\ (t.run = "off" => Restored(t))
<1>1. s \in IamState(s.roles, s.policies) /\ s.file \in FileMaps
  BY Typed DEF IamInv
<1>2. CASE s.run = "failed"
  <2>1. LoadTcpTunnelServices(s, cutAt) = s
    BY <1>2 DEF LoadTcpTunnelServices, LoadFile
  <2> QED BY <1>2, <2>1 DEF Loads
<1>3. CASE s.run # "failed"
  <2>0. s.run = "off"
    BY <1>1, <1>3 DEF IamState
  <2> DEFINE content == IF "services" = cutAt THEN [is |-> "torn"] ELSE DefaultServices
             g == [s.file EXCEPT !["services"] = content]
             a == IF Exists(s, "services") THEN s ELSE [s EXCEPT !.file = g]
  <2>1. LoadTcpTunnelServices(s, cutAt) = LoadFile(a, "services", ReadServices(a))
    BY <1>3 DEF LoadTcpTunnelServices, SaveFile
  <2>2. content \in ServiceFiles /\ content.is # "none"
    BY DEF ServiceFiles, Unparsed, DefaultServices
  <2> HIDE DEF content
  <2>3. g \in FileMaps /\ g["services"] = content /\ g["state"] = s.file["state"]
    <3>1. "services" \in Files /\ "state" \in Files
      BY DEF Files
    <3> QED BY ONLY <1>1, <2>2, <3>1, FileReplaced DEF g
  <2> HIDE DEF g
  <2>4. /\ a \in IamState(s.roles, s.policies) /\ a.roles = s.roles /\ a.policies = s.policies /\ a.tokens = s.tokens
        /\ a.users = s.users /\ a.created = s.created /\ a.lost = s.lost /\ a.last = s.last /\ a.run = "off"
        /\ a.file = s.file \/ a.file = g
    BY ZenonT(40), <1>1, <2>0, <2>3 DEF IamState
  <2>5. a.file["services"].is # "none" /\ a.file["services"] \in ServiceFiles /\ a.file["state"] = s.file["state"]
    <3>1. CASE Exists(s, "services")
      BY <1>1, <3>1, FileKinds DEF Exists
    <3>2. CASE ~Exists(s, "services")
      <4>1. a.file = g
        BY <1>1, <3>2 DEF IamState
      <4> QED BY <2>2, <2>3, <4>1
    <3> QED BY <3>1, <3>2
  <2> HIDE DEF a
  <2> DEFINE f == [a EXCEPT !.run = "failed"]
  <2>6. /\ f \in IamState(s.roles, s.policies) /\ f.roles = s.roles /\ f.policies = s.policies /\ f.tokens = s.tokens
        /\ f.users = s.users /\ f.created = s.created /\ f.lost = s.lost /\ f.last = s.last /\ f.run = "failed"
        /\ f.file = a.file
    BY <2>4 DEF IamState
  <2> HIDE DEF f
  <2>7. CASE a.file["services"].is = "torn"
    <3>1. LoadTcpTunnelServices(s, cutAt) = f
      BY <2>1, <2>4, <2>7 DEF LoadFile, f
    <3> QED BY <2>0, <2>5, <2>6, <3>1, RestoredKeeps
  <2>8. CASE a.file["services"].is # "torn"
    <3> DEFINE json == a.file["services"].services
               services == [i \in DOMAIN json |-> ServiceFromJson(json[i])]
               t == [a EXCEPT !.services = services]
    <3>1. LoadTcpTunnelServices(s, cutAt) \in {f, t}
      BY <2>1, <2>4, <2>8 DEF LoadFile, ReadServices, f
    <3>2. json = <<ServiceAsJson([id |-> "ssh", port |-> 22])>>
      <4>1. a.file["services"] = DefaultServices
        BY <2>5, <2>8 DEF ServiceFiles, Unparsed
      <4> QED BY <4>1 DEF DefaultServices
    <3> HIDE DEF json
    <3>3. services \in Seq(ServiceSet)
      <4> DEFINE j == ServiceAsJson([id |-> "ssh", port |-> 22])
      <4>1. DOMAIN j = {"Id", "Port"} /\ j.Id = "ssh" /\ j.Port = 22
        BY DEF ServiceAsJson
      <4> HIDE DEF j
      <4>2. PICK port \in Ports : ServiceFromJson(j) = [id |-> "ssh", port |-> port]
        <5>1. 22 % 65536 \in Ports
          BY ONLY DEF Ports
        <5>2. ServiceFromJson(j) = [id |-> "ssh", port |-> 22 % 65536]
          BY ONLY <4>1 DEF ServiceFromJson
        <5> QED BY ONLY <5>1, <5>2
      <4>4. ServiceFromJson(j) \in ServiceSet
        BY ONLY <4>2 DEF ServiceSet
      <4>5. json = <<j>>
        BY <3>2 DEF j
      <4>6. services = <<ServiceFromJson(j)>>
        BY <4>5
      <4> QED BY <4>4, <4>6
    <3> HIDE DEF services
    <3>4. /\ t \in IamState(s.roles, s.policies) /\ t.roles = s.roles /\ t.policies = s.policies /\ t.tokens = s.tokens
          /\ t.users = s.users /\ t.created = s.created /\ t.lost = s.lost /\ t.last = s.last /\ t.run = "off"
          /\ t.file = a.file
      BY ZenonT(40), <2>4, <3>3 DEF IamState
    <3> HIDE DEF t
    <3>5. Loads(s, t) /\ (t.run = "off" => Restored(t))
      BY <2>0, <2>5, <3>4, RestoredKeeps
    <3>6. Loads(s, f) /\ (f.run = "off" => Restored(f))
      BY <2>0, <2>5, <2>6, RestoredKeeps
    <3> QED BY <3>1, <3>5, <3>6
  <2> QED BY <2>7, <2>8
<1> QED BY <1>2, <1>3

\* The private key is created or loaded.
LEMMA LoadOrCreatePrivateKeyKeeps ==
    ASSUME NEW s, IamInv(s), s.run # "up", s.run = "off" => Restored(s), NEW cutAt
    PROVE  LET t == LoadOrCreatePrivateKey(s, cutAt) IN
           Loads(s, t) /\ (t.run = "off" => Restored(t))
<1>1. s \in IamState(s.roles, s.policies) /\ s.file \in FileMaps
  BY Typed DEF IamInv
<1>2. CASE s.run = "failed"
  <2>1. LoadOrCreatePrivateKey(s, cutAt) = s
    BY <1>2 DEF LoadOrCreatePrivateKey, LoadFile
  <2> QED BY <1>2, <2>1 DEF Loads
<1>3. CASE s.run # "failed"
  <2>0. s.run = "off"
    BY <1>1, <1>3 DEF IamState
  <2> DEFINE content == IF "key" = cutAt THEN [is |-> "torn"] ELSE NewPrivateKey
             g == [s.file EXCEPT !["key"] = content]
             a == IF Exists(s, "key") THEN s ELSE [s EXCEPT !.file = g]
             f == [a EXCEPT !.run = "failed"]
  <2>1. content \in KeyFiles
    BY DEF KeyFiles, Unparsed
  <2>2. a.run = "off"
    BY <1>1, <2>0 DEF IamState
  <2>3. LoadOrCreatePrivateKey(s, cutAt) \in {a, f}
    BY <1>3, <2>2 DEF LoadOrCreatePrivateKey, LoadFile, SaveFile
  <2> HIDE DEF content
  <2>4. g \in FileMaps /\ g["state"] = s.file["state"]
    <3>1. "key" \in Files /\ "state" \in Files
      BY DEF Files
    <3> QED BY ONLY <1>1, <2>1, <3>1, FileReplaced DEF g
  <2> HIDE DEF g
  <2>5. /\ a \in IamState(s.roles, s.policies) /\ a.roles = s.roles /\ a.policies = s.policies /\ a.tokens = s.tokens
        /\ a.users = s.users /\ a.created = s.created /\ a.lost = s.lost /\ a.last = s.last
        /\ a.file = s.file \/ a.file = g
    BY Zenon, <1>1, <2>4 DEF IamState
  <2>6. a.file["state"] = s.file["state"]
    BY <2>4, <2>5
  <2> HIDE DEF a
  <2>7. /\ f \in IamState(s.roles, s.policies) /\ f.roles = s.roles /\ f.policies = s.policies /\ f.tokens = s.tokens
        /\ f.users = s.users /\ f.created = s.created /\ f.lost = s.lost /\ f.last = s.last /\ f.run = "failed"
        /\ f.file = a.file
    BY ZenonT(40), <2>5 DEF IamState
  <2> HIDE DEF f
  <2>8. Loads(s, a) /\ (a.run = "off" => Restored(a))
    BY <2>0, <2>2, <2>5, <2>6, RestoredKeeps
  <2>9. Loads(s, f) /\ (f.run = "off" => Restored(f))
    BY <2>0, <2>6, <2>7, RestoredKeeps
  <2> QED BY <2>3, <2>8, <2>9
<1> QED BY <1>2, <1>3

\* A start of the application, after a stop, a kill or a failed start.
LEMMA HandleMainKeeps ==
    ASSUME IamInv(iam), NEW cutAt, HandleMain(cutAt)
    PROVE  IamInv(iam')
<1> DEFINE s == [iam EXCEPT !.run = "off", !.starts = iam.starts + 1, !.notify = FALSE]
           config == LoadIamConfig(s, cutAt)
           state == LoadTcpTunnelState(config, cutAt)
           services == LoadTcpTunnelServices(state, cutAt)
           loaded == LoadOrCreatePrivateKey(services, cutAt)
           up == [loaded EXCEPT !.run = "up", !.notify = TRUE, !.last = IF iam.lost THEN loaded.users ELSE loaded.last]
<1>1. iam.run # "up" /\ iam.starts < MaxStarts /\ iam' = IF loaded.run = "failed" THEN loaded ELSE up
  BY DEF HandleMain
<1>2. iam \in IamState(iam.roles, iam.policies) /\ iam.starts \in 0..MaxStarts
  BY Typed DEF IamInv
<1>3. PICK n \in 0..MaxStarts : n = iam.starts + 1
  BY <1>1, <1>2, PairingsAssumption
<1>4. /\ s \in IamState(s.roles, s.policies) /\ s.roles = iam.roles /\ s.policies = iam.policies /\ s.users = iam.users /\ s.created = iam.created
      /\ s.file = iam.file /\ s.lost = iam.lost /\ s.last = iam.last /\ s.run = "off"
  <2> DEFINE v == [iam EXCEPT !.run = "off", !.starts = n, !.notify = FALSE]
  <2>1. s = v
    BY <1>3
  <2>2. /\ v \in IamState(iam.roles, iam.policies) /\ v.roles = iam.roles /\ v.policies = iam.policies
        /\ v.users = iam.users /\ v.created = iam.created
        /\ v.file = iam.file /\ v.lost = iam.lost /\ v.last = iam.last /\ v.run = "off"
    BY ZenonT(40), <1>2 DEF IamState
  <2> HIDE DEF s, v
  <2> QED BY <2>1, <2>2
<1> HIDE DEF s
<1>5. IamInv(s)
  <2>1. RolesRight(s.roles, s.policies)
    BY <1>4 DEF IamInv, Base
  <2> QED BY <1>4, <2>1, FrameKeeps
<1>6. Loads(s, config)
  BY <1>4, <1>5, LoadIamConfigKeeps
<1> HIDE DEF config
<1>7. Loads(config, state) /\ (state.run = "off" => Restored(state))
  BY <1>6, LoadTcpTunnelStateKeeps DEF Loads
<1> HIDE DEF state
<1>8. Loads(state, services) /\ (services.run = "off" => Restored(services))
  BY <1>7, LoadTcpTunnelServicesKeeps DEF Loads
<1> HIDE DEF services
<1>9. Loads(services, loaded) /\ (loaded.run = "off" => Restored(loaded))
  BY <1>8, LoadOrCreatePrivateKeyKeeps DEF Loads
<1> HIDE DEF loaded
<1>10. IamInv(loaded) /\ loaded.run # "up" /\ loaded.lost = iam.lost
  BY <1>4, <1>6, <1>7, <1>8, <1>9 DEF Loads
<1>11. CASE loaded.run = "failed"
  BY <1>1, <1>10, <1>11
<1>12. CASE loaded.run # "failed"
  <2>1. loaded \in IamState(loaded.roles, loaded.policies) /\ loaded.users \in Seq(Users) /\ loaded.last \in Seq(Users)
    BY <1>10, Typed DEF IamInv
  <2>2. loaded.run = "off" /\ Restored(loaded)
    BY <1>9, <1>10, <1>12, <2>1 DEF IamState
  <2>3. PICK last \in Seq(Users) : last = IF iam.lost THEN loaded.users ELSE loaded.last
    BY <2>1
  <2>4. up = [loaded EXCEPT !.run = "up", !.notify = TRUE, !.last = last]
    BY <2>3
  <2> HIDE DEF up
  <2>5. /\ up \in IamState(loaded.roles, loaded.policies) /\ up.roles = loaded.roles /\ up.policies = loaded.policies
        /\ up.users = loaded.users /\ up.tokens = loaded.tokens /\ up.created = loaded.created /\ up.lost = loaded.lost
        /\ up.file = loaded.file /\ up.last = last /\ up.run = "up" /\ up.notify
    BY Zenon, <2>1, <2>4 DEF IamState
  <2>6. Base(up)
    <3>1. Base(loaded)
      BY Zenon, <1>10 DEF IamInv
    <3>2. up \in IamState(up.roles, up.policies)
      BY ONLY ZenonT(40), <2>5
    <3> QED BY ONLY ZenonT(40), <2>5, <3>1, <3>2 DEF Base
  <2>7. Up(up)
    BY <2>2, <2>5 DEF Up, Restored, HasTokens
  <2>8. ~up.lost => up.last = loaded.last /\ UsersIn(up.users) = UsersIn(up.last)
    BY <1>10, <2>2, <2>3, <2>5 DEF Restored
  <2>9. Stored(up, up.last)
    <3>1. Stored(loaded, loaded.last) /\ up.file["state"].is # "none"
      BY ZenonT(40), <1>10, <2>2, <2>5 DEF IamInv, Restored
    <3>2. ASSUME up.file["state"].is = "json"
          PROVE  \E w \in Good : /\ up.file["state"] = StateJson(w) /\ Len(w) <= up.created
                                 /\ ~up.lost => UsersIn(w) = UsersIn(up.last)
      <4>1. PICK w \in Good : /\ loaded.file["state"] = StateJson(w) /\ Len(w) <= loaded.created
                              /\ ~loaded.lost => UsersIn(w) = UsersIn(loaded.last)
        BY <2>5, <3>1, <3>2 DEF Stored
      <4> QED BY <2>5, <2>8, <4>1
    <3> QED BY <3>1, <3>2 DEF Stored
  <2> QED BY <1>1, <1>12, <2>6, <2>7, <2>8, <2>9 DEF IamInv
<1> QED BY <1>11, <1>12

\* Every step of the application keeps the invariant.
LEMMA IamStep ==
    ASSUME IamInv(iam), [IamNext]_iam
    PROVE  IamInv(iam')
<1>1. iam \in IamState(iam.roles, iam.policies) /\ Base(iam)
  BY DEF IamInv, Base
<1>2. CASE Request
  BY <1>2, RequestKeepsUsers
<1>3. CASE StartListen
  <2>1. PICK zero \in IamCodes : zero = 0
    BY DEF IamCodes
  <2>2. iam' = [iam EXCEPT !.code = zero]
    BY <1>3, <2>1 DEF StartListen
  <2>3. /\ iam' \in IamState(iam.roles, iam.policies) /\ iam'.roles = iam.roles /\ iam'.policies = iam.policies
        /\ iam'.users = iam.users /\ iam'.tokens = iam.tokens /\ iam'.created = iam.created /\ iam'.lost = iam.lost
        /\ iam'.file = iam.file /\ iam'.last = iam.last /\ iam'.run = iam.run /\ iam'.notify = iam.notify
    BY Zenon, <1>1, <2>2 DEF IamState
  <2>4. Base(iam')
    <3>1. iam' \in IamState(iam'.roles, iam'.policies)
      BY ONLY Zenon, <2>3
    <3> QED BY ONLY Zenon, <1>1, <2>3, <3>1 DEF Base
  <2>5. Stored(iam', iam'.last)
    <3>1. Stored(iam, iam.last)
      BY Zenon DEF IamInv
    <3> QED BY ONLY Zenon, <2>3, <3>1 DEF Stored
  <2>6. iam'.run = "up" => Up(iam') /\ (~iam'.lost => UsersIn(iam'.users) = UsersIn(iam'.last))
    <3>1. iam.run = "up" => Up(iam) /\ (~iam.lost => UsersIn(iam.users) = UsersIn(iam.last))
      BY Zenon DEF IamInv
    <3> QED BY ONLY Zenon, <2>3, <3>1 DEF Up, HasTokens
  <2> QED BY Zenon, <2>4, <2>5, <2>6 DEF IamInv
<1>4. ASSUME NEW cutAt, HandleMain(cutAt) PROVE IamInv(iam')
  BY <1>4, HandleMainKeeps
<1>5. CASE Killed
  <2>1. PICK zero \in IamCodes : zero = 0
    BY DEF IamCodes
  <2>2. << >> \in Seq(Users) /\ << >> \in Seq(ServiceSet) /\ {} \in SUBSET (0..MaxPairings)
    OBVIOUS
  <2>3. PICK users \in Seq(Users) : users = << >>
    BY Zenon, <2>2
  <2>4. PICK services \in Seq(ServiceSet) : services = << >>
    BY Zenon, <2>2
  <2>5. PICK tokens \in SUBSET (0..MaxPairings) : tokens = {}
    BY <2>2
  <2>6. iam' = [iam EXCEPT !.run = "off", !.users = users, !.roles = users, !.policies = users,
                           !.services = services, !.tokens = tokens, !.notify = FALSE, !.code = zero]
    BY <1>5, <2>1, <2>3, <2>4, <2>5 DEF Killed
  <2>7. /\ iam' \in IamState(users, users) /\ iam'.roles = users /\ iam'.policies = users /\ iam'.users = users
        /\ iam'.created = iam.created /\ iam'.lost = iam.lost /\ iam'.file = iam.file /\ iam'.last = iam.last
        /\ iam'.run = "off"
    BY ZenonT(40), <1>1, <2>6 DEF IamState
  <2>8. DOMAIN users = {} /\ Len(users) = 0 /\ iam.created \in Nat
    BY <1>1, <2>3, Typed
  <2>9. Base(iam')
    BY <2>7, <2>8 DEF Base, Unique, RolesRight
  <2> QED BY <2>7, <2>9 DEF IamInv, Stored
<1>6. CASE UNCHANGED iam
  BY Zenon, <1>6
<1> QED BY <1>2, <1>3, <1>4, <1>5, <1>6 DEF IamNext

\* The application is set up.
LEMMA IamStarts ==
    ASSUME IamInit
    PROVE  IamInv(iam)
<1>1. PICK config \in {[is |-> "none"], ManagedIamConfig} :
        iam = [run |-> "off", starts |-> 0, users |-> << >>, roles |-> << >>, policies |-> << >>,
               services |-> << >>, tokens |-> {}, notify |-> FALSE, code |-> 0, created |-> 0,
               file |-> [f \in Files |-> IF f = "iam" THEN config ELSE [is |-> "none"]],
               last |-> << >>, lost |-> FALSE]
  BY Zenon DEF IamInit
<1> DEFINE g == [f \in Files |-> IF f = "iam" THEN config ELSE [is |-> "none"]]
<1>2. g \in FileMaps /\ g["state"] = [is |-> "none"]
  <2>1. [is |-> "none"] \in Unparsed
    BY DEF Unparsed
  <2>2. config \in ConfigFiles
    BY <1>1, <2>1 DEF ConfigFiles
  <2>3. "state" \in Files /\ "iam" \in Files /\ "services" \in Files /\ "key" \in Files
    BY DEF Files
  <2>4. /\ g["state"] = [is |-> "none"] /\ g["services"] = [is |-> "none"] /\ g["key"] = [is |-> "none"]
        /\ g["iam"] = config
    BY <2>3
  <2>5. [is |-> "none"] \in StateFiles /\ [is |-> "none"] \in ServiceFiles /\ [is |-> "none"] \in KeyFiles
    BY <2>1 DEF StateFiles, ServiceFiles, KeyFiles
  <2>6. g \in [Files -> StateFiles \cup ConfigFiles \cup ServiceFiles \cup KeyFiles]
    BY <2>2, <2>5
  <2> HIDE DEF g
  <2> QED BY <2>2, <2>4, <2>5, <2>6 DEF FileMaps
<1> HIDE DEF g
<1>3. << >> \in Seq(Users) /\ << >> \in Seq(ServiceSet) /\ {} \in SUBSET (0..MaxPairings)
  OBVIOUS
<1>4. 0 \in 0..MaxStarts /\ 0 \in 0..MaxPairings /\ 0 \in IamCodes
  BY PairingsAssumption DEF IamCodes
<1>5. /\ iam \in IamState(<< >>, << >>) /\ iam.roles = << >> /\ iam.policies = << >> /\ iam.users = << >> /\ iam.last = << >>
      /\ iam.created = 0 /\ iam.file = g /\ iam.run = "off"
  <2>1. PICK users \in Seq(Users) : users = << >>
    BY Zenon, <1>3
  <2>2. PICK services \in Seq(ServiceSet) : services = << >>
    BY Zenon, <1>3
  <2>3. PICK tokens \in SUBSET (0..MaxPairings) : tokens = {}
    BY <1>3
  <2>4. PICK zero \in 0..MaxStarts : zero = 0
    BY <1>4
  <2>5. zero \in 0..MaxPairings /\ zero \in IamCodes
    BY <1>4, <2>4
  <2>6. iam = [run |-> "off", starts |-> zero, users |-> users, roles |-> users, policies |-> users,
               services |-> services, tokens |-> tokens, notify |-> FALSE, code |-> zero, created |-> zero,
               file |-> g, last |-> users, lost |-> FALSE]
    BY <1>1, <2>1, <2>2, <2>3, <2>4 DEF g
  <2>7. /\ iam \in IamState(users, users) /\ iam.roles = users /\ iam.policies = users /\ iam.users = users /\ iam.last = users
        /\ iam.created = zero /\ iam.file = g /\ iam.run = "off"
    BY <1>2, <2>5, <2>6 DEF IamState
  <2> QED BY <2>1, <2>4, <2>7
<1>6. DOMAIN << >> = {} /\ Len(<< >>) = 0
  OBVIOUS
<1>7. Base(iam)
  BY <1>5, <1>6 DEF Base, Unique, RolesRight
<1>8. iam.file["state"].is = "none"
  BY <1>2, <1>5
<1>9. Stored(iam, iam.last)
  <2>1. iam.file["state"].is # "json" /\ iam.last = << >>
    BY <1>5, <1>8
  <2> QED BY Zenon, <2>1 DEF Stored
<1>10. iam.run # "up"
  BY <1>5
<1> QED BY ZenonT(40), <1>7, <1>9, <1>10 DEF IamInv

\* Every request that a client can make is decided as MayDo says.
RequestsDecided ==
    \A fp \in Clients \cup {"gone"}, action \in Asked : \A attributes \in AttributesOf(action) :
        CheckAccess(iam, fp, action, attributes) <=> MayDo(iam, fp, action, attributes)

LEMMA RequestsAreDecided ==
    ASSUME IamInv(iam)
    PROVE  RequestsDecided
<1>1. \A i \in DOMAIN iam.roles : Configured(iam, IamNames, iam.roles[i])
  BY Zenon DEF IamInv, Base, RolesRight, Configured
<1> QED BY Zenon, <1>1, AccessDecided DEF RequestsDecided

\* The invariant is stronger than the property.
LEMMA IamImplies ==
    ASSUME IamInv(iam)
    PROVE  UsersSurvive
<1>1. iam \in IamState(iam.roles, iam.policies) /\ Base(iam)
  BY DEF IamInv, Base
<1>2. DOMAIN iam.file = Files
  BY <1>1, Typed DEF FileMaps
<1>3. IamTypeOK
  BY <1>1, <1>2 DEF IamTypeOK, IamState, IamCodes, ServiceSet
<1>4. OneUserPerClient
  BY <1>1 DEF OneUserPerClient, Base, Unique
<1>5. iam.run = "up" /\ ~iam.lost =>
         /\ {iam.users[i] : i \in DOMAIN iam.users} = {iam.last[i] : i \in DOMAIN iam.last}
         /\ \A i \in DOMAIN iam.users : iam.users[i].sct \in iam.tokens
  BY DEF IamInv, Up, HasTokens, UsersIn
<1> QED BY <1>3, <1>4, <1>5 DEF UsersSurvive

IamHolds == IamInv(iam)

\* A restart brings back every user as it was, with its roles and its token, and a client
\* is a single user: for any clients, pairings and starts.
THEOREM UsersAlwaysSurvive == IamInit /\ [][IamNext]_iam => []UsersSurvive
<1>1. IamInit => IamHolds
  BY IamStarts DEF IamHolds
<1>2. IamHolds /\ [IamNext]_iam => IamHolds'
  BY IamStep DEF IamHolds
<1>3. IamHolds => UsersSurvive
  BY IamImplies DEF IamHolds
<1> QED BY <1>1, <1>2, <1>3, PTL

\* In every state that the application reaches, after any pairings, changes, kills and
\* restarts, the policies that its roles name are there, and a request is granted exactly
\* when the statements of its client's roles say so (load_iam_config, nm_iam_check_access).
THEOREM RequestsAlwaysDecided == IamInit /\ [][IamNext]_iam => []RequestsDecided
<1>1. IamInit => IamHolds
  BY IamStarts DEF IamHolds
<1>2. IamHolds /\ [IamNext]_iam => IamHolds'
  BY IamStep DEF IamHolds
<1>3. IamHolds => RequestsDecided
  BY RequestsAreDecided DEF IamHolds
<1> QED BY <1>1, <1>2, <1>3, PTL
=============================================================================
