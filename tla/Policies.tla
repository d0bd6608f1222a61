------------------------------- MODULE Policies -------------------------------
(********************************************************************************)
(* modules/policies: conditions, statements and policies, how they are          *)
(* evaluated, and how they are written to and read from JSON. All of it is a    *)
(* pure computation; it is checked against what a condition and a policy        *)
(* mean, on every input of a small universe.                                    *)
(*                                                                              *)
(* A value of a condition is a literal string or a variable ${key}; strings     *)
(* stand for themselves and NumericOf says which of them strtod takes whole.    *)
(* A string set is the sequence its iteration visits. A JSON object is a record *)
(* that lacks the fields the object lacks.                                      *)
(********************************************************************************)
EXTENDS Integers, Sequences, FiniteSets

CONSTANTS
    Literals,               \* strings that occur as values
    NumericOf               \* the number of those that are one

VARIABLE pol                \* the last evaluation

ASSUME LiteralsAssumption ==
    Literals \subseteq STRING /\ DOMAIN NumericOf \subseteq Literals

\* enum nm_condition_operator.
OperatorNames == <<"StringEquals", "StringNotEquals", "NumericEquals", "NumericNotEquals",
                   "NumericLessThan", "NumericLessThanEquals", "NumericGreaterThan",
                   "NumericGreaterThanEquals", "Bool">>

Operators == DOMAIN OperatorNames

\* nm_condition_parse_bool and nm_condition_parse_numeric: does the string parse?
ParseBool(v) == v \in {"true", "false"}

ParseNumeric(v) == v \in DOMAIN NumericOf

\* status.
Status(s) == IF s THEN "MATCH" ELSE "NO_MATCH"

\* nm_condition_numeric_operator.
NumericOperator(op, lhs, rhs) ==
    IF ~ParseNumeric(lhs) \/ ~ParseNumeric(rhs) THEN "ERROR"
    ELSE LET l == NumericOf[lhs]
             r == NumericOf[rhs]
         IN  CASE OperatorNames[op] = "NumericEquals" -> Status(l = r)
               [] OperatorNames[op] = "NumericNotEquals" -> Status(l # r)
               [] OperatorNames[op] = "NumericLessThan" -> Status(l < r)
               [] OperatorNames[op] = "NumericLessThanEquals" -> Status(l <= r)
               [] OperatorNames[op] = "NumericGreaterThan" -> Status(l > r)
               [] OperatorNames[op] = "NumericGreaterThanEquals" -> Status(l >= r)

\* bool_equals, string_equals and string_not_equals.
BoolEquals(lhs, rhs) ==
    IF ParseBool(lhs) /\ ParseBool(rhs) THEN Status(lhs = rhs) ELSE "ERROR"

StringEquals(lhs, rhs) == Status(lhs = rhs)

StringNotEquals(lhs, rhs) == Status(lhs # rhs)

\* match.
Match(op, lhs, rhs) ==
    CASE OperatorNames[op] = "StringEquals" -> StringEquals(lhs, rhs)
      [] OperatorNames[op] = "StringNotEquals" -> StringNotEquals(lhs, rhs)
      [] OperatorNames[op] = "Bool" -> BoolEquals(lhs, rhs)
      [] OTHER -> NumericOperator(op, lhs, rhs)

\* resolve_value: the strings a value resolves to, none when it is a variable that
\* is not an attribute.
ResolveValue(attributes, v) ==
    IF ~v.variable THEN {v.text}
    ELSE {attributes[k] : k \in DOMAIN attributes \cap {v.text}}

\* nm_condition_matches: the first value that matches or cannot be compared decides.
ConditionMatches(c, attributes) ==
    IF c.key \notin DOMAIN attributes THEN "NO_MATCH"
    ELSE LET result(v) == {Match(c.op, attributes[c.key], r) : r \in ResolveValue(attributes, v)}
             decides == {i \in DOMAIN c.values : result(c.values[i]) \cap {"MATCH", "ERROR"} # {}}
         IN  IF decides = {} THEN "NO_MATCH"
             ELSE CHOOSE r \in result(c.values[CHOOSE i \in decides : \A j \in decides : i <= j]) : TRUE

\* match_conditions: the first condition that does not match decides.
MatchConditions(s, attributes) ==
    LET result(i) == ConditionMatches(s.conditions[i], attributes)
        fails == {i \in DOMAIN s.conditions : result(i) # "MATCH"}
    IN  IF fails = {} THEN "MATCH" ELSE result(CHOOSE i \in fails : \A j \in fails : i <= j)

\* nm_statement_eval.
StatementEval(s, action, attributes) ==
    IF ~\E i \in DOMAIN s.actions : s.actions[i] = action THEN "NO_MATCH"
    ELSE LET r == MatchConditions(s, attributes) IN
         IF r = "MATCH" THEN s.effect ELSE r

\* nm_policy_eval_init.
PolicyEvalInit == "NO_MATCH"

\* Mutant of PolicyStatementEval: an allow is final too.
PolicyStatementEvalFirst(state, s, action, attributes) ==
    IF state # "NO_MATCH" THEN state ELSE StatementEval(s, action, attributes)

\* nm_policy_statement_eval: deny and error are final.
PolicyStatementEval(state, s, action, attributes) ==
    IF state \in {"DENY", "ERROR"} THEN state
    ELSE LET e == StatementEval(s, action, attributes) IN
         IF e = "NO_MATCH" THEN state ELSE e

\* nm_policy_eval.
PolicyEval(state, policy, action, attributes) ==
    LET after[i \in 0..Len(policy.statements)] ==
            IF i = 0 THEN state
            ELSE PolicyStatementEval(after[i - 1], policy.statements[i], action, attributes)
    IN  after[Len(policy.statements)]

(***************************************************************************)
(* JSON.                                                                   *)
(***************************************************************************)
Null == [null |-> TRUE]

\* nm_condition_operator_to_string, nm_condition_parse_operator.
OperatorToString(op) == OperatorNames[op]

ParseOperator(name) == {op \in Operators : OperatorNames[op] = name}

\* nn_string_set_insert keeps one of equal strings.
Insert(set, string) == IF \E i \in DOMAIN set : set[i] = string THEN set ELSE Append(set, string)

\* nm_string_set_to_json, and reading an array into a string set.
StringSetToJson(set) == [array |-> set]

InsertAll(json) ==
    LET kept[i \in 0..Len(json.array)] ==
            IF i = 0 THEN << >> ELSE Insert(kept[i - 1], json.array[i])
    IN  kept[Len(json.array)]

\* nm_condition_to_json and nm_conditions_to_json.
ConditionToJson(c) == [operation |-> OperatorToString(c.op), key |-> c.key, values |-> StringSetToJson(c.values)]

ConditionsToJson(conditions) == [i \in DOMAIN conditions |-> ConditionToJson(conditions[i])]

\* nm_statement_to_json: no field for no conditions.
StatementToJson(s) ==
    LET bare == [Effect |-> IF s.effect = "ALLOW" THEN "Allow" ELSE "Deny",
                 Actions |-> StringSetToJson(s.actions)] IN
    IF s.conditions = << >> THEN bare
    ELSE [Effect |-> bare.Effect, Actions |-> bare.Actions, Conditions |-> ConditionsToJson(s.conditions)]

\* nm_statements_to_json, nm_policy_to_json.
StatementsToJson(statements) == [i \in DOMAIN statements |-> StatementToJson(statements[i])]

PolicyToJson(p) == [Id |-> p.id, Statements |-> StatementsToJson(p.statements)]

\* nm_condition_from_json_parse, nm_condition_from_json.
ConditionFromJsonParse(op, json) ==
    IF "values" \notin DOMAIN json THEN Null
    ELSE [op |-> op, key |-> json.key, values |-> InsertAll(json.values)]

ConditionFromJson(json) ==
    LET ops == ParseOperator(json.operation) IN
    IF ops = {} THEN Null ELSE ConditionFromJsonParse(CHOOSE op \in ops : TRUE, json)

\* nm_statement_from_json_parse, nm_statement_from_json: a condition that is not one
\* refuses the statement.
StatementFromJsonParse(effect, json) ==
    LET conditions == IF "Conditions" \notin DOMAIN json THEN << >>
                      ELSE [i \in DOMAIN json.Conditions |-> ConditionFromJson(json.Conditions[i])]
    IN  IF \E i \in DOMAIN conditions : conditions[i] = Null THEN Null
        ELSE [effect |-> effect, actions |-> InsertAll(json.Actions), conditions |-> conditions]

StatementFromJson(json) ==
    IF ~{"Effect", "Actions"} \subseteq DOMAIN json THEN Null
    ELSE IF json.Effect = "Allow" THEN StatementFromJsonParse("ALLOW", json)
    ELSE IF json.Effect = "Deny" THEN StatementFromJsonParse("DENY", json) ELSE Null

\* nm_policy_from_json_parse, nm_policy_from_json.
PolicyFromJsonParse(id, array) ==
    LET statements == [i \in DOMAIN array |-> StatementFromJson(array[i])] IN
    IF \E i \in DOMAIN array : statements[i] = Null THEN Null
    ELSE [id |-> id, statements |-> statements]

PolicyFromJson(json) ==
    IF ~{"Id", "Statements"} \subseteq DOMAIN json THEN Null
    ELSE PolicyFromJsonParse(json.Id, json.Statements)

(***************************************************************************)
(* The inputs that are tried.                                              *)
(***************************************************************************)
Keys == {"a", "b"}

AttributeMaps == UNION {[ks -> Literals] : ks \in SUBSET Keys}

ConditionValues ==
    {[variable |-> FALSE, text |-> l] : l \in Literals} \cup {[variable |-> TRUE, text |-> k] : k \in Keys}

Conditions ==
    {[op |-> op, key |-> "a", values |-> vs] :
        op \in Operators,
        vs \in {<< >>} \cup {<<v>> : v \in ConditionValues}
               \cup {<<p[1], p[2]>> : p \in {q \in ConditionValues \X ConditionValues : q[1] # q[2]}}}

Literal(l) == [variable |-> FALSE, text |-> l]

\* Conditions that match, do not match and fail on the attribute a = "1".
SampleConditions ==
    {<< >>} \cup {<<[op |-> op, key |-> "a", values |-> <<Literal(l)>>]>> : op \in {1, 2, 3}, l \in {"1", "x"}}

SampleStatements ==
    {[effect |-> e, actions |-> <<act>>, conditions |-> cs] :
        e \in {"ALLOW", "DENY"}, act \in {"Get", "Set"}, cs \in SampleConditions}

SamplePolicies ==
    {[id |-> "p", statements |-> <<s>>] : s \in SampleStatements}
    \cup {[id |-> "p", statements |-> <<p[1], p[2]>>] : p \in SampleStatements \X SampleStatements}

PoliciesInit == pol = [kind |-> "none"]

EvalCondition ==
    /\ pol.kind = "none"
    /\ \E c \in Conditions, attributes \in AttributeMaps :
         pol' = [kind |-> "condition", c |-> c, attributes |-> attributes,
                 result |-> ConditionMatches(c, attributes)]

\* nm_policy_eval_simple.
EvalPolicy ==
    /\ pol.kind = "none"
    /\ \E p \in SamplePolicies :
         pol' = [kind |-> "policy", p |-> p,
                 result |-> PolicyEval(PolicyEvalInit, p, "Get", [k \in {"a"} |-> "1"]),
                 loaded |-> PolicyFromJson(PolicyToJson(p))]

PoliciesNext == EvalCondition \/ EvalPolicy

\* The strings that the values of a condition resolve to and that compare with this outcome.
ComparedAs(c, attributes, outcome) ==
    {r \in UNION {ResolveValue(attributes, c.values[i]) : i \in DOMAIN c.values} :
        c.key \in DOMAIN attributes /\ Match(c.op, attributes[c.key], r) = outcome}

\* A condition matches only when one of its values, resolved with the attributes,
\* stands in the relation of its operator to the attribute, and fails to match only
\* when none does; a value that cannot be compared never hides behind NO_MATCH
\* (nm_condition_matches, match, resolve_value).
ConditionMeans(c, attributes, result) ==
    /\ result = "MATCH" => ComparedAs(c, attributes, "MATCH") # {}
    /\ result = "NO_MATCH" <=> ComparedAs(c, attributes, "MATCH") \cup ComparedAs(c, attributes, "ERROR") = {}

\* A policy allows an action if and only if one of its statements allows it and none
\* denies it or cannot be evaluated, whatever the order of the statements
\* (nm_policy_eval, nm_policy_statement_eval).
PolicyMeans(p, action, attributes, result) ==
    LET effects == {StatementEval(p.statements[i], action, attributes) : i \in DOMAIN p.statements} IN
    result = "ALLOW" <=> "ALLOW" \in effects /\ effects \cap {"DENY", "ERROR"} = {}

\* A condition and a policy give what ConditionMeans and PolicyMeans say; and a policy
\* written to JSON is the same policy when it is read again (nm_policies_to_json,
\* nm_policies_from_json).
PolicyMeaning ==
    /\ pol.kind = "condition" => ConditionMeans(pol.c, pol.attributes, pol.result)
    /\ pol.kind = "policy" => /\ PolicyMeans(pol.p, "Get", [k \in {"a"} |-> "1"], pol.result)
                              /\ pol.loaded = pol.p
=============================================================================
