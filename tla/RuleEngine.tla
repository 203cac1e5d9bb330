------------------------------- MODULE RuleEngine -------------------------------
(***************************************************************************)
(* The Rule Engine's decision about a job: rules/evaluator.py matches one  *)
(* condition against the job's context, RuleEngineService.evaluate goes    *)
(* through the user's enabled rules tier by tier.  The user edits the      *)
(* rules one at a time; a condition is checked when it is written, never   *)
(* when it is evaluated.                                                   *)
(*                                                                         *)
(* A JSON value is a record with its Python type: a number (booleans are   *)
(* 0 and 1, as in Python), a string given by its rank in the alphabet, a   *)
(* list given by its elements, or None.  Comparing types that Python will  *)
(* not compare raises TypeError there, and matches turns that into False.  *)
(***************************************************************************)
EXTENDS Naturals, FiniteSets

CONSTANT Substring(_, _)   \* Substring(m, n): string m occurs in string n

None     == [type |-> "none"]
Num(n)   == [type |-> "num", value |-> n]
Str(n)   == [type |-> "str", value |-> n]
List(es) == [type |-> "list", elements |-> es]

Tiers == {"critical", "required", "preference"}

Operators == {"==", "!=", ">=", "<=", ">", "<", "in", "not_in", "contains"}

AllowedFields ==
  {"ai_score", "remote", "country", "city", "salary_min", "salary_max",
   "employment_type", "experience_level", "provider", "applications_today", "skills",
   "client_total_spend", "client_rating", "client_payment_verified"}

(***************************************************************************)
(* Writing rules.                                                          *)
(***************************************************************************)

\* RuleCondition: any value will do, whatever field it is compared with.
Valid(rule) == rule.field \in AllowedFields /\ rule.op \in Operators

\* What is left of the rules a user may write once each was validated.
Validated(forms) == {r \in forms : Valid(r)}

\* The rule sets that one request makes of a rule set.  An update may change any
\* part of a rule, the tier and the switch included.
Created(rules, forms) == {rules \cup {r} : r \in Validated(forms)}
Updated(rules, forms) == {(rules \ {r}) \cup {q} : r \in rules, q \in Validated(forms)}
Deleted(rules)        == {rules \ {r} : r \in rules}

Edited(rules, forms) ==
  Created(rules, forms) \cup Updated(rules, forms) \cup Deleted(rules)

\* What the seed script gives a user who has no rules.  It runs whenever the web
\* container starts, so the starter rules come back after the last rule is deleted.
StarterRules ==
  {[tier |-> "critical", field |-> "applications_today", op |-> "<=",
    expected |-> Num(50), enabled |-> TRUE],
   [tier |-> "required", field |-> "ai_score", op |-> ">=",
    expected |-> Num(70), enabled |-> TRUE]}

Seeded(rules) == IF rules = {} THEN StarterRules ELSE rules

(***************************************************************************)
(* Evaluating them.                                                        *)
(***************************************************************************)

\* "a < b" and its like are defined.
Ordered(a, b) == a.type = b.type /\ a.type \in {"num", "str"}

\* "a in b" is defined, and true.
Searchable(a, b) == b.type = "list" \/ (b.type = "str" /\ a.type = "str")
Within(a, b) ==
  IF b.type = "list" THEN a \in b.elements ELSE Substring(a.value, b.value)

\* matches: the comparison of one field with the condition's value.
Compare(op, actual, expected) ==
  CASE op = "=="       -> actual = expected
    [] op = "!="       -> actual # expected
    [] op = ">="       -> Ordered(actual, expected) /\ actual.value >= expected.value
    [] op = "<="       -> Ordered(actual, expected) /\ actual.value <= expected.value
    [] op = ">"        -> Ordered(actual, expected) /\ actual.value > expected.value
    [] op = "<"        -> Ordered(actual, expected) /\ actual.value < expected.value
    [] op = "in"       -> Searchable(actual, expected) /\ Within(actual, expected)
    [] op = "not_in"   -> Searchable(actual, expected) /\ ~Within(actual, expected)
    [] op = "contains" -> Searchable(expected, actual) /\ Within(expected, actual)

\* context.get(field): a field the context lacks is None.
Get(context, field) == IF field \in DOMAIN context THEN context[field] ELSE None

Matches(rule, context) ==
  Compare(rule.op, Get(context, rule.field), rule.expected)

Active(rules) == {r \in rules : r.enabled}

InTier(rules, tier) == {r \in rules : r.tier = tier}

\* The enabled rules of a tier that the context does not match.
Failing(rules, context, tier) ==
  {r \in InTier(Active(rules), tier) : ~Matches(r, context)}

\* The rules that may be the one that blocks: evaluate returns at the first one
\* it finds, in the order the database lists them, critical before required.
Blocking(rules, context) ==
  IF Failing(rules, context, "critical") # {}
  THEN Failing(rules, context, "critical")
  ELSE Failing(rules, context, "required")

\* How many preference rules an approved job matches.
PreferenceScore(rules, context) ==
  Cardinality({r \in InTier(Active(rules), "preference") : Matches(r, context)})
=============================================================================
