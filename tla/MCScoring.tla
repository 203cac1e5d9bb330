-------------------------------- MODULE MCScoring --------------------------------
(* Small instances of Scoring for TLC. *)
EXTENDS Scoring, TLC

CONSTANTS p1, p2

\* The country of p2 is unknown.
MCFields == (p1 :> [remote |-> Engine!Num(1), country |-> Engine!Str(2)])
              @@ (p2 :> [remote |-> Engine!Num(0), country |-> Engine!None])

Rule(tier, field, op, expected) ==
  [tier |-> tier, field |-> field, op |-> op, expected |-> expected, enabled |-> TRUE]

\* The two seeded rules and two of the user's: a country to avoid, and a taste for
\* remote work.
MCRules == Engine!Seeded({}) \cup {
  Rule("required", "country", "not_in", Engine!List({Engine!Str(1)})),
  Rule("preference", "remote", "==", Engine!Num(1))}

\* The user may raise the bar, switch the daily cap off, and try a field that is
\* not on the allowlist.
MCRuleForms == {
  Rule("required", "ai_score", ">", Engine!Num(75)),
  [Rule("critical", "applications_today", "<=", Engine!Num(50)) EXCEPT !.enabled = FALSE],
  Rule("critical", "title", "contains", Engine!Str(1))}

MCSubstring(m, n) == m = n

Symmetry == Permutations(Scorers)
=============================================================================
