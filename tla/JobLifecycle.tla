------------------------------ MODULE JobLifecycle ------------------------------
(***************************************************************************)
(* What the repository promises about one job: it is discovered NEW,       *)
(* scored and decided about once, MATCHED or REVIEW by its score or        *)
(* SKIPPED by a rule, and after that only the user moves it, and only a    *)
(* job that was put up for review.  There are no runs, crashes or          *)
(* callbacks here: Scoring.tla has those, and is compared with this module. *)
(***************************************************************************)
EXTENDS Naturals

CONSTANTS Postings, Scores, NoScore, Threshold

VARIABLES
  row,    \* row[p]: the status of the job, or "absent"
  score,  \* score[p]: ai_score
  shown   \* the jobs the user was asked about

vars == <<row, score, shown>>

Init ==
  /\ row = [p \in Postings |-> "absent"]
  /\ score = [p \in Postings |-> NoScore]
  /\ shown = {}

Discover(p) ==
  /\ row[p] = "absent"
  /\ row' = [row EXCEPT ![p] = "NEW"]
  /\ UNCHANGED <<score, shown>>

\* A score may be on record before the decision is.
Rate(p, v) ==
  /\ row[p] = "NEW"
  /\ score' = [score EXCEPT ![p] = v]
  /\ UNCHANGED <<row, shown>>

Accept(p, v) ==
  /\ row[p] = "NEW"
  /\ score' = [score EXCEPT ![p] = v]
  /\ row' = [row EXCEPT ![p] = IF v >= Threshold THEN "MATCHED" ELSE "REVIEW"]
  /\ UNCHANGED shown

Reject(p) ==
  /\ row[p] = "NEW" /\ score[p] # NoScore
  /\ row' = [row EXCEPT ![p] = "SKIPPED"]
  /\ UNCHANGED <<score, shown>>

PutUp(p) ==
  /\ row[p] = "REVIEW"
  /\ shown' = shown \cup {p}
  /\ UNCHANGED <<row, score>>

UserDecides(p, choice) ==
  /\ p \in shown
  /\ row' = [row EXCEPT ![p] = choice]
  /\ UNCHANGED <<score, shown>>

Next ==
  \E p \in Postings :
    \/ Discover(p) \/ Reject(p) \/ PutUp(p)
    \/ \E v \in Scores : Rate(p, v) \/ Accept(p, v)
    \/ \E choice \in {"SKIPPED", "APPLIED"} : UserDecides(p, choice)

Safe == Init /\ [][Next]_vars
=============================================================================
