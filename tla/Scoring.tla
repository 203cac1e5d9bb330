--------------------------------- MODULE Scoring ---------------------------------
(***************************************************************************)
(* Scoring: the scoring task asks the AI provider for a score and the Rule *)
(* Engine for a decision about every NEW job, and Telegram's review        *)
(* buttons let the user decide.                                            *)
(*                                                                         *)
(* No lock keeps two scoring runs apart: the morning chain, POST           *)
(* /jobs/search-sync and the Telegram /search command start them, and      *)
(* Telegram sends a /search that takes minutes again.  A run loads its     *)
(* rows once and writes them one by one, minutes later.  Every action is   *)
(* one transaction, or the part of one that other transactions can see.    *)
(***************************************************************************)
EXTENDS Naturals, FiniteSets

CONSTANTS
  Postings,     \* job postings
  NoPosting,    \* the empty local variable
  Fields,       \* Fields[p]: the part of the rule context the posting carries
  Scorers,      \* concurrent runs of the scoring task
  Scores,       \* the scores the AI may give
  NoScore,      \* ai_score of a job not scored yet
  Threshold,    \* job_match_threshold
  BatchLimit,   \* jobs per run
  Rules,        \* the rules the user has, to begin with
  RuleForms,    \* the rules the user may write
  DayCounts,    \* the numbers of applications a day may have seen
  MaxCrashes,   \* bound: runs that die
  Substring(_, _)

ASSUME NamesAssumption == NoPosting \notin Postings /\ NoScore \notin Scores
ASSUME NumbersAssumption ==
  /\ Scores \subseteq Nat /\ DayCounts \subseteq Nat
  /\ Threshold \in Nat
  /\ BatchLimit \in Nat \ {0}
  /\ MaxCrashes \in Nat
ASSUME PostingsAssumption == IsFiniteSet(Postings)

Engine == INSTANCE RuleEngine

ASSUME RulesAssumption == \A r \in Rules : Engine!Valid(r)

\* The user edits the rules whenever they like and takes the edit back, without a
\* lock, and a restart seeds rules where there are none: an evaluation may see any
\* of these rule sets, one edit apart (a bound).
RuleSets ==
  LET edited == {Rules} \cup Engine!Edited(Rules, RuleForms)
  IN  edited \cup {Engine!Seeded(rules) : rules \in edited}

VARIABLES
  row,      \* row[p]: status of the jobs row, "absent" before the insert
  score,    \* score[p]: ai_score
  audit,    \* postings with a rule_blocked entry
  applied,  \* postings with an application
  shown,    \* postings whose review buttons are in the chat
  run,      \* run[s]: where scoring run s is
  press,    \* the review callback being handled
  crashes,  \* history: runs that died
  settled   \* history: the status a decision left, no run holding the job

jobVars  == <<row, score, audit>>
userVars == <<applied, shown, press, settled>>
vars     == <<row, score, audit, applied, shown, run, press, crashes, settled>>

JobStatus == {"NEW", "MATCHED", "REVIEW", "SKIPPED", "APPLIED"}

\* A run's batch, the scores it loaded with it, and the job it is at with its score.
Run == [pc : {"idle", "next", "decide", "skip"}, batch : SUBSET Postings,
        loaded : UNION {[b -> Scores \cup {NoScore}] : b \in SUBSET Postings},
        at : Postings \cup {NoPosting}, score : Scores \cup {NoScore}]

IdleRun == [pc |-> "idle", batch |-> {}, loaded |-> [p \in {} |-> NoScore],
            at |-> NoPosting, score |-> NoScore]
Holding(batch, loaded) == [pc |-> "next", batch |-> batch, loaded |-> loaded,
                           at |-> NoPosting, score |-> NoScore]
NoPress == [job |-> NoPosting, choice |-> "none", loaded |-> "absent"]

Stored     == {p \in Postings : row[p] # "absent"}
Pending    == {p \in Postings : row[p] = "NEW"}
Holders(p) == {s \in Scorers : p \in run[s].batch}

Init ==
  /\ row = [p \in Postings |-> "absent"]
  /\ score = [p \in Postings |-> NoScore]
  /\ audit = {}
  /\ applied = {}
  /\ shown = {}
  /\ run = [s \in Scorers |-> IdleRun]
  /\ press = NoPress
  /\ crashes = 0
  /\ settled = [p \in Postings |-> "none"]

\* An ingester stores a posting (see Ingestion).
Arrive(p) ==
  /\ row[p] = "absent"
  /\ row' = [row EXCEPT ![p] = "NEW"]
  /\ UNCHANGED <<score, audit, userVars, run, crashes>>

(***************************************************************************)
(* The scoring task: _score_pending_jobs.                                  *)
(***************************************************************************)

Scoring(s, state) ==
  /\ run' = [run EXCEPT ![s] = state]
  /\ UNCHANGED <<userVars, crashes>>

LoadBatchOf(s, jobs) ==
  /\ run[s].pc = "idle"
  /\ \E batch \in (SUBSET jobs) \ {{}} :
       /\ Cardinality(batch) = BatchLimit \/ (batch = jobs /\ Cardinality(jobs) < BatchLimit)
       /\ Scoring(s, Holding(batch, [p \in batch |-> score[p]]))
  /\ UNCHANGED jobVars

\* Variant: the query has no status filter.
LoadAnyBatch(s) == LoadBatchOf(s, Stored)

\* The rows are loaded once, for the whole run.
LoadBatch(s) == LoadBatchOf(s, Pending)

\* Run s is through with posting p.
Drop(s, p) ==
  LET rest == run[s].batch \ {p}
  IN IF rest = {} THEN IdleRun
     ELSE Holding(rest, [r \in rest |-> run[s].loaded[r]])

\* AIService.score_match answers; its usage log is committed either way.
ScoreMatch(s, p) ==
  /\ run[s].pc = "next" /\ p \in run[s].batch
  /\ \E v \in Scores :
       Scoring(s, [run[s] EXCEPT !.pc = "decide", !.at = p, !.score = v])
  /\ UNCHANGED jobVars

\* Or it raises, and the job is left as it is.
ScoreFails(s, p) ==
  /\ run[s].pc = "next" /\ p \in run[s].batch
  /\ Scoring(s, Drop(s, p))
  /\ UNCHANGED jobVars

\* The rule context of posting p, scored v, on a day that has seen n applications.
Context(p, v, n) ==
  [f \in DOMAIN Fields[p] \cup {"ai_score", "applications_today"} |->
     CASE f = "ai_score" -> Engine!Num(v)
       [] f = "applications_today" -> Engine!Num(n)
       [] OTHER -> Fields[p][f]]

\* What evaluate may answer about posting p, scored v: approved or not.
Answers ==
  [p \in Postings, v \in Scores |->
     {Engine!Blocking(rules, Context(p, v, n)) = {} : rules \in RuleSets, n \in DayCounts}]

Approves(s) == TRUE \in Answers[run[s].at, run[s].score]
Blocks(s)   == FALSE \in Answers[run[s].at, run[s].score]

\* SQLAlchemy writes ai_score only if it differs from the value loaded.
WriteScore(s) ==
  LET p == run[s].at
  IN score' = IF run[s].score = run[s].loaded[p] THEN score
              ELSE [score EXCEPT ![p] = run[s].score]

Verdict(v) == IF v >= Threshold THEN "MATCHED" ELSE "REVIEW"

\* Variant: the score is committed before the status, as it is for a block.
ApproveInTwo(s) ==
  \/ /\ run[s].pc = "decide" /\ Approves(s)
     /\ WriteScore(s)
     /\ Scoring(s, [run[s] EXCEPT !.pc = "verdict"])
     /\ UNCHANGED <<row, audit>>
  \/ /\ run[s].pc = "verdict"
     /\ row' = [row EXCEPT ![run[s].at] = Verdict(run[s].score)]
     /\ Scoring(s, Drop(s, run[s].at))
     /\ UNCHANGED <<score, audit>>

\* evaluate approves: score and status are one transaction.
Approve(s) ==
  LET p == run[s].at
  IN /\ run[s].pc = "decide" /\ Approves(s)
     /\ WriteScore(s)
     /\ row' = [row EXCEPT ![p] = Verdict(run[s].score)]
     /\ Scoring(s, Drop(s, p))
     /\ UNCHANGED audit

\* Variant: the block is not audited.
BlockUnaudited(s) ==
  /\ run[s].pc = "decide" /\ Blocks(s)
  /\ WriteScore(s)
  /\ Scoring(s, [run[s] EXCEPT !.pc = "skip"])
  /\ UNCHANGED <<row, audit>>

\* evaluate blocks: its audit entry commits the session, and the score with it.
Block(s) ==
  /\ run[s].pc = "decide" /\ Blocks(s)
  /\ WriteScore(s)
  /\ audit' = audit \cup {run[s].at}
  /\ Scoring(s, [run[s] EXCEPT !.pc = "skip"])
  /\ UNCHANGED row

\* Variant: the status of a blocked job is never committed.
SkipUncommitted(s) ==
  /\ run[s].pc = "skip"
  /\ Scoring(s, Drop(s, run[s].at))
  /\ UNCHANGED jobVars

\* The status follows in a transaction of its own.
SkipBlocked(s) ==
  /\ run[s].pc = "skip"
  /\ row' = [row EXCEPT ![run[s].at] = "SKIPPED"]
  /\ Scoring(s, Drop(s, run[s].at))
  /\ UNCHANGED <<score, audit>>

RunDies(s) ==
  /\ crashes < MaxCrashes /\ run[s].pc # "idle"
  /\ crashes' = crashes + 1
  /\ run' = [run EXCEPT ![s] = IdleRun]
  /\ UNCHANGED <<jobVars, userVars>>

(***************************************************************************)
(* Telegram: /review and the review buttons.                               *)
(***************************************************************************)

User == UNCHANGED <<score, audit, run, crashes>>

\* /review sends the buttons of the jobs in REVIEW; they stay in the chat.
Review(p) ==
  /\ row[p] = "REVIEW" /\ p \notin shown
  /\ shown' = shown \cup {p}
  /\ User /\ UNCHANGED <<row, applied, press, settled>>

\* handle_job_review_callback loads the job, and for Apply its applications.
Press(p, choice) ==
  /\ press = NoPress /\ p \in shown
  /\ choice = "APPLIED" => p \notin applied
  /\ press' = [job |-> p, choice |-> choice, loaded |-> row[p]]
  /\ User /\ UNCHANGED <<row, applied, shown, settled>>

\* It writes the status unless the row had it when it was loaded.
CommitPress ==
  LET p == press.job
  IN /\ press # NoPress
     /\ row' = IF press.choice = press.loaded THEN row
               ELSE [row EXCEPT ![p] = press.choice]
     /\ applied' = IF press.choice = "APPLIED" THEN applied \cup {p} ELSE applied
     /\ settled' = [settled EXCEPT ![p] = IF Holders(p) = {} THEN row'[p] ELSE "none"]
     /\ press' = NoPress
     /\ User /\ UNCHANGED shown

PressFails ==
  /\ press # NoPress
  /\ press' = NoPress
  /\ User /\ UNCHANGED <<row, applied, shown, settled>>

\* Scoring one job, once it has a score.
Decide(s) == Approve(s) \/ Block(s) \/ SkipBlocked(s)

Attempt(s) == \E p \in Postings : ScoreMatch(s, p) \/ ScoreFails(s, p)

Next ==
  \/ \E s \in Scorers : LoadBatch(s) \/ Attempt(s) \/ Decide(s) \/ RunDies(s)
  \/ \E p \in Postings : Arrive(p) \/ Review(p) \/ \E choice \in {"SKIPPED", "APPLIED"} : Press(p, choice)
  \/ CommitPress \/ PressFails

Spec == Init /\ [][Next]_vars

\* Beat starts the scoring task every day, runs go on, and the AI provider scores a
\* job in the end if it is asked again and again.
FairSpec ==
  /\ Spec
  /\ WF_vars(\E s \in Scorers : LoadBatch(s))
  /\ WF_vars(\E s \in Scorers : Attempt(s))
  /\ WF_vars(\E s \in Scorers : Decide(s))
  /\ \A p \in Postings : SF_vars(\E s \in Scorers : ScoreMatch(s, p))

(***************************************************************************)
(* Properties.                                                             *)
(***************************************************************************)

\* Every variable has its type.
TypeOK ==
  /\ row \in [Postings -> JobStatus \cup {"absent"}]
  /\ score \in [Postings -> Scores \cup {NoScore}]
  /\ audit \in SUBSET Postings /\ applied \in SUBSET Postings /\ shown \in SUBSET Postings
  /\ run \in [Scorers -> Run]
  /\ \A s \in Scorers :
       /\ DOMAIN run[s].loaded = run[s].batch
       /\ run[s].pc \in {"decide", "skip"} => run[s].at \in run[s].batch /\ run[s].score \in Scores
  /\ press \in [job : Postings \cup {NoPosting}, choice : {"none", "SKIPPED", "APPLIED"},
                loaded : JobStatus \cup {"absent"}]
  /\ settled \in [Postings -> JobStatus \cup {"none"}]
  /\ crashes \in 0..MaxCrashes

\* A matched job scored at least the threshold, whoever scored it last, unless a
\* rule blocked it in one run while another approved it.
StatusFitsScore ==
  \A p \in Postings :
    row[p] = "MATCHED" /\ p \notin audit => score[p] # NoScore /\ score[p] >= Threshold

\* A skipped job is one the user skipped, or one whose block is on record.
SkipExplained ==
  \A p \in Postings : row[p] = "SKIPPED" => p \in audit \/ p \in shown

\* What the user decided about a job that no scoring run held stays as it is.
DecisionsKept == \A p \in Postings : settled[p] # "none" => row[p] = settled[p]

\* Every stored job is scored in the end.
EveryNewScored == \A p \in Postings : row[p] = "NEW" ~> row[p] # "NEW"

\* With one scoring run at a time, scoring is the lifecycle of JobLifecycle.
Lifecycle == INSTANCE JobLifecycle
LifecycleSafe == Lifecycle!Safe
=============================================================================
