------------------------------ MODULE ScoringProofs ------------------------------
(***************************************************************************)
(* Proofs about Scoring, for any postings, rules, scores and runs.         *)
(***************************************************************************)
EXTENDS Scoring, TLAPS

(***************************************************************************)
(* Types, and what is known of a job whose buttons are shown.              *)
(***************************************************************************)

\* The scoring task or the user has decided about p.
Decided(p) == row[p] \notin {"absent", "NEW"}

\* Buttons are shown for decided jobs, and pressed where they are shown.
Buttons ==
  /\ \A p \in shown : Decided(p)
  /\ press # NoPress => press.job \in shown /\ press.choice \in {"SKIPPED", "APPLIED"}

Types == TypeOK /\ Buttons

\* What is left of a run that is through with a posting.
LEMMA DropFacts ==
  ASSUME TypeOK, NEW s \in Scorers, NEW p \in Postings
  PROVE  /\ Drop(s, p) \in Run
         /\ Drop(s, p).pc \in {"idle", "next"}
         /\ Drop(s, p).batch = run[s].batch \ {p}
         /\ DOMAIN Drop(s, p).loaded = run[s].batch \ {p}
         /\ \A r \in run[s].batch \ {p} : Drop(s, p).loaded[r] = run[s].loaded[r]
<1> DEFINE rest == run[s].batch \ {p}
<1>0. rest \in SUBSET Postings /\ run[s] \in Run /\ DOMAIN run[s].loaded = run[s].batch
  BY DEF TypeOK, Run
<1>1. CASE rest = {}
  <2>1. Drop(s, p) = IdleRun
    BY <1>1 DEF Drop
  <2>2. IdleRun.loaded \in [{} -> Scores \cup {NoScore}]
    BY DEF IdleRun
  <2>3. IdleRun \in Run
    BY <2>2 DEF IdleRun, Run
  <2> QED BY <1>1, <2>1, <2>3 DEF IdleRun
<1>2. CASE rest # {}
  <2> DEFINE loaded == [r \in rest |-> run[s].loaded[r]]
  <2>1. Drop(s, p) = [pc |-> "next", batch |-> rest, loaded |-> loaded,
                      at |-> NoPosting, score |-> NoScore]
    BY <1>2 DEF Drop, Holding
  <2>2. PICK b \in SUBSET Postings : run[s].loaded \in [b -> Scores \cup {NoScore}]
    BY <1>0 DEF Run
  <2>3. b = run[s].batch
    BY <1>0, <2>2
  <2>4. loaded \in [rest -> Scores \cup {NoScore}]
    BY <2>2, <2>3
  <2>5. loaded \in UNION {[c -> Scores \cup {NoScore}] : c \in SUBSET Postings}
    BY <1>0, <2>4
  <2> HIDE DEF loaded
  <2>6. DOMAIN loaded = rest
    BY <2>4
  <2>7. \A r \in rest : loaded[r] = run[s].loaded[r]
    BY DEF loaded
  <2> QED BY <1>0, <2>1, <2>5, <2>6, <2>7 DEF Run
<1> QED BY <1>1, <1>2

\* Every step keeps the types, and leaves buttons under decided jobs only.
LEMMA TypesStep == Types /\ [Next]_vars => Types'
<1> SUFFICES ASSUME Types, [Next]_vars PROVE Types'
  OBVIOUS
<1> USE NamesAssumption, NumbersAssumption DEF jobVars, userVars
<1>1. ASSUME NEW s \in Scorers, LoadBatch(s) PROVE Types'
  <2>1. PICK batch \in (SUBSET Pending) \ {{}} :
          run' = [run EXCEPT ![s] = Holding(batch, [p \in batch |-> score[p]])]
    BY <1>1 DEF LoadBatch, LoadBatchOf, Scoring
  <2>2. UNCHANGED <<row, score, audit, applied, shown, press, crashes, settled>>
    BY <1>1 DEF LoadBatch, LoadBatchOf, Scoring
  <2> DEFINE loaded == [p \in batch |-> score[p]]
  <2> DEFINE state == [pc |-> "next", batch |-> batch, loaded |-> loaded,
                       at |-> NoPosting, score |-> NoScore]
  <2>3. batch \in SUBSET Postings
    BY <2>1 DEF Pending
  <2>4. loaded \in [batch -> Scores \cup {NoScore}]
    BY <2>3 DEF Types, TypeOK
  <2>5. run' = [run EXCEPT ![s] = state]
    BY <2>1 DEF Holding
  <2>6. loaded \in UNION {[c -> Scores \cup {NoScore}] : c \in SUBSET Postings}
    BY <2>3, <2>4
  <2> HIDE DEF loaded
  <2>7. state \in Run /\ DOMAIN state.loaded = state.batch /\ state.pc = "next"
    BY <2>3, <2>4, <2>6 DEF Run
  <2> HIDE DEF state
  <2> QED BY <2>2, <2>5, <2>7 DEF Types, TypeOK, Buttons, Decided
<1>2. ASSUME NEW s \in Scorers, NEW p \in Postings, ScoreMatch(s, p) PROVE Types'
  <2>1. PICK v \in Scores :
          run' = [run EXCEPT ![s] = [run[s] EXCEPT !.pc = "decide", !.at = p, !.score = v]]
    BY <1>2 DEF ScoreMatch, Scoring
  <2>2. UNCHANGED <<row, score, audit, applied, shown, press, crashes, settled>>
    BY <1>2 DEF ScoreMatch, Scoring
  <2> DEFINE state == [run[s] EXCEPT !.pc = "decide", !.at = p, !.score = v]
  <2>3. run[s] \in Run /\ p \in run[s].batch /\ DOMAIN run[s].loaded = run[s].batch
    BY <1>2 DEF ScoreMatch, Types, TypeOK
  <2>4. /\ state.batch = run[s].batch /\ state.loaded = run[s].loaded
        /\ state.at = p /\ state.score = v
    BY <2>3 DEF Run
  <2>5. state \in Run
    BY <2>3 DEF Run
  <2>6. run' = [run EXCEPT ![s] = state]
    BY <2>1
  <2> HIDE DEF state
  <2> QED BY <2>2, <2>3, <2>4, <2>5, <2>6 DEF Types, TypeOK, Buttons, Decided
<1>3. ASSUME NEW s \in Scorers, NEW p \in Postings, run' = [run EXCEPT ![s] = Drop(s, p)]
      PROVE  (run \in [Scorers -> Run] /\ \A t \in Scorers :
                 /\ DOMAIN run[t].loaded = run[t].batch
                 /\ run[t].pc \in {"decide", "skip"} =>
                      run[t].at \in run[t].batch /\ run[t].score \in Scores)'
  <2>1. Drop(s, p) \in Run /\ Drop(s, p).pc \notin {"decide", "skip"}
        /\ DOMAIN Drop(s, p).loaded = Drop(s, p).batch
    BY DropFacts DEF Types
  <2> QED BY <1>3, <2>1 DEF Types, TypeOK
<1>4. ASSUME NEW s \in Scorers, NEW p \in Postings, ScoreFails(s, p) PROVE Types'
  BY <1>3, <1>4 DEF ScoreFails, Scoring, Types, TypeOK, Buttons, Decided
<1>5. ASSUME NEW s \in Scorers, run[s].pc \in {"decide", "skip"}, WriteScore(s)
      PROVE  score' \in [Postings -> Scores \cup {NoScore}] /\ run[s].at \in Postings
  <2>1. run[s].at \in Postings /\ run[s].score \in Scores
    BY <1>5 DEF Types, TypeOK, Run
  <2>2. CASE run[s].score = run[s].loaded[run[s].at]
    BY <1>5, <2>1, <2>2 DEF WriteScore, Types, TypeOK
  <2>3. CASE run[s].score # run[s].loaded[run[s].at]
    BY <1>5, <2>1, <2>3 DEF WriteScore, Types, TypeOK
  <2> QED BY <2>1, <2>2, <2>3
<1>6. ASSUME NEW s \in Scorers, Approve(s) PROVE Types'
  <2>1. score' \in [Postings -> Scores \cup {NoScore}] /\ run[s].at \in Postings
    BY <1>5, <1>6 DEF Approve
  <2>2. Verdict(run[s].score) \in {"MATCHED", "REVIEW"}
    BY DEF Verdict
  <2>3. row' = [row EXCEPT ![run[s].at] = Verdict(run[s].score)]
        /\ run' = [run EXCEPT ![s] = Drop(s, run[s].at)]
        /\ UNCHANGED <<audit, applied, shown, press, crashes, settled>>
    BY <1>6 DEF Approve, Scoring
  <2>4. row' \in [Postings -> JobStatus \cup {"absent"}] /\ \A p \in Postings : Decided(p) => Decided(p)'
    BY <2>1, <2>2, <2>3 DEF Types, TypeOK, JobStatus, Decided
  <2> QED BY <1>3, <2>1, <2>3, <2>4 DEF Types, TypeOK, Buttons
<1>7. ASSUME NEW s \in Scorers, Block(s) PROVE Types'
  <2>1. score' \in [Postings -> Scores \cup {NoScore}] /\ run[s].at \in Postings
    BY <1>5, <1>7 DEF Block
  <2> DEFINE state == [run[s] EXCEPT !.pc = "skip"]
  <2>2. state \in Run /\ DOMAIN state.loaded = state.batch /\ state.at \in state.batch
        /\ state.score \in Scores
    BY <1>7 DEF Block, Types, TypeOK, Run
  <2>3. run' = [run EXCEPT ![s] = state] /\ audit' = audit \cup {run[s].at}
        /\ UNCHANGED <<row, applied, shown, press, crashes, settled>>
    BY <1>7 DEF Block, Scoring
  <2> HIDE DEF state
  <2> QED BY <2>1, <2>2, <2>3 DEF Types, TypeOK, Buttons, Decided
<1>8. ASSUME NEW s \in Scorers, SkipBlocked(s) PROVE Types'
  <2>1. run[s].at \in Postings
    BY <1>8 DEF SkipBlocked, Types, TypeOK, Run
  <2>2. row' = [row EXCEPT ![run[s].at] = "SKIPPED"]
        /\ run' = [run EXCEPT ![s] = Drop(s, run[s].at)]
        /\ UNCHANGED <<score, audit, applied, shown, press, crashes, settled>>
    BY <1>8 DEF SkipBlocked, Scoring
  <2>3. row' \in [Postings -> JobStatus \cup {"absent"}] /\ \A p \in Postings : Decided(p) => Decided(p)'
    BY <2>1, <2>2 DEF Types, TypeOK, JobStatus, Decided
  <2> QED BY <1>3, <2>1, <2>2, <2>3 DEF Types, TypeOK, Buttons
<1>9. ASSUME NEW s \in Scorers, RunDies(s) PROVE Types'
  <2>1. IdleRun \in Run /\ DOMAIN IdleRun.loaded = IdleRun.batch /\ IdleRun.pc = "idle"
    <3>1. IdleRun.loaded \in [{} -> Scores \cup {NoScore}]
      BY DEF IdleRun
    <3> QED BY <3>1 DEF IdleRun, Run
  <2>2. run' = [run EXCEPT ![s] = IdleRun] /\ crashes' = crashes + 1 /\ crashes < MaxCrashes
        /\ UNCHANGED <<row, score, audit, applied, shown, press, settled>>
    BY <1>9 DEF RunDies
  <2> QED BY <2>1, <2>2 DEF Types, TypeOK, Buttons, Decided
<1>10. ASSUME NEW p \in Postings, Arrive(p) PROVE Types'
  <2>1. row' = [row EXCEPT ![p] = "NEW"] /\ row[p] = "absent"
        /\ UNCHANGED <<score, audit, applied, shown, press, settled, run, crashes>>
    BY <1>10 DEF Arrive
  <2> QED BY <2>1 DEF Types, TypeOK, Buttons, Decided, JobStatus
<1>11. ASSUME NEW p \in Postings, Review(p) PROVE Types'
  BY <1>11 DEF Review, User, Types, TypeOK, Buttons, Decided
<1>12. ASSUME NEW p \in Postings, NEW choice \in {"SKIPPED", "APPLIED"}, Press(p, choice)
       PROVE  Types'
  BY <1>12 DEF Press, User, Types, TypeOK, Buttons, Decided
<1>13. ASSUME CommitPress PROVE Types'
  <2> DEFINE p == press.job
  <2>1. p \in Postings /\ Decided(p) /\ press.choice \in {"SKIPPED", "APPLIED"}
    BY <1>13 DEF CommitPress, Types, TypeOK, Buttons
  <2>2. row' = row \/ row' = [row EXCEPT ![p] = press.choice]
    BY <1>13 DEF CommitPress
  <2>3. row' \in [Postings -> JobStatus \cup {"absent"}] /\ \A r \in Postings : Decided(r) => Decided(r)'
    BY <2>1, <2>2 DEF Types, TypeOK, JobStatus, Decided
  <2>4. row'[p] \in JobStatus
    BY <2>1, <2>3 DEF Decided, JobStatus
  <2>5. settled' \in [Postings -> JobStatus \cup {"none"}]
    BY <1>13, <2>1, <2>4 DEF CommitPress, Types, TypeOK
  <2>6. applied' \in SUBSET Postings
    BY <1>13, <2>1 DEF CommitPress, Types, TypeOK
  <2>7. press' = NoPress /\ UNCHANGED <<score, audit, run, crashes, shown>>
    BY <1>13 DEF CommitPress, User
  <2> HIDE DEF p
  <2> QED BY <2>3, <2>5, <2>6, <2>7 DEF Types, TypeOK, Buttons, NoPress
<1>14. ASSUME PressFails PROVE Types'
  BY <1>14 DEF PressFails, User, Types, TypeOK, Buttons, Decided, NoPress
<1>15. CASE UNCHANGED vars
  BY <1>15 DEF vars, Types, TypeOK, Buttons, Decided
<1> QED
  BY <1>1, <1>2, <1>4, <1>6, <1>7, <1>8, <1>9, <1>10, <1>11, <1>12, <1>13, <1>14, <1>15
  DEF Next, Attempt, Decide

\* Every variable has its type, and review buttons are under decided jobs only.
THEOREM TypesHold == Spec => []Types
<1>1. Init => Types
  <2> SUFFICES ASSUME Init PROVE Types
    OBVIOUS
  <2>1. IdleRun \in Run /\ DOMAIN IdleRun.loaded = IdleRun.batch /\ IdleRun.pc = "idle"
    <3>1. IdleRun.loaded \in [{} -> Scores \cup {NoScore}]
      BY DEF IdleRun
    <3> QED BY <3>1 DEF IdleRun, Run
  <2> QED BY <2>1, NumbersAssumption DEF Init, NoPress, Types, TypeOK, Buttons, JobStatus
<1> QED BY <1>1, TypesStep, PTL DEF Spec

\* TypeOK, for any postings, scores, rules and scoring runs.
THEOREM TypeCorrect == Spec => []TypeOK
BY TypesHold, PTL DEF Types

(***************************************************************************)
(* Batches only shrink between two loads.                                  *)
(***************************************************************************)

Shrinks ==
  \A t \in Scorers :
    /\ run'[t].batch \subseteq run[t].batch
    /\ \A p \in run'[t].batch : run'[t].loaded[p] = run[t].loaded[p]

\* Every step of the next-state relation but LoadBatch.
OtherSteps ==
  \/ \E s \in Scorers : Attempt(s) \/ Decide(s) \/ RunDies(s)
  \/ \E p \in Postings :
       Arrive(p) \/ Review(p) \/ \E choice \in {"SKIPPED", "APPLIED"} : Press(p, choice)
  \/ CommitPress \/ PressFails \/ UNCHANGED vars

\* No other step adds a job to a batch, or changes what a run loaded.
LEMMA BatchesShrink == Types /\ OtherSteps => Shrinks
<1> SUFFICES ASSUME Types, OtherSteps PROVE Shrinks
  OBVIOUS
<1>1. ASSUME NEW s \in Scorers, NEW p \in Postings, run' = [run EXCEPT ![s] = Drop(s, p)]
      PROVE  Shrinks
  BY <1>1, DropFacts DEF Types, TypeOK, Shrinks
<1>2. ASSUME NEW s \in Scorers, NEW p \in Postings, ScoreMatch(s, p) PROVE Shrinks
  BY <1>2 DEF ScoreMatch, Scoring, Types, TypeOK, Run, Shrinks
<1>3. ASSUME NEW s \in Scorers, NEW p \in Postings, ScoreFails(s, p) PROVE Shrinks
  BY <1>1, <1>3 DEF ScoreFails, Scoring
<1>4. ASSUME NEW s \in Scorers, run[s].pc \in {"decide", "skip"} PROVE run[s].at \in Postings
  BY <1>4 DEF Types, TypeOK, Run
<1>5. ASSUME NEW s \in Scorers, Approve(s) \/ SkipBlocked(s) PROVE Shrinks
  BY <1>1, <1>4, <1>5 DEF Approve, SkipBlocked, Scoring
<1>6. ASSUME NEW s \in Scorers, Block(s) PROVE Shrinks
  BY <1>6 DEF Block, Scoring, Types, TypeOK, Run, Shrinks
<1>7. ASSUME NEW s \in Scorers, RunDies(s) PROVE Shrinks
  BY <1>7 DEF RunDies, IdleRun, Types, TypeOK, Shrinks
<1>8. CASE UNCHANGED run
  BY <1>8 DEF Shrinks
<1> QED
  BY <1>2, <1>3, <1>5, <1>6, <1>7, <1>8
  DEF OtherSteps, Attempt, Decide, Arrive, Review, Press, CommitPress, PressFails, User, vars

(***************************************************************************)
(* The user's decisions.                                                   *)
(***************************************************************************)

\* A job whose decision is settled is in no batch.
Kept ==
  \A p \in Postings :
    settled[p] # "none" => row[p] = settled[p] /\ Decided(p) /\ Holders(p) = {}

LEMMA KeptStep == Types /\ Kept /\ [Next]_vars => Kept'
<1> SUFFICES ASSUME Types, Kept, [Next]_vars, NEW p \in Postings, settled'[p] # "none"
             PROVE  row'[p] = settled'[p] /\ Decided(p)' /\ Holders(p)' = {}
  BY DEF Kept
<1>1. ASSUME NEW s \in Scorers, LoadBatch(s) PROVE row'[p] = settled'[p] /\ Decided(p)' /\ Holders(p)' = {}
  <2>1. PICK batch \in (SUBSET Pending) \ {{}} :
          run' = [run EXCEPT ![s] = Holding(batch, [r \in batch |-> score[r]])]
    BY <1>1 DEF LoadBatch, LoadBatchOf, Scoring
  <2>2. UNCHANGED <<row, settled>>
    BY <1>1 DEF LoadBatch, LoadBatchOf, Scoring, jobVars, userVars
  <2>3. row[p] = settled[p] /\ Decided(p) /\ Holders(p) = {}
    BY <2>2 DEF Kept
  <2>4. p \notin batch
    BY <2>3 DEF Pending, Decided
  <2>5. Holding(batch, [r \in batch |-> score[r]]).batch = batch
    BY DEF Holding
  <2>6. Holders(p)' = {}
    BY <2>1, <2>3, <2>4, <2>5 DEF Holders, Types, TypeOK
  <2> QED BY <2>2, <2>3, <2>6 DEF Decided
<1>2. CASE OtherSteps
  <2>1. Holders(p)' \subseteq Holders(p)
    BY <1>2, BatchesShrink DEF Shrinks, Holders
  <2>2. ASSUME UNCHANGED settled, row'[p] = row[p]
        PROVE  row'[p] = settled'[p] /\ Decided(p)' /\ Holders(p)' = {}
    BY <2>1, <2>2 DEF Kept, Decided
  <2>3. ASSUME NEW s \in Scorers, Decide(s) PROVE UNCHANGED settled /\ row'[p] = row[p]
    <3>1. settled' = settled
      BY <2>3 DEF Decide, Approve, Block, SkipBlocked, Scoring, userVars
    <3>2. run[s].at \in run[s].batch
      BY <2>3 DEF Decide, Approve, Block, SkipBlocked, Types, TypeOK
    <3>3. run[s].at # p
      BY <3>1, <3>2 DEF Kept, Holders
    <3> QED BY <2>3, <3>1, <3>3 DEF Decide, Approve, Block, SkipBlocked, Types, TypeOK
  <2>4. ASSUME NEW r \in Postings, Arrive(r) PROVE UNCHANGED settled /\ row'[p] = row[p]
    BY <2>4 DEF Arrive, userVars, Kept, Decided, Types, TypeOK
  <2>5. CASE CommitPress
    <3>1. CASE p = press.job
      <4>1. settled'[p] = IF Holders(p) = {} THEN row'[p] ELSE "none"
        BY <2>5, <3>1 DEF CommitPress, Types, TypeOK
      <4>2. Holders(p) = {} /\ settled'[p] = row'[p]
        BY <4>1
      <4>3. p \in shown /\ press.choice \in {"SKIPPED", "APPLIED"}
        BY <2>5, <3>1 DEF CommitPress, Types, Buttons
      <4>4. row'[p] \notin {"absent", "NEW"}
        BY <2>5, <3>1, <4>3 DEF CommitPress, Types, TypeOK, Buttons, Decided
      <4> QED BY <2>1, <4>2, <4>4 DEF Decided
    <3>2. CASE p # press.job
      <4>1. settled'[p] = settled[p] /\ row'[p] = row[p]
        BY <2>5, <3>2 DEF CommitPress, Types, TypeOK
      <4> QED BY <2>1, <4>1 DEF Kept, Decided
    <3> QED BY <3>1, <3>2
  <2>6. CASE UNCHANGED <<row, settled>>
    BY <2>2, <2>6
  <2> QED
    BY <1>2, <2>2, <2>3, <2>4, <2>5, <2>6
    DEF OtherSteps, Attempt, ScoreMatch, ScoreFails, Scoring, RunDies, Review, Press,
        PressFails, User, jobVars, userVars, vars
<1> QED BY <1>1, <1>2 DEF Next, OtherSteps

\* What the user decided about a job that no run held stays as it is.
THEOREM UserDecisionsKept == Spec => []DecisionsKept
<1>1. Init => Kept
  BY DEF Init, Kept
<1>2. Kept => DecisionsKept
  BY DEF Kept, DecisionsKept
<1> QED BY <1>1, <1>2, KeptStep, TypesHold, PTL DEF Spec

(***************************************************************************)
(* Blocked jobs.                                                           *)
(***************************************************************************)

\* A run about to skip a job has its block on record.
Recorded == SkipExplained /\ \A s \in Scorers : run[s].pc = "skip" => run[s].at \in audit

LEMMA RecordedStep == Types /\ Recorded /\ [Next]_vars => Recorded'
<1> SUFFICES ASSUME Types, Recorded, [Next]_vars PROVE Recorded'
  OBVIOUS
<1> USE DEF Recorded, SkipExplained
<1>1. ASSUME NEW s \in Scorers, NEW p \in Postings, run' = [run EXCEPT ![s] = Drop(s, p)]
      PROVE  \A t \in Scorers : run'[t].pc = "skip" => run[t].pc = "skip" /\ run'[t] = run[t]
  BY <1>1, DropFacts DEF Types, TypeOK
<1>2. ASSUME NEW s \in Scorers, LoadBatch(s) PROVE Recorded'
  BY <1>2 DEF LoadBatch, LoadBatchOf, Scoring, Holding, jobVars, userVars, Types, TypeOK
<1>3. ASSUME NEW s \in Scorers, NEW p \in Postings, ScoreMatch(s, p) PROVE Recorded'
  BY <1>3 DEF ScoreMatch, Scoring, jobVars, userVars, Types, TypeOK, Run
<1>4. ASSUME NEW s \in Scorers, NEW p \in Postings, ScoreFails(s, p) PROVE Recorded'
  <2>1. run' = [run EXCEPT ![s] = Drop(s, p)] /\ UNCHANGED <<row, audit, shown>>
    BY <1>4 DEF ScoreFails, Scoring, jobVars, userVars
  <2>2. \A t \in Scorers : run'[t].pc = "skip" => run[t].pc = "skip" /\ run'[t] = run[t]
    BY <1>1, <2>1
  <2> QED BY <2>1, <2>2
<1>5. ASSUME NEW s \in Scorers, run[s].pc \in {"decide", "skip"} PROVE run[s].at \in Postings
  BY <1>5 DEF Types, TypeOK, Run
<1>6. ASSUME NEW s \in Scorers, Approve(s) PROVE Recorded'
  <2>1. row' = [row EXCEPT ![run[s].at] = Verdict(run[s].score)] /\ UNCHANGED <<audit, shown>>
        /\ run' = [run EXCEPT ![s] = Drop(s, run[s].at)] /\ run[s].at \in Postings
    BY <1>5, <1>6 DEF Approve, Scoring, userVars
  <2>2. Verdict(run[s].score) # "SKIPPED"
    BY DEF Verdict
  <2> QED BY <1>1, <2>1, <2>2 DEF Types, TypeOK
<1>7. ASSUME NEW s \in Scorers, Block(s) PROVE Recorded'
  BY <1>7 DEF Block, Scoring, userVars, Types, TypeOK, Run
<1>8. ASSUME NEW s \in Scorers, SkipBlocked(s) PROVE Recorded'
  <2>1. row' = [row EXCEPT ![run[s].at] = "SKIPPED"] /\ UNCHANGED <<audit, shown>>
        /\ run' = [run EXCEPT ![s] = Drop(s, run[s].at)]
        /\ run[s].at \in Postings /\ run[s].at \in audit
    BY <1>5, <1>8 DEF SkipBlocked, Scoring, userVars
  <2> QED BY <1>1, <2>1 DEF Types, TypeOK
<1>9. ASSUME NEW s \in Scorers, RunDies(s) PROVE Recorded'
  BY <1>9 DEF RunDies, IdleRun, jobVars, userVars, Types, TypeOK
<1>10. ASSUME NEW p \in Postings, Arrive(p) PROVE Recorded'
  BY <1>10 DEF Arrive, userVars, Types, TypeOK
<1>11. ASSUME NEW p \in Postings, Review(p) PROVE Recorded'
  BY <1>11 DEF Review, User
<1>12. ASSUME NEW p \in Postings, NEW choice \in {"SKIPPED", "APPLIED"}, Press(p, choice)
       PROVE  Recorded'
  BY <1>12 DEF Press, User
<1>13. CASE CommitPress
  BY <1>13 DEF CommitPress, User, Types, TypeOK, Buttons
<1>14. CASE PressFails \/ UNCHANGED vars
  BY <1>14 DEF PressFails, User, vars
<1> QED
  BY <1>2, <1>3, <1>4, <1>6, <1>7, <1>8, <1>9, <1>10, <1>11, <1>12, <1>13, <1>14
  DEF Next, Attempt, Decide

\* A skipped job is one the user skipped, or one whose block is on record.
THEOREM SkipsAreExplained == Spec => []SkipExplained
<1>1. Init => Recorded
  BY DEF Init, Recorded, SkipExplained, IdleRun
<1>2. Recorded => SkipExplained
  BY DEF Recorded
<1> QED BY <1>1, <1>2, RecordedStep, TypesHold, PTL DEF Spec

(***************************************************************************)
(* Scores.                                                                 *)
(***************************************************************************)

\* A job no rule ever blocked has no score while it is NEW, and none in the batches
\* that hold it: whoever decides about it writes its score.
Unscored ==
  /\ \A p \in Postings : ~Decided(p) /\ p \notin audit => score[p] = NoScore
  /\ \A s \in Scorers : \A p \in run[s].batch : p \notin audit => run[s].loaded[p] = NoScore

Fits == StatusFitsScore /\ Unscored

LEMMA FitsStep == Types /\ Fits /\ [Next]_vars => Fits'
<1> SUFFICES ASSUME Types, Fits, [Next]_vars PROVE Fits'
  OBVIOUS
<1> USE NamesAssumption, NumbersAssumption
<1>1. ASSUME NEW s \in Scorers, LoadBatch(s) PROVE Fits'
  <2>1. PICK batch \in (SUBSET Pending) \ {{}} :
          run' = [run EXCEPT ![s] = Holding(batch, [p \in batch |-> score[p]])]
    BY <1>1 DEF LoadBatch, LoadBatchOf, Scoring
  <2>2. UNCHANGED <<row, score, audit>>
    BY <1>1 DEF LoadBatch, LoadBatchOf, Scoring, jobVars
  <2> DEFINE state == Holding(batch, [p \in batch |-> score[p]])
  <2>3. state.batch = batch /\ \A p \in batch : state.loaded[p] = score[p]
    BY DEF Holding
  <2>4. \A p \in batch : p \notin audit => score[p] = NoScore
    BY DEF Pending, Fits, Unscored, Decided
  <2>5. run' = [run EXCEPT ![s] = state]
    BY <2>1
  <2> HIDE DEF state
  <2> QED BY <2>2, <2>3, <2>4, <2>5 DEF Fits, StatusFitsScore, Unscored, Decided, Types, TypeOK
<1>2. CASE OtherSteps
  <2>1. audit \subseteq audit'
    BY <1>2 DEF OtherSteps, Attempt, ScoreMatch, ScoreFails, Decide, Approve, Block, SkipBlocked,
                Scoring, RunDies, Arrive, Review, Press, CommitPress, PressFails, User,
                jobVars, userVars, vars
  <2>2. (\A s \in Scorers : \A p \in run[s].batch :
           p \notin audit => run[s].loaded[p] = NoScore)'
    BY <1>2, <2>1, BatchesShrink DEF Shrinks, Fits, Unscored
  <2> DEFINE Jobs ==
        \A p \in Postings :
          /\ row[p] = "MATCHED" /\ p \notin audit => score[p] # NoScore /\ score[p] >= Threshold
          /\ row[p] \in {"absent", "NEW"} /\ p \notin audit => score[p] = NoScore
  <2>3. Jobs
    BY DEF Fits, StatusFitsScore, Unscored, Decided
  <2>4. ASSUME NEW s \in Scorers, run[s].pc \in {"decide", "skip"}
        PROVE  run[s].at \in Postings /\ run[s].at \in run[s].batch /\ run[s].score \in Scores
    BY <2>4 DEF Types, TypeOK, Run
  <2>5. ASSUME NEW s \in Scorers, Approve(s) PROVE Jobs'
    <3> DEFINE p == run[s].at
    <3>1. p \in Postings /\ p \in run[s].batch /\ run[s].score \in Scores
      BY <2>4, <2>5 DEF Approve
    <3>2. row' = [row EXCEPT ![p] = Verdict(run[s].score)] /\ audit' = audit
          /\ score' = IF run[s].score = run[s].loaded[p] THEN score
                      ELSE [score EXCEPT ![p] = run[s].score]
      BY <2>5 DEF Approve, WriteScore
    <3>3. p \notin audit => score' = [score EXCEPT ![p] = run[s].score]
      BY <3>1, <3>2 DEF Fits, Unscored
    <3>4. row'[p] = "MATCHED" => run[s].score >= Threshold
      BY <3>1, <3>2 DEF Verdict, Types, TypeOK
    <3>5. row'[p] \notin {"absent", "NEW"}
      BY <3>1, <3>2 DEF Verdict, Types, TypeOK
    <3>6. \A r \in Postings \ {p} : row'[r] = row[r] /\ score'[r] = score[r]
      BY <3>1, <3>2 DEF Types, TypeOK
    <3>7. p \notin audit => score'[p] = run[s].score
      BY <3>1, <3>3 DEF Types, TypeOK
    <3> HIDE DEF p
    <3> QED BY <2>3, <3>1, <3>2, <3>4, <3>5, <3>6, <3>7
  <2>6. ASSUME NEW s \in Scorers, Block(s) PROVE Jobs'
    <3>1. row' = row /\ audit' = audit \cup {run[s].at} /\ run[s].at \in Postings
          /\ \A r \in Postings \ {run[s].at} : score'[r] = score[r]
      BY <2>4, <2>6 DEF Block, WriteScore, Types, TypeOK
    <3> QED BY <2>3, <3>1
  <2>7. ASSUME NEW s \in Scorers, SkipBlocked(s) PROVE Jobs'
    <3>1. row' = [row EXCEPT ![run[s].at] = "SKIPPED"] /\ UNCHANGED <<score, audit>>
      BY <2>7 DEF SkipBlocked
    <3> QED BY <2>3, <3>1 DEF Types, TypeOK
  <2>8. ASSUME NEW p \in Postings, Arrive(p) PROVE Jobs'
    <3>1. row' = [row EXCEPT ![p] = "NEW"] /\ row[p] = "absent" /\ UNCHANGED <<score, audit>>
      BY <2>8 DEF Arrive
    <3> QED BY <2>3, <3>1 DEF Types, TypeOK
  <2>9. ASSUME CommitPress PROVE Jobs'
    <3>1. (row' = row \/ row' = [row EXCEPT ![press.job] = press.choice]) /\ UNCHANGED <<score, audit>>
          /\ press.choice \in {"SKIPPED", "APPLIED"}
      BY <2>9 DEF CommitPress, User, Types, Buttons
    <3> QED BY <2>3, <3>1 DEF Types, TypeOK
  <2>10. ASSUME UNCHANGED jobVars PROVE Jobs'
    BY <2>3, <2>10 DEF jobVars
  <2>11. Jobs'
    BY <1>2, <2>5, <2>6, <2>7, <2>8, <2>9, <2>10
    DEF OtherSteps, Attempt, Decide, ScoreMatch, ScoreFails, RunDies, Review, Press,
        PressFails, User, jobVars, vars
  <2> QED BY <2>2, <2>11 DEF Fits, StatusFitsScore, Unscored, Decided
<1> QED BY <1>1, <1>2 DEF Next, OtherSteps

\* A matched job no rule ever blocked scored at least the threshold.
THEOREM MatchedJobsFit == Spec => []StatusFitsScore
<1>1. Init => Fits
  BY DEF Init, Fits, StatusFitsScore, Unscored, IdleRun, Decided
<1>2. Fits => StatusFitsScore
  BY DEF Fits
<1> QED BY <1>1, <1>2, FitsStep, TypesHold, PTL DEF Spec

(***************************************************************************)
(* One scoring run at a time: the lifecycle of a job.                      *)
(***************************************************************************)

\* The jobs of the run are NEW, and their scores are the ones it loaded, but for the
\* job it has just blocked, whose score it wrote.
UpToDate ==
  \A s \in Scorers : \A p \in run[s].batch :
    /\ row[p] = "NEW"
    /\ score[p] = IF run[s].pc = "skip" /\ p = run[s].at
                  THEN run[s].score ELSE run[s].loaded[p]

\* Without a second run, each step is one of the lifecycle and leaves the run up to
\* date.
LEMMA UpToDateStep ==
  ASSUME \A s, t \in Scorers : s = t, Types, UpToDate, [Next]_vars
  PROVE  UpToDate' /\ [Lifecycle!Next]_(Lifecycle!vars)
<1> USE NamesAssumption DEF Lifecycle!vars
<1>1. ASSUME NEW s \in Scorers, LoadBatch(s)
      PROVE  UpToDate' /\ UNCHANGED Lifecycle!vars
  <2>1. PICK batch \in (SUBSET Pending) \ {{}} :
          run' = [run EXCEPT ![s] = Holding(batch, [p \in batch |-> score[p]])]
    BY <1>1 DEF LoadBatch, LoadBatchOf, Scoring
  <2>2. UNCHANGED <<row, score, shown>>
    BY <1>1 DEF LoadBatch, LoadBatchOf, Scoring, jobVars, userVars
  <2> DEFINE state == Holding(batch, [p \in batch |-> score[p]])
  <2>3. state.pc = "next" /\ state.batch = batch /\ \A p \in batch : state.loaded[p] = score[p]
    BY DEF Holding
  <2>4. \A p \in batch : row[p] = "NEW"
    BY DEF Pending
  <2>5. run' = [run EXCEPT ![s] = state]
    BY <2>1
  <2> HIDE DEF state
  <2> QED BY <2>2, <2>3, <2>4, <2>5 DEF UpToDate, Types, TypeOK
\* A run that drops p leaves the rest of its jobs as they were.
<1>2. ASSUME NEW s \in Scorers, NEW p \in Postings, p \in run[s].batch,
             run' = [run EXCEPT ![s] = Drop(s, p)],
             run[s].pc = "skip" => p = run[s].at,
             \A r \in Postings \ {p} : row'[r] = row[r] /\ score'[r] = score[r]
      PROVE  UpToDate'
  <2> SUFFICES ASSUME NEW t \in Scorers, NEW r \in run'[t].batch
               PROVE  /\ row'[r] = "NEW"
                      /\ score'[r] = IF run'[t].pc = "skip" /\ r = run'[t].at
                                     THEN run'[t].score ELSE run'[t].loaded[r]
    BY DEF UpToDate
  <2>1. t = s
    OBVIOUS
  <2>2. run'[t] = Drop(s, p)
    BY <1>2, <2>1 DEF Types, TypeOK
  <2>3. r \in run[s].batch \ {p} /\ run'[t].pc # "skip" /\ run'[t].loaded[r] = run[s].loaded[r]
    BY <2>2, DropFacts DEF Types
  <2>4. r \in Postings
    BY <2>3 DEF Types, TypeOK, Run
  <2>5. row[r] = "NEW" /\ score[r] = run[s].loaded[r]
    BY <1>2, <2>3 DEF UpToDate
  <2> QED BY <1>2, <2>3, <2>4, <2>5
<1>3. ASSUME NEW s \in Scorers, NEW p \in Postings, ScoreMatch(s, p)
      PROVE  UpToDate' /\ UNCHANGED Lifecycle!vars
  BY <1>3 DEF ScoreMatch, Scoring, jobVars, userVars, UpToDate, Types, TypeOK, Run
<1>4. ASSUME NEW s \in Scorers, NEW p \in Postings, ScoreFails(s, p)
      PROVE  UpToDate' /\ UNCHANGED Lifecycle!vars
  BY <1>2, <1>4 DEF ScoreFails, Scoring, jobVars, userVars
\* What a run at a job knows of it.
<1>5. ASSUME NEW s \in Scorers, run[s].pc \in {"decide", "skip"}
      PROVE  /\ run[s].at \in Postings /\ run[s].at \in run[s].batch /\ run[s].score \in Scores
             /\ row[run[s].at] = "NEW"
             /\ run[s].pc = "decide" => score[run[s].at] = run[s].loaded[run[s].at]
             /\ run[s].pc = "skip" => score[run[s].at] = run[s].score
  BY <1>5 DEF UpToDate, Types, TypeOK, Run
\* WriteScore leaves the run's score on record.
<1>6. ASSUME NEW s \in Scorers, run[s].pc = "decide", WriteScore(s)
      PROVE  score' = [score EXCEPT ![run[s].at] = run[s].score]
  <2>1. score \in [Postings -> Scores \cup {NoScore}]
    BY DEF Types, TypeOK
  <2> QED BY <1>5, <1>6, <2>1 DEF WriteScore
<1>7. ASSUME NEW s \in Scorers, Approve(s) PROVE UpToDate' /\ Lifecycle!Next
  <2> DEFINE p == run[s].at
  <2>1. p \in Postings /\ p \in run[s].batch /\ run[s].score \in Scores /\ row[p] = "NEW"
    BY <1>5, <1>7 DEF Approve
  <2>2. score' = [score EXCEPT ![p] = run[s].score]
    BY <1>6, <1>7 DEF Approve
  <2>3. row' = [row EXCEPT ![p] = Verdict(run[s].score)] /\ UNCHANGED shown
        /\ run' = [run EXCEPT ![s] = Drop(s, p)]
    BY <1>7 DEF Approve, Scoring, userVars
  <2>4. Lifecycle!Accept(p, run[s].score)
    BY <2>1, <2>2, <2>3 DEF Lifecycle!Accept, Verdict
  <2>5. \A r \in Postings \ {p} : row'[r] = row[r] /\ score'[r] = score[r]
    BY <2>2, <2>3 DEF Types, TypeOK
  <2>6. UpToDate'
    BY <1>2, <1>7, <2>1, <2>3, <2>5 DEF Approve
  <2>7. Lifecycle!Next
    BY <2>1, <2>4 DEF Lifecycle!Next
  <2> QED BY <2>6, <2>7
<1>8. ASSUME NEW s \in Scorers, Block(s) PROVE UpToDate' /\ Lifecycle!Next
  <2> DEFINE p == run[s].at
  <2>1. p \in Postings /\ p \in run[s].batch /\ run[s].score \in Scores /\ row[p] = "NEW"
    BY <1>5, <1>8 DEF Block
  <2>2. score' = [score EXCEPT ![p] = run[s].score]
    BY <1>6, <1>8 DEF Block
  <2>3. UNCHANGED <<row, shown>> /\ run' = [run EXCEPT ![s] = [run[s] EXCEPT !.pc = "skip"]]
    BY <1>8 DEF Block, Scoring, userVars
  <2>4. Lifecycle!Rate(p, run[s].score)
    BY <2>1, <2>2, <2>3 DEF Lifecycle!Rate
  <2>5. Lifecycle!Next
    BY <2>1, <2>4 DEF Lifecycle!Next
  <2> DEFINE state == [run[s] EXCEPT !.pc = "skip"]
  <2>6. /\ state.pc = "skip" /\ state.at = p /\ state.score = run[s].score
        /\ state.batch = run[s].batch /\ state.loaded = run[s].loaded
    BY DEF Types, TypeOK, Run
  <2>7. \A t \in Scorers : run'[t] = state
    BY <2>3 DEF Types, TypeOK
  <2>8. score'[p] = run[s].score /\ \A r \in Postings \ {p} : score'[r] = score[r]
    BY <2>1, <2>2 DEF Types, TypeOK
  <2>9. \A r \in run[s].batch \ {p} : r \in Postings /\ row[r] = "NEW" /\ score[r] = run[s].loaded[r]
    BY <1>8 DEF Block, UpToDate, Types, TypeOK, Run
  <2> HIDE DEF state, p
  <2>10. UpToDate'
    <3> SUFFICES ASSUME NEW t \in Scorers, NEW r \in run'[t].batch
                 PROVE  /\ row'[r] = "NEW"
                        /\ score'[r] = IF run'[t].pc = "skip" /\ r = run'[t].at
                                       THEN run'[t].score ELSE run'[t].loaded[r]
      BY DEF UpToDate
    <3>1. run'[t] = state /\ r \in run[s].batch
      BY <2>6, <2>7
    <3>2. row' = row
      BY <2>3
    <3>3. CASE r = p
      BY <2>1, <2>6, <2>8, <3>1, <3>2, <3>3
    <3>4. CASE r # p
      <4>1. row[r] = "NEW" /\ score'[r] = run[s].loaded[r]
        BY <2>8, <2>9, <3>1, <3>4
      <4>2. run'[t].at # r /\ run'[t].loaded[r] = run[s].loaded[r]
        BY <2>6, <3>1, <3>4
      <4> QED BY <3>2, <4>1, <4>2
    <3> QED BY <3>3, <3>4
  <2> QED BY <2>5, <2>10
<1>9. ASSUME NEW s \in Scorers, SkipBlocked(s) PROVE UpToDate' /\ Lifecycle!Next
  <2> DEFINE p == run[s].at
  <2>1. p \in Postings /\ p \in run[s].batch /\ row[p] = "NEW" /\ score[p] # NoScore
    BY <1>5, <1>9 DEF SkipBlocked
  <2>2. row' = [row EXCEPT ![p] = "SKIPPED"] /\ UNCHANGED <<score, shown>>
        /\ run' = [run EXCEPT ![s] = Drop(s, p)]
    BY <1>9 DEF SkipBlocked, Scoring, userVars
  <2>3. Lifecycle!Reject(p)
    BY <2>1, <2>2 DEF Lifecycle!Reject
  <2>4. \A r \in Postings \ {p} : row'[r] = row[r] /\ score'[r] = score[r]
    BY <2>2 DEF Types, TypeOK
  <2>5. UpToDate'
    BY <1>2, <2>1, <2>2, <2>4
  <2>6. Lifecycle!Next
    BY <2>1, <2>3 DEF Lifecycle!Next
  <2> QED BY <2>5, <2>6
<1>10. ASSUME NEW s \in Scorers, RunDies(s) PROVE UpToDate' /\ UNCHANGED Lifecycle!vars
  BY <1>10 DEF RunDies, IdleRun, jobVars, userVars, UpToDate, Types, TypeOK
\* Steps that leave the run alone move no job of its batch.
<1>11. ASSUME UNCHANGED <<run, score>>, \A p \in Postings : row[p] = "NEW" => row'[p] = "NEW"
       PROVE  UpToDate'
  BY <1>11 DEF UpToDate, Types, TypeOK, Run
<1>12. ASSUME NEW p \in Postings, Arrive(p) PROVE UpToDate' /\ Lifecycle!Next
  <2>1. row[p] = "absent" /\ row' = [row EXCEPT ![p] = "NEW"] /\ UNCHANGED <<run, score, shown>>
    BY <1>12 DEF Arrive, userVars
  <2>2. Lifecycle!Discover(p)
    BY <2>1 DEF Lifecycle!Discover
  <2> QED BY <1>11, <2>1, <2>2 DEF Lifecycle!Next, Types, TypeOK
<1>13. ASSUME NEW p \in Postings, Review(p) PROVE UpToDate' /\ Lifecycle!Next
  <2>1. Lifecycle!PutUp(p) /\ UNCHANGED <<run, score, row>>
    BY <1>13 DEF Review, User, Lifecycle!PutUp
  <2> QED BY <1>11, <2>1 DEF Lifecycle!Next
<1>14. ASSUME CommitPress PROVE UpToDate' /\ [Lifecycle!Next]_(Lifecycle!vars)
  <2> DEFINE p == press.job
  <2>1. p \in shown /\ p \in Postings /\ press.choice \in {"SKIPPED", "APPLIED"} /\ Decided(p)
    BY <1>14 DEF CommitPress, Types, TypeOK, Buttons
  <2>2. (row' = row \/ row' = [row EXCEPT ![p] = press.choice]) /\ UNCHANGED <<run, score, shown>>
    BY <1>14 DEF CommitPress, User
  <2>3. UpToDate'
    BY <1>11, <2>1, <2>2 DEF Decided, Types, TypeOK
  <2>4. CASE row' = row
    BY <2>2, <2>3, <2>4
  <2>5. CASE row' = [row EXCEPT ![p] = press.choice]
    <3>1. Lifecycle!UserDecides(p, press.choice)
      BY <2>1, <2>2, <2>5 DEF Lifecycle!UserDecides
    <3> QED BY <2>1, <2>3, <3>1 DEF Lifecycle!Next
  <2> QED BY <2>2, <2>4, <2>5
<1>15. CASE UNCHANGED <<row, score, shown, run>>
  BY <1>11, <1>15
<1> QED
  BY <1>1, <1>3, <1>4, <1>7, <1>8, <1>9, <1>10, <1>12, <1>13, <1>14, <1>15
  DEF Next, Attempt, Decide, Press, PressFails, User, vars

\* With one scoring run at a time, whatever dies, whatever the user edits and presses:
\* a job is decided about once, by its score or by a rule, and afterwards only the
\* user moves it, and only a job that was put up for review.
THEOREM ScoringIsTheLifecycle ==
  ASSUME \A s, t \in Scorers : s = t
  PROVE  Spec => LifecycleSafe
<1>1. Init => UpToDate /\ Lifecycle!Init
  BY DEF Init, UpToDate, IdleRun, Lifecycle!Init
<1>2. Types /\ UpToDate /\ [Next]_vars => UpToDate' /\ [Lifecycle!Next]_(Lifecycle!vars)
  BY UpToDateStep
<1> QED BY <1>1, <1>2, TypesHold, PTL DEF Spec, LifecycleSafe, Lifecycle!Safe

(***************************************************************************)
(* The Rule Engine's answers, for any rules and any job.                   *)
(***************************************************************************)

\* Every rule set an evaluation may see, the starter rules included, holds only
\* conditions that RuleCondition let through.
THEOREM RuleSetsAreValid ==
  ASSUME NEW rules \in RuleSets, NEW r \in rules
  PROVE  Engine!Valid(r)
<1>1. ASSUME NEW edited \in {Rules} \cup Engine!Edited(Rules, RuleForms), NEW q \in edited
      PROVE  Engine!Valid(q)
  BY <1>1, RulesAssumption
  DEF Engine!Edited, Engine!Created, Engine!Updated, Engine!Deleted, Engine!Validated
<1>2. \A q \in Engine!StarterRules : Engine!Valid(q)
  BY DEF Engine!StarterRules, Engine!Valid, Engine!AllowedFields, Engine!Operators
<1>3. PICK edited \in {Rules} \cup Engine!Edited(Rules, RuleForms) : rules = Engine!Seeded(edited)
                                                                   \/ rules = edited
  BY DEF RuleSets
<1>4. rules = edited \/ rules = Engine!StarterRules
  BY <1>3 DEF Engine!Seeded
<1> QED BY <1>1, <1>2, <1>4

\* The enabled rules of the two tiers that decide.
Hard(rules) == {r \in rules : r.enabled /\ r.tier \in {"critical", "required"}}

\* What evaluate answers depends on the enabled critical and required rules alone: it
\* blocks exactly if one of them does not match.
LEMMA BlockingIsHard ==
  ASSUME NEW rules, NEW context
  PROVE  Engine!Blocking(rules, context) # {}
           <=> \E r \in Hard(rules) : ~Engine!Matches(r, context)
BY DEF Engine!Blocking, Engine!Failing, Engine!InTier, Engine!Active, Hard

\* A rule more never lets a job through, and a preference rule, or one that is
\* switched off, neither blocks nor lets through.
THEOREM RulesOnlyRestrict ==
  ASSUME NEW rules, NEW more, NEW context
  PROVE  /\ Engine!Blocking(rules, context) # {} => Engine!Blocking(rules \cup more, context) # {}
         /\ Hard(more) \subseteq rules =>
              (Engine!Blocking(rules \cup more, context) = {} <=> Engine!Blocking(rules, context) = {})
<1>1. Hard(rules \cup more) = Hard(rules) \cup Hard(more)
  BY DEF Hard
<1>2. Hard(more) \subseteq rules => Hard(more) \subseteq Hard(rules)
  BY DEF Hard
<1>3. Engine!Blocking(rules \cup more, context) # {}
        <=> \E r \in Hard(rules \cup more) : ~Engine!Matches(r, context)
  BY BlockingIsHard
<1>4. Engine!Blocking(rules, context) # {}
        <=> \E r \in Hard(rules) : ~Engine!Matches(r, context)
  BY BlockingIsHard
<1> QED BY <1>1, <1>2, <1>3, <1>4

\* A comparison Python refuses, because the job lacks the field or has another type
\* there, is a rule that does not match: neither "in" nor "not_in" does then.
LEMMA RefusedComparisons ==
  ASSUME NEW actual, NEW expected
  PROVE  /\ ~Engine!Ordered(actual, expected) =>
              \A op \in {">=", "<=", ">", "<"} : ~Engine!Compare(op, actual, expected)
         /\ ~Engine!Searchable(actual, expected) =>
              ~Engine!Compare("in", actual, expected) /\ ~Engine!Compare("not_in", actual, expected)
         /\ ~Engine!Searchable(expected, actual) => ~Engine!Compare("contains", actual, expected)
BY DEF Engine!Compare

\* matches never raises, so that a hard rule about a field the job lacks blocks it
\* whatever it orders the field by, and a hard "contains" does too.
THEOREM MissingFieldsBlock ==
  ASSUME NEW rules, NEW context, NEW r \in Hard(rules),
         r.field \notin DOMAIN context,
         r.op \in {">=", "<=", ">", "<", "contains"}
  PROVE  Engine!Blocking(rules, context) # {}
<1>1. Engine!Get(context, r.field) = Engine!None
  BY DEF Engine!Get
<1>2. ~Engine!Ordered(Engine!None, r.expected) /\ ~Engine!Searchable(r.expected, Engine!None)
  BY DEF Engine!Ordered, Engine!Searchable, Engine!None
<1>3. ~Engine!Compare(r.op, Engine!None, r.expected)
  BY <1>2, RefusedComparisons
<1>4. ~Engine!Matches(r, context)
  BY <1>1, <1>3 DEF Engine!Matches
<1> QED BY <1>4, BlockingIsHard

\* The rules seed.py leaves where there are none approve a job exactly if it scored
\* at least 70 on a day that has seen at most 50 applications.
THEOREM StarterRulesDecide ==
  ASSUME NEW p \in Postings, NEW v \in Scores, NEW n \in DayCounts
  PROVE  Engine!Blocking(Engine!Seeded({}), Context(p, v, n)) = {} <=> v >= 70 /\ n <= 50
<1> DEFINE c == Context(p, v, n)
           cap == [tier |-> "critical", field |-> "applications_today", op |-> "<=",
                   expected |-> Engine!Num(50), enabled |-> TRUE]
           least == [tier |-> "required", field |-> "ai_score", op |-> ">=",
                     expected |-> Engine!Num(70), enabled |-> TRUE]
<1>1. Engine!Get(c, "ai_score") = Engine!Num(v) /\ Engine!Get(c, "applications_today") = Engine!Num(n)
  BY DEF Context, Engine!Get
<1>2. v \in Nat /\ n \in Nat
  BY NumbersAssumption
<1> HIDE DEF c
<1>3. Engine!Matches(cap, c) <=> n <= 50
  BY <1>1, <1>2 DEF Engine!Matches, Engine!Compare, Engine!Ordered, Engine!Num
<1>4. Engine!Matches(least, c) <=> v >= 70
  BY <1>1, <1>2 DEF Engine!Matches, Engine!Compare, Engine!Ordered, Engine!Num
<1>5. Engine!Seeded({}) = {cap, least}
  BY DEF Engine!Seeded, Engine!StarterRules
<1>6. Hard({cap, least}) = {cap, least}
  BY DEF Hard
<1> HIDE DEF cap, least
<1>7. Engine!Blocking({cap, least}, c) # {}
        <=> \E r \in Hard({cap, least}) : ~Engine!Matches(r, c)
  BY BlockingIsHard
<1> QED BY <1>3, <1>4, <1>5, <1>6, <1>7 DEF c
=============================================================================
