--------------------------- MODULE ApplicationsProofs ---------------------------
(***************************************************************************)
(* Proofs about Applications, for any number of jobs, applications,        *)
(* requests and workers.                                                   *)
(***************************************************************************)
EXTENDS Applications, FiniteSetTheorems, TLAPS

USE DEF Log

\* The local state of an idle request and of an idle worker is well typed.
LEMMA IdleTypes == IdleRequest \in Request /\ IdleTask \in Task
  BY LimitsAssumption DEF IdleRequest, IdleTask, Request, Task

\* A message names an application and a number of attempts.
LEMMA MessageType ==
  /\ \A a \in Apps, n \in 0..MaxTaskRetries : <<a, n>> \in Message
  /\ \A m \in Message : m[1] \in Apps /\ m[2] \in 0..MaxTaskRetries
  BY DEF Message

\* What a busy request or worker holds is a real job or a real row.
LEMMA Held ==
  ASSUME TypeOK, References
  PROVE  /\ \A h \in Handlers :
              /\ req[h] \in Request
              /\ req[h].pc \in Passed \cup {"skip"} => req[h].job \in Jobs
              /\ req[h].pc \in {"retry", "enqueue"} => req[h].app \in Apps
         /\ \A w \in Workers :
              /\ task[w] \in Task
              /\ task[w].pc # "idle" =>
                   task[w].app \in Apps /\ jobOf[task[w].app] \in Jobs
  BY DEF TypeOK, References, Request, Task, Rows

\* Types and references hold initially.
LEMMA ShapeInit == Init => TypeOK /\ References
<1> SUFFICES ASSUME Init PROVE TypeOK /\ References
  OBVIOUS
<1>1. req \in [Handlers -> Request] /\ task \in [Workers -> Task]
  BY IdleTypes DEF Init
<1>2. DOMAIN snapshot \in SUBSET Apps /\ snapshot \in [DOMAIN snapshot -> Nat]
  BY DEF Init, NoSnapshot
<1>3. TypeOK
  BY <1>1, <1>2 DEF Init, TypeOK, ApplicationStatus, JobStatus, Origin
<1>4. References
  BY DEF Init, References, IdleRequest, IdleTask, NoSnapshot, Passed, Inserting
<1> QED
  BY <1>3, <1>4

\* Every step keeps the types.
LEMMA TypeStep ==
  ASSUME TypeOK, References, [Next]_vars
  PROVE  TypeOK'
<1> USE LimitsAssumption, IdleTypes, MessageType, Held
<1> DEFINE ReqType == req' \in [Handlers -> Request]
           TaskType == task' \in [Workers -> Task]
<1>1. ASSUME NEW h \in Handlers, NewRequest(h) PROVE TypeOK'
  <2>1. ASSUME NEW j \in Jobs, NEW pc \in Passed, PassChecks(h, j, pc)
        PROVE  ReqType
    BY <2>1 DEF TypeOK, PassChecks, Request, IdleRequest
  <2>2. ASSUME NEW j \in Jobs, CheckDuplicate(h, j) PROVE TypeOK'
    BY <2>1, <2>2 DEF CheckDuplicate, PassChecks, TypeOK, rowVars, envVars, Passed
  <2>3. ASSUME NEW j \in Jobs, TelegramApply(h, j) PROVE TypeOK'
    BY <2>1, <2>3 DEF TelegramApply, PassChecks, TypeOK, rowVars, envVars, Passed, Inserting
  <2>4. ASSUME NEW j \in Jobs, TelegramSkip(h, j) PROVE TypeOK'
    <3>1. ReqType
      BY <2>4 DEF TelegramSkip, TypeOK, Request, IdleRequest
    <3> QED BY <2>4, <3>1 DEF TelegramSkip, TypeOK, rowVars, envVars
  <2>5. ASSUME NEW a \in Apps, LoadForRetry(h, a) PROVE TypeOK'
    <3>1. ReqType
      BY <2>5 DEF LoadForRetry, LoadIfIn, TypeOK, Request, IdleRequest
    <3> QED BY <2>5, <3>1 DEF LoadForRetry, LoadIfIn, TypeOK, rowVars, envVars
  <2> QED
    BY <1>1, <2>2, <2>3, <2>4, <2>5 DEF NewRequest
<1>2. ASSUME NEW h \in Handlers, RequestStep(h) PROVE TypeOK'
  <2>1. ASSUME RulesApprove(h) PROVE TypeOK'
    <3>1. ReqType
      BY <2>1 DEF RulesApprove, TypeOK, Request, Passed, Inserting
    <3> QED BY <2>1, <3>1 DEF RulesApprove, TypeOK, rowVars, envVars
  <2>2. ASSUME RulesBlock(h) PROVE TypeOK'
    <3>1. ReqType
      BY <2>2 DEF RulesBlock, TypeOK, Request, Passed, Inserting
    <3>2. audit' \in SUBSET AuditEntry
      BY <2>2 DEF RulesBlock, TypeOK, AuditEntry, Passed
    <3> QED BY <2>2, <3>1, <3>2 DEF RulesBlock, TypeOK, rowVars, envVars
  <2>3. ASSUME NEW a \in Apps, NEW j \in Jobs, NEW s \in ApplicationStatus,
               NEW by \in Origin, InsertRow(a, j, s, by)
        PROVE  /\ status' \in [Apps -> ApplicationStatus \cup {"absent"}]
               /\ jobOf' \in [Apps -> Jobs \cup {NoJob}]
               /\ origin' \in [Apps -> Origin]
               /\ cvUsed' = cvUsed /\ retries' = retries /\ requeues' = requeues
    BY <2>3 DEF InsertRow, TypeOK
  <2>4. ASSUME NEW a \in Apps, CreateApproved(h, a) PROVE TypeOK'
    <3>1. ReqType
      BY <2>4 DEF CreateApproved, TypeOK, Request, IdleRequest
    <3>2. audit' \in SUBSET AuditEntry
      BY <2>4 DEF CreateApproved, TypeOK, AuditEntry
    <3> QED
      BY <2>3, <2>4, <3>1, <3>2
         DEF CreateApproved, TypeOK, envVars, ApplicationStatus, Origin, Passed, Inserting
  <2>5. ASSUME NEW a \in Apps, CreateBlocked(h, a) PROVE TypeOK'
    <3>1. audit' \in SUBSET AuditEntry
      BY <2>5 DEF CreateBlocked, TypeOK, AuditEntry
    <3> QED
      BY <2>3, <2>5, <3>1
         DEF CreateBlocked, TypeOK, envVars, ApplicationStatus, Origin, Passed, Inserting
  <2>6. ASSUME NEW a \in Apps, TelegramInsert(h, a) PROVE TypeOK'
    <3>1. jobStatus' \in [Jobs -> JobStatus]
      BY <2>6 DEF TelegramInsert, TypeOK, JobStatus
    <3> QED
      BY <2>3, <2>6, <3>1
         DEF TelegramInsert, TypeOK, envVars, ApplicationStatus, Origin, Passed, Inserting
  <2>7. ASSUME Enqueue(h) PROVE TypeOK'
    BY <2>7 DEF Enqueue, TypeOK, rowVars, envVars
  <2>8. ASSUME CommitRetry(h) PROVE TypeOK'
    <3>1. ReqType
      BY <2>8 DEF CommitRetry, RequeueLoaded, TypeOK, Request
    <3>2. retries' \in [Apps -> Nat] /\ requeues' \in [Apps -> Nat]
      BY <2>8 DEF CommitRetry, RequeueLoaded, TypeOK, Request
    <3> QED
      BY <2>8, <3>1, <3>2 DEF CommitRetry, RequeueLoaded, TypeOK, envVars, ApplicationStatus
  <2>9. ASSUME CommitSkip(h) PROVE TypeOK'
    <3>1. jobStatus' \in [Jobs -> JobStatus]
      BY <2>9 DEF CommitSkip, TypeOK, JobStatus
    <3> QED BY <2>9, <3>1 DEF CommitSkip, TypeOK, rowVars, envVars
  <2> QED
    BY <1>2, <2>1, <2>2, <2>4, <2>5, <2>6, <2>7, <2>8, <2>9 DEF RequestStep
<1>3. ASSUME NEW h \in Handlers, RequestFails(h) PROVE TypeOK'
  BY <1>3 DEF TypeOK, RequestFails, rowVars, envVars
<1>4. ASSUME SweepLoad PROVE TypeOK'
  <2>1. DOMAIN snapshot' \in SUBSET Apps /\ snapshot' \in [DOMAIN snapshot' -> Nat]
    BY <1>4 DEF SweepLoad, SweepUpTo, TypeOK
  <2> QED BY <1>4, <2>1 DEF SweepLoad, SweepUpTo, TypeOK, rowVars, envVars
<1>5. ASSUME SweepCommit PROVE TypeOK'
  <2>1. snapshot' \in [DOMAIN snapshot' -> Nat] /\ DOMAIN snapshot' \in SUBSET Apps
    BY <1>5 DEF SweepCommit, NoSnapshot
  <2>2. /\ status' \in [Apps -> ApplicationStatus \cup {"absent"}]
        /\ retries' \in [Apps -> Nat] /\ requeues' \in [Apps -> Nat]
    BY <1>5 DEF SweepCommit, TypeOK, ApplicationStatus
  <2> QED BY <1>5, <2>1, <2>2 DEF SweepCommit, TypeOK, envVars
<1>6. ASSUME SweepFails PROVE TypeOK'
  <2>1. snapshot' \in [DOMAIN snapshot' -> Nat] /\ DOMAIN snapshot' \in SUBSET Apps
    BY <1>6 DEF SweepFails, NoSnapshot
  <2> QED BY <1>6, <2>1 DEF SweepFails, TypeOK, rowVars, envVars
<1>7. ASSUME NEW w \in Workers, WorkerStep(w) PROVE TypeOK'
  <2>1. ASSUME NEW m \in Message, Deliver(w, m) PROVE TypeOK'
    <3>1. TaskType /\ queue' \in [Message -> Nat]
      BY <2>1 DEF Deliver, TypeOK, Task
    <3> QED BY <2>1, <3>1 DEF Deliver, TypeOK, rowVars, envVars
  <2>2. ASSUME NEW pc \in {"load", "prepare", "dryrun", "success", "failed"}, Goto(w, pc)
        PROVE  TaskType
    BY <2>2 DEF Goto, TypeOK, Task
  <2>3. ASSUME Finish(w) PROVE TaskType
    BY <2>3 DEF Finish, TypeOK
  <2>4. ASSUME GiveUp(w), task[w].pc # "idle" PROVE TypeOK'
    BY <2>3, <2>4 DEF GiveUp, TypeOK, rowVars, envVars
  <2>5. ASSUME NEW s \in ApplicationStatus, SetStatus(w, s), cvUsed' \in [Apps -> BOOLEAN]
        PROVE  TypeOK'
    BY <2>3, <2>5 DEF SetStatus, TypeOK, envVars
  <2>6. ASSUME PassGate(w) \/ LoadQueued(w) \/ StartDryRun(w) PROVE TypeOK'
    BY <2>2, <2>6 DEF PassGate, LoadQueued, StartDryRun, TypeOK, rowVars, envVars
  <2>7. ASSUME SkipAtGate(w) \/ DryRunExhausted(w) PROVE TypeOK'
    BY <2>4, <2>7 DEF SkipAtGate, DryRunExhausted
  <2>8. ASSUME SkipStale(w) PROVE TypeOK'
    BY <2>3, <2>8 DEF SkipStale, TypeOK, rowVars, envVars
  <2>9. ASSUME JobGone(w) \/ NotReady(w) PROVE TypeOK'
    BY <2>5, <2>9 DEF JobGone, NotReady, TypeOK, ApplicationStatus
  <2>10. ASSUME DryRunSettles(w) PROVE TypeOK'
    <3>1. TaskType
      BY <2>2, <2>10 DEF DryRunSettles
    <3>2. audit' \in SUBSET AuditEntry
      BY <2>10 DEF DryRunSettles, TypeOK, AuditEntry
    <3> QED BY <2>10, <3>1, <3>2 DEF DryRunSettles, TypeOK, rowVars, envVars
  <2>11. ASSUME DryRunTransient(w) PROVE TypeOK'
    <3>1. queue' \in [Message -> Nat]
      BY <2>11 DEF DryRunTransient, TypeOK, Task
    <3> QED BY <2>3, <2>11, <3>1 DEF DryRunTransient, TypeOK, rowVars, envVars
  <2>12. ASSUME WriteResult(w) PROVE TypeOK'
    BY <2>5, <2>12 DEF WriteResult, TypeOK, ApplicationStatus
  <2> QED
    BY <1>7, <2>1, <2>6, <2>7, <2>8, <2>9, <2>10, <2>11, <2>12 DEF WorkerStep
<1>8. ASSUME NEW w \in Workers, TaskFails(w) PROVE TypeOK'
  BY <1>8 DEF TypeOK, TaskFails, GiveUp, Finish, rowVars, envVars
<1>9. ASSUME Surroundings PROVE TypeOK'
  <2>1. ASSUME SetPaused \/ SetPlaywright \/ ChangeProfile PROVE TypeOK'
    BY <2>1 DEF SetPaused, SetPlaywright, ChangeProfile, TypeOK, rowVars
  <2>2. ASSUME NEW j \in Jobs, DeleteJob(j) PROVE TypeOK'
    BY <2>2 DEF DeleteJob, TypeOK, JobStatus, rowVars, envVars
  <2>3. ASSUME NEW m \in Message, Redeliver(m) PROVE TypeOK'
    BY <2>3 DEF Redeliver, TypeOK, rowVars, envVars
  <2> QED BY <1>9, <2>1, <2>2, <2>3 DEF Surroundings
<1>10. CASE UNCHANGED vars
  BY <1>10 DEF TypeOK, vars
<1> QED
  BY <1>1, <1>2, <1>3, <1>4, <1>5, <1>6, <1>7, <1>8, <1>9, <1>10 DEF Next

\* A row, once inserted, is never removed, moved to another job or re-attributed.
LEMMA RowsKept ==
  ASSUME TypeOK, References, [Next]_vars
  PROVE  \A a \in Rows : a \in Rows' /\ jobOf'[a] = jobOf[a] /\ origin'[a] = origin[a]
<1> USE Held DEF Rows
<1> DEFINE Kept == \A a \in Rows : a \in Rows' /\ jobOf'[a] = jobOf[a]
                                               /\ origin'[a] = origin[a]
<1>1. ASSUME NEW h \in Handlers, NewRequest(h) \/ RequestFails(h) PROVE Kept
  BY <1>1 DEF NewRequest, CheckDuplicate, TelegramApply, TelegramSkip, LoadForRetry,
              LoadIfIn, PassChecks, RequestFails, rowVars
<1>2. ASSUME NEW h \in Handlers, RequestStep(h) PROVE Kept
  <2>1. ASSUME NEW a \in Apps, NEW j, NEW s, NEW by, InsertRow(a, j, s, by),
               s # "absent"
        PROVE  Kept
    BY <2>1 DEF InsertRow, TypeOK
  <2>2. ASSUME NEW a \in Apps,
               CreateApproved(h, a) \/ CreateBlocked(h, a) \/ TelegramInsert(h, a)
        PROVE  Kept
    BY <2>1, <2>2 DEF CreateApproved, CreateBlocked, TelegramInsert
  <2>3. ASSUME CommitRetry(h) PROVE Kept
    BY <2>3 DEF CommitRetry, RequeueLoaded, TypeOK
  <2>4. ASSUME RulesApprove(h) \/ RulesBlock(h) \/ Enqueue(h) \/ CommitSkip(h) PROVE Kept
    BY <2>4 DEF RulesApprove, RulesBlock, Enqueue, CommitSkip, rowVars
  <2> QED BY <1>2, <2>2, <2>3, <2>4 DEF RequestStep
<1>3. ASSUME SweepLoad \/ SweepCommit \/ SweepFails PROVE Kept
  BY <1>3 DEF SweepLoad, SweepUpTo, SweepCommit, SweepFails, rowVars, TypeOK
<1>4. ASSUME NEW w \in Workers, WorkerStep(w) \/ TaskFails(w) PROVE Kept
  <2>1. ASSUME NEW s, SetStatus(w, s), s # "absent" PROVE Kept
    BY <2>1 DEF SetStatus, TypeOK
  <2>2. ASSUME JobGone(w) \/ NotReady(w) \/ WriteResult(w) PROVE Kept
    BY <2>1, <2>2 DEF JobGone, NotReady, WriteResult
  <2>3. ASSUME UNCHANGED rowVars PROVE Kept
    BY <2>3 DEF rowVars
  <2>4. CASE UNCHANGED rowVars
    BY <2>3, <2>4
  <2> QED
    BY <1>4, <2>2, <2>4
       DEF WorkerStep, TaskFails, Deliver, PassGate, SkipAtGate, LoadQueued, SkipStale,
           StartDryRun, DryRunSettles, DryRunTransient, DryRunExhausted, GiveUp
<1>5. ASSUME Surroundings PROVE Kept
  BY <1>5 DEF Surroundings, SetPaused, SetPlaywright, ChangeProfile, DeleteJob, Redeliver,
              rowVars
<1>6. CASE UNCHANGED vars
  BY <1>6 DEF vars
<1> QED
  BY <1>1, <1>2, <1>3, <1>4, <1>5, <1>6 DEF Next

\* Every step keeps the references in order: a request, a worker, a message or
\* the sweep takes hold of an application only from a row, another request or a
\* message.
LEMMA ReferencesStep ==
  ASSUME TypeOK, References, [Next]_vars
  PROVE  References'
<1> DEFINE RowOK  == \A a \in Apps : (status[a] # "absent" <=> jobOf[a] # NoJob)
                                     /\ (status[a] # "absent" <=> origin[a] # "none")
           ReqOK  == \A h \in Handlers :
                       /\ req[h].pc \in Passed \cup {"skip"} => req[h].job # NoJob
                       /\ req[h].pc \in {"retry", "enqueue"} => req[h].app \in Rows
           TaskOK == \A w \in Workers : task[w].pc # "idle" => task[w].app \in Rows
           MsgOK  == \A m \in Message : queue[m] > 0 => m[1] \in Rows
           SnapOK == DOMAIN snapshot \subseteq Rows
<1>1. \A a \in Rows : a \in Rows'
  BY RowsKept
<1>2. RowOK /\ ReqOK /\ TaskOK /\ MsgOK /\ SnapOK
  BY DEF References
<1>3. /\ UNCHANGED req => ReqOK'
      /\ UNCHANGED task => TaskOK'
      /\ UNCHANGED queue => MsgOK'
      /\ UNCHANGED snapshot => SnapOK'
  BY <1>1, <1>2
<1>4. UNCHANGED <<status, jobOf, origin>> => RowOK'
  BY <1>2
<1> SUFFICES RowOK' /\ ReqOK' /\ TaskOK' /\ MsgOK' /\ SnapOK'
  BY DEF References
<1> USE <1>1, <1>2, <1>3, <1>4, Held, NoJobAssumption
<1> HIDE DEF RowOK, ReqOK, TaskOK, MsgOK, SnapOK
<1> DEFINE Goal == RowOK' /\ ReqOK' /\ TaskOK' /\ MsgOK' /\ SnapOK'
<1>5. ASSUME NEW h \in Handlers, NewRequest(h) PROVE Goal
  <2>1. UNCHANGED <<status, jobOf, origin, task, queue, snapshot>>
    BY <1>5 DEF NewRequest, CheckDuplicate, TelegramApply, TelegramSkip, LoadForRetry,
                LoadIfIn, PassChecks, rowVars
  <2>2. ASSUME NEW j \in Jobs, NEW pc \in Passed, PassChecks(h, j, pc) PROVE ReqOK'
    BY <2>2 DEF PassChecks, TypeOK, IdleRequest, ReqOK, Passed, Inserting
  <2>3. ASSUME NEW j \in Jobs, CheckDuplicate(h, j) \/ TelegramApply(h, j) PROVE ReqOK'
    BY <2>2, <2>3 DEF CheckDuplicate, TelegramApply, Passed, Inserting
  <2>4. ASSUME NEW j \in Jobs, TelegramSkip(h, j) PROVE ReqOK'
    BY <2>4 DEF TelegramSkip, TypeOK, IdleRequest, ReqOK, Passed, Inserting
  <2>5. ASSUME NEW a \in Apps, LoadForRetry(h, a) PROVE ReqOK'
    <3>1. a \in Rows
      BY <2>5 DEF LoadForRetry, LoadIfIn, Rows
    <3> QED
      BY <2>5, <3>1 DEF LoadForRetry, LoadIfIn, TypeOK, IdleRequest, ReqOK, Passed, Inserting
  <2> QED BY <1>5, <2>1, <2>3, <2>4, <2>5 DEF NewRequest
<1>6. ASSUME NEW h \in Handlers, RequestFails(h) PROVE Goal
  <2>1. ReqOK'
    BY <1>6 DEF RequestFails, TypeOK, IdleRequest, ReqOK, Passed, Inserting
  <2> QED BY <1>6, <2>1 DEF RequestFails, rowVars
<1>7. ASSUME NEW h \in Handlers, RequestStep(h) PROVE Goal
  <2>1. ASSUME NEW a \in Apps, NEW j \in Jobs, NEW s \in ApplicationStatus,
               NEW by \in Origin \ {"none"}, InsertRow(a, j, s, by)
        PROVE  RowOK' /\ a \in Rows'
    BY <2>1 DEF InsertRow, TypeOK, RowOK, ApplicationStatus, Rows
  <2>2. ASSUME NEW a \in Apps, CreateApproved(h, a) PROVE Goal
    <3>1. RowOK' /\ a \in Rows'
      BY <2>1, <2>2 DEF CreateApproved, ApplicationStatus, Origin, Passed, Inserting
    <3>2. ReqOK'
      BY <2>2, <3>1 DEF CreateApproved, TypeOK, IdleRequest, ReqOK, Passed, Inserting
    <3> QED BY <2>2, <3>1, <3>2 DEF CreateApproved
  <2>3. ASSUME NEW a \in Apps, CreateBlocked(h, a) \/ TelegramInsert(h, a) PROVE Goal
    <3>1. RowOK'
      BY <2>1, <2>3
         DEF CreateBlocked, TelegramInsert, ApplicationStatus, Origin, Passed, Inserting
    <3>2. ReqOK'
      BY <2>3 DEF CreateBlocked, TelegramInsert, TypeOK, IdleRequest, ReqOK, Passed, Inserting
    <3> QED BY <2>3, <3>1, <3>2 DEF CreateBlocked, TelegramInsert
  <2>4. ASSUME RulesApprove(h) \/ RulesBlock(h) PROVE Goal
    <3>1. ReqOK'
      BY <2>4 DEF RulesApprove, RulesBlock, TypeOK, Request, ReqOK, Passed, Inserting
    <3> QED BY <2>4, <3>1 DEF RulesApprove, RulesBlock, rowVars
  <2>5. ASSUME Enqueue(h) PROVE Goal
    <3>1. ReqOK'
      BY <2>5 DEF Enqueue, TypeOK, IdleRequest, ReqOK, Passed, Inserting
    <3>2. MsgOK'
      BY <2>5, MessageType DEF Enqueue, TypeOK, ReqOK, MsgOK
    <3> QED BY <2>5, <3>1, <3>2 DEF Enqueue, rowVars
  <2>6. ASSUME CommitRetry(h) PROVE Goal
    <3>1. RowOK'
      BY <2>6 DEF CommitRetry, RequeueLoaded, TypeOK, RowOK, ReqOK, Rows
    <3>2. ReqOK'
      BY <2>6 DEF CommitRetry, RequeueLoaded, TypeOK, Request, ReqOK, Passed, Inserting
    <3> QED BY <2>6, <3>1, <3>2 DEF CommitRetry, RequeueLoaded
  <2>7. ASSUME CommitSkip(h) PROVE Goal
    <3>1. ReqOK'
      BY <2>7 DEF CommitSkip, TypeOK, IdleRequest, ReqOK, Passed, Inserting
    <3> QED BY <2>7, <3>1 DEF CommitSkip, rowVars
  <2> QED
    BY <1>7, <2>2, <2>3, <2>4, <2>5, <2>6, <2>7 DEF RequestStep
<1>8. ASSUME SweepLoad \/ SweepFails PROVE Goal
  <2>1. SnapOK'
    BY <1>8 DEF SweepLoad, SweepUpTo, SweepFails, NoSnapshot, SnapOK, Rows, rowVars
  <2> QED BY <1>8, <2>1 DEF SweepLoad, SweepUpTo, SweepFails, rowVars
<1>9. ASSUME SweepCommit PROVE Goal
  <2>1. RowOK'
    BY <1>9 DEF SweepCommit, TypeOK, RowOK, SnapOK, Rows
  <2>2. SnapOK'
    BY <1>9 DEF SweepCommit, NoSnapshot, SnapOK
  <2> QED BY <1>9, <2>1, <2>2 DEF SweepCommit
<1>10. ASSUME NEW w \in Workers, WorkerStep(w) \/ TaskFails(w) PROVE Goal
  <2>1. ASSUME NEW m \in Message, Deliver(w, m) PROVE Goal
    <3>1. TaskOK' /\ MsgOK'
      BY <2>1 DEF Deliver, TypeOK, TaskOK, MsgOK
    <3> QED BY <2>1, <3>1 DEF Deliver, rowVars
  <2>2. ASSUME NEW pc, Goto(w, pc), task[w].pc # "idle" PROVE TaskOK'
    BY <2>2 DEF Goto, TypeOK, Task, TaskOK
  <2>3. ASSUME Finish(w) PROVE TaskOK'
    BY <2>3 DEF Finish, TypeOK, IdleTask, TaskOK
  <2>4. ASSUME NEW s \in ApplicationStatus, SetStatus(w, s), task[w].pc # "idle" PROVE Goal
    <3>1. RowOK'
      BY <2>4 DEF SetStatus, TypeOK, RowOK, TaskOK, Rows, ApplicationStatus
    <3> QED BY <2>3, <2>4, <3>1 DEF SetStatus
  <2>5. ASSUME JobGone(w) \/ NotReady(w) \/ WriteResult(w) PROVE Goal
    BY <2>4, <2>5 DEF JobGone, NotReady, WriteResult, ApplicationStatus
  <2>6. ASSUME PassGate(w) \/ LoadQueued(w) \/ StartDryRun(w) \/ DryRunSettles(w) PROVE Goal
    <3>1. TaskOK'
      BY <2>2, <2>6 DEF PassGate, LoadQueued, StartDryRun, DryRunSettles
    <3> QED BY <2>6, <3>1 DEF PassGate, LoadQueued, StartDryRun, DryRunSettles, rowVars
  <2>7. ASSUME SkipAtGate(w) \/ SkipStale(w) \/ DryRunExhausted(w) \/ TaskFails(w) PROVE Goal
    BY <2>3, <2>7 DEF SkipAtGate, SkipStale, DryRunExhausted, TaskFails, GiveUp, rowVars
  <2>8. ASSUME DryRunTransient(w) PROVE Goal
    <3>1. MsgOK'
      BY <2>8, MessageType DEF DryRunTransient, TypeOK, TaskOK, MsgOK, Task
    <3> QED BY <2>3, <2>8, <3>1 DEF DryRunTransient, rowVars
  <2> QED
    BY <1>10, <2>1, <2>5, <2>6, <2>7, <2>8 DEF WorkerStep
<1>11. ASSUME Surroundings PROVE Goal
  <2>1. ASSUME NEW m \in Message, Redeliver(m) PROVE Goal
    <3>1. MsgOK'
      BY <2>1 DEF Redeliver, TypeOK, MsgOK
    <3> QED BY <2>1, <3>1 DEF Redeliver, rowVars
  <2> QED
    BY <1>11, <2>1 DEF Surroundings, SetPaused, SetPlaywright, ChangeProfile, DeleteJob, rowVars
<1>12. CASE UNCHANGED vars
  BY <1>12 DEF vars
<1> QED
  BY <1>5, <1>6, <1>7, <1>8, <1>9, <1>10, <1>11, <1>12 DEF Next

\* Every variable keeps its type.
THEOREM TypeCorrect == Spec => []TypeOK
<1>1. TypeOK /\ References /\ [Next]_vars => TypeOK' /\ References'
  BY TypeStep, ReferencesStep
<1> QED
  BY ShapeInit, <1>1, PTL DEF Spec

\* Both facts together, for the proofs that follow.
LEMMA ShapeCorrect == Spec => [](TypeOK /\ References)
<1>1. TypeOK /\ References /\ [Next]_vars => TypeOK' /\ References'
  BY TypeStep, ReferencesStep
<1> QED
  BY ShapeInit, <1>1, PTL DEF Spec

\* An application the Rule Engine blocked stays out of everybody's reach.
LEMMA BlockedStep ==
  ASSUME TypeOK, References, BlockedUntouched, [Next]_vars
  PROVE  BlockedUntouched'
<1> DEFINE NoMsg(a)  == \A n \in 0..MaxTaskRetries : queue[<<a, n>>] = 0
           NoTask(a) == \A w \in Workers : task[w].pc # "idle" => task[w].app # a
           NoReq(a)  == \A h \in Handlers :
                          req[h].pc \in {"retry", "enqueue"} => req[h].app # a
           Out(a)    == NoMsg(a) /\ NoTask(a) /\ NoReq(a) /\ a \notin DOMAIN snapshot
           Safe(a)   == status[a] = "REVIEW_REQUIRED" /\ Out(a)
<1> SUFFICES ASSUME NEW a \in Apps, origin'[a] = "blocked"
             PROVE  Safe(a)'
  BY DEF BlockedUntouched
<1>1. CASE a \notin Rows
  <2>1. Out(a)
    BY <1>1, MessageType DEF References, TypeOK
  <2>2. origin[a] = "none"
    BY <1>1 DEF References, Rows
  <2>3. PICK h \in Handlers : CreateBlocked(h, a)
    <3>1. origin' # origin
      BY <2>2
    <3>2. ASSUME NEW h \in Handlers, NEW b \in Apps, NEW j, NEW s, NEW by,
                 InsertRow(b, j, s, by), by = "blocked" => CreateBlocked(h, b)
          PROVE  CreateBlocked(h, a)
      BY <2>2, <3>2 DEF InsertRow, TypeOK
    <3>3. ASSUME NEW h \in Handlers, RequestStep(h) PROVE CreateBlocked(h, a)
      BY <3>1, <3>2, <3>3 DEF RequestStep, CreateApproved, CreateBlocked, TelegramInsert,
         RulesApprove, RulesBlock, Enqueue, CommitRetry, RequeueLoaded, CommitSkip, rowVars
    <3>4. ~(\E h \in Handlers : NewRequest(h) \/ RequestFails(h))
      BY <3>1 DEF NewRequest, CheckDuplicate, TelegramApply, TelegramSkip, LoadForRetry,
                  LoadIfIn, PassChecks, RequestFails, rowVars
    <3>5. ~(SweepLoad \/ SweepCommit \/ SweepFails)
      BY <3>1 DEF SweepLoad, SweepUpTo, SweepCommit, SweepFails, rowVars
    <3>6. ~(\E w \in Workers : WorkerStep(w) \/ TaskFails(w))
      BY <3>1 DEF WorkerStep, TaskFails, Deliver, PassGate, SkipAtGate, LoadQueued, SkipStale,
           StartDryRun, DryRunSettles, DryRunTransient, DryRunExhausted, GiveUp, JobGone,
           NotReady, WriteResult, SetStatus, rowVars
    <3>7. ~Surroundings /\ ~UNCHANGED vars
      BY <3>1 DEF Surroundings, SetPaused, SetPlaywright, ChangeProfile, DeleteJob, Redeliver,
                  rowVars, vars
    <3> QED BY <3>3, <3>4, <3>5, <3>6, <3>7 DEF Next
  <2>4. status'[a] = "REVIEW_REQUIRED"
    BY <2>3 DEF CreateBlocked, InsertRow, TypeOK
  <2>5. NoReq(a)'
    BY <2>1, <2>3 DEF CreateBlocked, TypeOK, IdleRequest
  <2> QED
    BY <2>1, <2>3, <2>4, <2>5 DEF CreateBlocked
<1>2. CASE a \in Rows
  <2>1. Safe(a)
    BY <1>2, RowsKept DEF BlockedUntouched
  <2>2. status[a] = "REVIEW_REQUIRED" /\ NoMsg(a) /\ NoTask(a) /\ NoReq(a)
        /\ a \notin DOMAIN snapshot
    BY <2>1
  <2> USE <2>2, Held
  <2>3. ASSUME NEW h \in Handlers, NewRequest(h) \/ RequestFails(h) PROVE Safe(a)'
    <3>1. ASSUME NEW j \in Jobs, NEW pc \in Passed, PassChecks(h, j, pc) PROVE NoReq(a)'
      BY <3>1 DEF PassChecks, TypeOK, IdleRequest, Passed, Inserting
    <3>2. ASSUME NEW j \in Jobs, CheckDuplicate(h, j) \/ TelegramApply(h, j)
          PROVE  NoReq(a)'
      BY <3>1, <3>2 DEF CheckDuplicate, TelegramApply, Passed, Inserting
    <3>3. ASSUME NEW j \in Jobs, TelegramSkip(h, j) PROVE NoReq(a)'
      BY <3>3 DEF TelegramSkip, TypeOK, IdleRequest
    <3>4. ASSUME NEW b \in Apps, LoadForRetry(h, b) PROVE NoReq(a)'
      <4>1. b # a
        BY <3>4 DEF LoadForRetry, LoadIfIn
      <4> QED BY <3>4, <4>1 DEF LoadForRetry, LoadIfIn, TypeOK, IdleRequest
    <3>5. ASSUME RequestFails(h) PROVE NoReq(a)'
      BY <3>5 DEF RequestFails, TypeOK, IdleRequest
    <3>6. NoReq(a)'
      BY <2>3, <3>2, <3>3, <3>4, <3>5 DEF NewRequest
    <3> QED
      BY <2>3, <3>6 DEF NewRequest, CheckDuplicate, TelegramApply, TelegramSkip, LoadForRetry,
                  LoadIfIn, PassChecks, RequestFails, rowVars
  <2>4. ASSUME NEW h \in Handlers, RequestStep(h) PROVE Safe(a)'
    <3>1. ASSUME NEW b \in Apps,
                 CreateApproved(h, b) \/ CreateBlocked(h, b) \/ TelegramInsert(h, b)
          PROVE  Safe(a)'
      <4>1. b # a
        BY <3>1 DEF CreateApproved, CreateBlocked, TelegramInsert, InsertRow
      <4>2. ASSUME NEW j, NEW s, NEW by, InsertRow(b, j, s, by)
            PROVE  status'[a] = status[a]
        BY <4>1, <4>2 DEF InsertRow, TypeOK
      <4>3. status'[a] = status[a]
        BY <3>1, <4>2 DEF CreateApproved, CreateBlocked, TelegramInsert
      <4>4. NoReq(a)'
        <5>1. CASE CreateApproved(h, b)
          BY <5>1, <4>1 DEF CreateApproved, TypeOK, IdleRequest
        <5>2. CASE CreateBlocked(h, b) \/ TelegramInsert(h, b)
          BY <5>2 DEF CreateBlocked, TelegramInsert, TypeOK, IdleRequest
        <5> QED BY <3>1, <5>1, <5>2
      <4> QED
        BY <3>1, <4>3, <4>4 DEF CreateApproved, CreateBlocked, TelegramInsert
    <3>2. ASSUME RulesApprove(h) \/ RulesBlock(h) \/ CommitSkip(h) PROVE Safe(a)'
      <4>1. NoReq(a)'
        <5>1. CASE RulesApprove(h) \/ RulesBlock(h)
          BY <5>1 DEF RulesApprove, RulesBlock, TypeOK, Request
        <5>2. CASE CommitSkip(h)
          BY <5>2 DEF CommitSkip, TypeOK, IdleRequest
        <5> QED BY <3>2, <5>1, <5>2
      <4> QED BY <3>2, <4>1 DEF RulesApprove, RulesBlock, CommitSkip, rowVars
    <3>3. ASSUME Enqueue(h) PROVE Safe(a)'
      <4>1. NoReq(a)' /\ NoMsg(a)'
        BY <3>3, MessageType DEF Enqueue, TypeOK, IdleRequest
      <4> QED BY <3>3, <4>1 DEF Enqueue, rowVars
    <3>4. ASSUME CommitRetry(h) PROVE Safe(a)'
      <4>1. NoReq(a)' /\ status'[a] = status[a]
        BY <3>4 DEF CommitRetry, RequeueLoaded, TypeOK, Request
      <4> QED BY <3>4, <4>1 DEF CommitRetry, RequeueLoaded
    <3> QED BY <2>4, <3>1, <3>2, <3>3, <3>4 DEF RequestStep
  <2>5. ASSUME SweepLoad \/ SweepCommit \/ SweepFails PROVE Safe(a)'
    BY <2>5 DEF SweepLoad, SweepUpTo, SweepCommit, SweepFails, NoSnapshot, rowVars
  <2>6. ASSUME NEW w \in Workers, WorkerStep(w) \/ TaskFails(w) PROVE Safe(a)'
    <3>1. ASSUME NEW m \in Message, Deliver(w, m) PROVE Safe(a)'
      <4>1. m[1] # a
        BY <3>1, MessageType DEF Deliver, Message
      <4>2. NoTask(a)' /\ NoMsg(a)'
        BY <3>1, <4>1, MessageType DEF Deliver, TypeOK
      <4> QED BY <3>1, <4>2 DEF Deliver, rowVars
    <3>2. ASSUME NEW pc, Goto(w, pc), task[w].pc # "idle" PROVE NoTask(a)'
      BY <3>2 DEF Goto, TypeOK, Task
    <3>3. ASSUME Finish(w) PROVE NoTask(a)'
      BY <3>3 DEF Finish, TypeOK, IdleTask
    <3>4. ASSUME NEW s, SetStatus(w, s), task[w].pc # "idle" PROVE Safe(a)'
      <4>1. status'[a] = status[a]
        BY <3>4 DEF SetStatus, TypeOK
      <4> QED BY <3>3, <3>4, <4>1 DEF SetStatus
    <3>5. ASSUME JobGone(w) \/ NotReady(w) \/ WriteResult(w) PROVE Safe(a)'
      BY <3>4, <3>5 DEF JobGone, NotReady, WriteResult
    <3>6. ASSUME PassGate(w) \/ LoadQueued(w) \/ StartDryRun(w) \/ DryRunSettles(w)
          PROVE  Safe(a)'
      BY <3>2, <3>6 DEF PassGate, LoadQueued, StartDryRun, DryRunSettles, rowVars
    <3>7. ASSUME SkipAtGate(w) \/ SkipStale(w) \/ DryRunExhausted(w) \/ TaskFails(w)
          PROVE  Safe(a)'
      BY <3>3, <3>7 DEF SkipAtGate, SkipStale, DryRunExhausted, TaskFails, GiveUp, rowVars
    <3>8. ASSUME DryRunTransient(w) PROVE Safe(a)'
      <4>1. NoMsg(a)'
        BY <3>8, MessageType DEF DryRunTransient, TypeOK
      <4> QED BY <3>3, <3>8, <4>1 DEF DryRunTransient, rowVars
    <3> QED
      BY <2>6, <3>1, <3>5, <3>6, <3>7, <3>8 DEF WorkerStep
  <2>7. ASSUME Surroundings PROVE Safe(a)'
    <3>1. ASSUME NEW m \in Message, Redeliver(m) PROVE Safe(a)'
      <4>1. NoMsg(a)'
        BY <3>1, MessageType DEF Redeliver, TypeOK, Message
      <4> QED BY <3>1, <4>1 DEF Redeliver, rowVars
    <3> QED
      BY <2>7, <3>1 DEF Surroundings, SetPaused, SetPlaywright, ChangeProfile, DeleteJob,
                        rowVars
  <2>8. CASE UNCHANGED vars
    BY <2>8 DEF vars
  <2> QED
    BY <2>3, <2>4, <2>5, <2>6, <2>7, <2>8 DEF Next
<1> QED
  BY <1>1, <1>2

\* The Rule Engine has the final say over an application it blocked.
THEOREM BlockedIsFinal == Spec => []BlockedStaysForReview
<1>1. Init => BlockedUntouched
  BY DEF Init, BlockedUntouched
<1>2. TypeOK /\ References /\ BlockedUntouched /\ [Next]_vars => BlockedUntouched'
  BY BlockedStep
<1>3. BlockedUntouched => BlockedStaysForReview
  BY DEF BlockedUntouched, BlockedStaysForReview
<1> QED
  BY ShapeCorrect, <1>1, <1>2, <1>3, PTL DEF Spec

(***************************************************************************)
(* Outcomes and their evidence.                                            *)
(***************************************************************************)

\* What the audit log says stays said, a deleted job stays deleted and an attached
\* CV stays attached.
LEMMA EvidenceKept ==
  ASSUME TypeOK, References, [Next]_vars
  PROVE  /\ audit \subseteq audit'
         /\ \A j \in Jobs : jobStatus[j] = "deleted" => jobStatus'[j] = "deleted"
         /\ \A a \in Apps : cvUsed[a] => cvUsed'[a]
<1> DEFINE Kept == /\ audit \subseteq audit'
                   /\ \A j \in Jobs : jobStatus[j] = "deleted" => jobStatus'[j] = "deleted"
                   /\ \A a \in Apps : cvUsed[a] => cvUsed'[a]
<1> USE Held
<1>1. ASSUME NEW h \in Handlers, NewRequest(h) \/ RequestFails(h) PROVE Kept
  BY <1>1 DEF NewRequest, CheckDuplicate, TelegramApply, TelegramSkip, LoadForRetry,
              LoadIfIn, PassChecks, RequestFails, rowVars
<1>2. ASSUME NEW h \in Handlers, RequestStep(h) PROVE Kept
  <2>1. ASSUME NEW a \in Apps, CreateApproved(h, a) \/ CreateBlocked(h, a) PROVE Kept
    BY <2>1 DEF CreateApproved, CreateBlocked, InsertRow
  <2>2. ASSUME NEW a \in Apps, TelegramInsert(h, a) PROVE Kept
    BY <2>2 DEF TelegramInsert, InsertRow, TypeOK
  <2>3. ASSUME CommitSkip(h) PROVE Kept
    BY <2>3 DEF CommitSkip, TypeOK, rowVars
  <2>4. ASSUME RulesApprove(h) \/ RulesBlock(h) \/ Enqueue(h) \/ CommitRetry(h) PROVE Kept
    BY <2>4 DEF RulesApprove, RulesBlock, Enqueue, CommitRetry, RequeueLoaded, rowVars
  <2> QED BY <1>2, <2>1, <2>2, <2>3, <2>4 DEF RequestStep
<1>3. ASSUME SweepLoad \/ SweepCommit \/ SweepFails PROVE Kept
  BY <1>3 DEF SweepLoad, SweepUpTo, SweepCommit, SweepFails, rowVars
<1>4. ASSUME NEW w \in Workers, WorkerStep(w) \/ TaskFails(w) PROVE Kept
  <2>1. ASSUME WriteResult(w) PROVE Kept
    BY <2>1 DEF WriteResult, SetStatus, TypeOK
  <2>2. ASSUME DryRunSettles(w) PROVE Kept
    BY <2>2 DEF DryRunSettles, rowVars
  <2> QED
    BY <1>4, <2>1, <2>2
       DEF WorkerStep, TaskFails, Deliver, PassGate, SkipAtGate, LoadQueued, SkipStale,
           StartDryRun, DryRunTransient, DryRunExhausted, GiveUp, JobGone, NotReady,
           SetStatus, rowVars
<1>5. ASSUME Surroundings PROVE Kept
  BY <1>5 DEF Surroundings, SetPaused, SetPlaywright, ChangeProfile, DeleteJob, Redeliver,
              rowVars, TypeOK
<1>6. CASE UNCHANGED vars
  BY <1>6 DEF vars
<1> QED
  BY <1>1, <1>2, <1>3, <1>4, <1>5, <1>6 DEF Next

\* Only a worker that found the job gone or has a result settles an application.
LEMMA OnlyWorkersSettle ==
  ASSUME TypeOK, References, [Next]_vars, NEW a \in Apps
  PROVE  \/ status'[a] = status[a]
         \/ status'[a] \in {"QUEUED", "REVIEW_REQUIRED"}
         \/ \E w \in Workers : task[w].app = a /\ (JobGone(w) \/ WriteResult(w))
<1> DEFINE Moves == \/ status'[a] = status[a]
                    \/ status'[a] \in {"QUEUED", "REVIEW_REQUIRED"}
                    \/ \E w \in Workers : task[w].app = a /\ (JobGone(w) \/ WriteResult(w))
<1> USE Held
<1>1. ASSUME NEW h \in Handlers, NewRequest(h) \/ RequestFails(h) PROVE Moves
  BY <1>1 DEF NewRequest, CheckDuplicate, TelegramApply, TelegramSkip, LoadForRetry,
              LoadIfIn, PassChecks, RequestFails, rowVars
<1>2. ASSUME NEW h \in Handlers, RequestStep(h) PROVE Moves
  <2>1. ASSUME NEW b \in Apps, NEW j, NEW s \in {"QUEUED", "REVIEW_REQUIRED"}, NEW by,
               InsertRow(b, j, s, by)
        PROVE  status'[a] = status[a] \/ status'[a] \in {"QUEUED", "REVIEW_REQUIRED"}
    BY <2>1 DEF InsertRow, TypeOK
  <2>2. ASSUME NEW b \in Apps,
               CreateApproved(h, b) \/ CreateBlocked(h, b) \/ TelegramInsert(h, b)
        PROVE  status'[a] = status[a] \/ status'[a] \in {"QUEUED", "REVIEW_REQUIRED"}
    BY <2>1, <2>2 DEF CreateApproved, CreateBlocked, TelegramInsert
  <2>3. ASSUME CommitRetry(h)
        PROVE  status'[a] = status[a] \/ status'[a] \in {"QUEUED", "REVIEW_REQUIRED"}
    BY <2>3 DEF CommitRetry, RequeueLoaded, TypeOK
  <2>4. ASSUME RulesApprove(h) \/ RulesBlock(h) \/ Enqueue(h) \/ CommitSkip(h)
        PROVE  status'[a] = status[a]
    BY <2>4 DEF RulesApprove, RulesBlock, Enqueue, CommitSkip, rowVars
  <2> QED BY <1>2, <2>2, <2>3, <2>4 DEF RequestStep
<1>3. ASSUME SweepLoad \/ SweepCommit \/ SweepFails PROVE Moves
  BY <1>3 DEF SweepLoad, SweepUpTo, SweepCommit, SweepFails, rowVars, TypeOK
<1>4. ASSUME NEW w \in Workers, WorkerStep(w) \/ TaskFails(w) PROVE Moves
  <2>1. ASSUME JobGone(w) \/ WriteResult(w) PROVE Moves
    BY <2>1 DEF JobGone, WriteResult, SetStatus, TypeOK
  <2>2. ASSUME NotReady(w)
        PROVE  status'[a] = status[a] \/ status'[a] \in {"QUEUED", "REVIEW_REQUIRED"}
    BY <2>2 DEF NotReady, SetStatus, TypeOK
  <2>3. CASE UNCHANGED status
    BY <2>3
  <2> QED
    BY <1>4, <2>1, <2>2, <2>3
       DEF WorkerStep, TaskFails, Deliver, PassGate, SkipAtGate, LoadQueued, SkipStale,
           StartDryRun, DryRunSettles, DryRunTransient, DryRunExhausted, GiveUp, rowVars
<1>5. ASSUME Surroundings PROVE Moves
  BY <1>5 DEF Surroundings, SetPaused, SetPlaywright, ChangeProfile, DeleteJob, Redeliver,
              rowVars
<1>6. CASE UNCHANGED vars
  BY <1>6 DEF vars
<1> QED
  BY <1>1, <1>2, <1>3, <1>4, <1>5, <1>6 DEF Next

\* Only a dry run that settled gives a worker a result.
LEMMA OnlyDryRunsSettle ==
  ASSUME TypeOK, References, [Next]_vars, NEW w \in Workers, task'[w].pc \in {"success", "failed"}
  PROVE  task'[w] = task[w] \/ DryRunSettles(w)
<1> DEFINE Result == task'[w] = task[w] \/ DryRunSettles(w)
<1>1. CASE UNCHANGED task
  BY <1>1
<1>2. ASSUME NEW v \in Workers, WorkerStep(v) \/ TaskFails(v) PROVE Result
  <2>1. CASE v # w
    <3>1. ASSUME NEW pc, Goto(v, pc) PROVE task'[w] = task[w]
      BY <2>1, <3>1 DEF Goto, TypeOK
    <3>2. ASSUME Finish(v) PROVE task'[w] = task[w]
      BY <2>1, <3>2 DEF Finish, TypeOK
    <3>3. ASSUME NEW m \in Message, Deliver(v, m) PROVE task'[w] = task[w]
      BY <2>1, <3>3 DEF Deliver, TypeOK
    <3> QED
      BY <1>2, <3>1, <3>2, <3>3
         DEF WorkerStep, TaskFails, PassGate, SkipAtGate, LoadQueued, SkipStale,
             StartDryRun, DryRunSettles, DryRunTransient, DryRunExhausted, GiveUp, JobGone,
             NotReady, WriteResult, SetStatus
  <2>2. CASE v = w
    <3>1. ASSUME NEW pc \in {"load", "prepare", "dryrun"}, Goto(w, pc) PROVE FALSE
      BY <3>1 DEF Goto, TypeOK
    <3>2. ASSUME Finish(w) PROVE FALSE
      BY <3>2 DEF Finish, TypeOK, IdleTask
    <3>3. ASSUME NEW m \in Message, Deliver(w, m) PROVE FALSE
      BY <3>3 DEF Deliver, TypeOK
    <3> QED
      BY <1>2, <2>2, <3>1, <3>2, <3>3
         DEF WorkerStep, TaskFails, PassGate, SkipAtGate, LoadQueued, SkipStale,
             StartDryRun, DryRunTransient, DryRunExhausted, GiveUp, JobGone,
             NotReady, WriteResult, SetStatus
  <2> QED BY <2>1, <2>2
<1>3. ASSUME NEW h \in Handlers, NewRequest(h) \/ RequestStep(h) \/ RequestFails(h)
      PROVE  UNCHANGED task
  BY <1>3 DEF NewRequest, CheckDuplicate, TelegramApply, TelegramSkip, LoadForRetry, LoadIfIn,
              PassChecks, RequestFails, RequestStep, CreateApproved, CreateBlocked, TelegramInsert,
              RulesApprove, RulesBlock, Enqueue, CommitRetry, RequeueLoaded, CommitSkip
<1>4. ASSUME SweepLoad \/ SweepCommit \/ SweepFails \/ Surroundings \/ UNCHANGED vars
      PROVE  UNCHANGED task
  BY <1>4 DEF SweepLoad, SweepUpTo, SweepCommit, SweepFails, Surroundings, SetPaused,
              SetPlaywright, ChangeProfile, DeleteJob, Redeliver, vars
<1> QED
  BY <1>1, <1>2, <1>3, <1>4 DEF Next

\* Every step keeps the evidence of an outcome, written or about to be written.
LEMMA EvidenceStep ==
  ASSUME TypeOK, References, OutcomeHasEvidence, EvidencePending, [Next]_vars
  PROVE  OutcomeHasEvidence' /\ EvidencePending'
<1> DEFINE Outcome(a) ==
             /\ status[a] = "PENDING_VERIFICATION" =>
                  cvUsed[a] /\ <<"dry_run_success", jobOf[a]>> \in audit
             /\ status[a] = "FAILED" =>
                  <<"dry_run_failed", jobOf[a]>> \in audit \/ jobStatus[jobOf[a]] = "deleted"
<1>1. ASSUME NEW a \in Apps PROVE Outcome(a)'
  <2>1. CASE status'[a] \in {"QUEUED", "REVIEW_REQUIRED", "absent"}
    BY <2>1
  <2>2. CASE status'[a] = status[a] /\ status[a] # "absent"
    <3>1. a \in Rows /\ jobOf[a] \in Jobs /\ Outcome(a)
      BY <2>2 DEF Rows, References, TypeOK, OutcomeHasEvidence
    <3>2. jobOf'[a] = jobOf[a]
      BY <3>1, RowsKept
    <3> QED BY <2>2, <3>1, <3>2, EvidenceKept
  <2>3. ASSUME NEW w \in Workers, task[w].app = a, JobGone(w) PROVE Outcome(a)'
    <3>1. status'[a] = "FAILED" /\ UNCHANGED <<jobOf, jobStatus>>
            /\ jobStatus[jobOf[a]] = "deleted"
      BY <2>3 DEF JobGone, SetStatus, TypeOK
    <3> QED BY <3>1
  <2>4. ASSUME NEW w \in Workers, task[w].app = a, WriteResult(w) PROVE Outcome(a)'
    <3>1. /\ UNCHANGED <<jobOf, audit>> /\ cvUsed'[a]
          /\ \/ task[w].pc = "success" /\ status'[a] = "PENDING_VERIFICATION"
             \/ task[w].pc = "failed" /\ status'[a] = "FAILED"
      BY <2>4 DEF WriteResult, SetStatus, TypeOK
    <3> QED BY <2>4, <3>1 DEF EvidencePending
  <2> QED
    BY <2>1, <2>2, <2>3, <2>4, OnlyWorkersSettle
<1>2. ASSUME NEW w \in Workers
      PROVE  /\ task'[w].pc = "success" => <<"dry_run_success", jobOf'[task'[w].app]>> \in audit'
             /\ task'[w].pc = "failed" => <<"dry_run_failed", jobOf'[task'[w].app]>> \in audit'
  <2> SUFFICES ASSUME task'[w].pc \in {"success", "failed"}
               PROVE  /\ task'[w].pc = "success" =>
                           <<"dry_run_success", jobOf'[task'[w].app]>> \in audit'
                      /\ task'[w].pc = "failed" =>
                           <<"dry_run_failed", jobOf'[task'[w].app]>> \in audit'
    OBVIOUS
  <2>1. CASE task'[w] = task[w]
    <3>1. task[w].app \in Rows
      BY <2>1 DEF References
    <3> QED BY <2>1, <3>1, RowsKept, EvidenceKept DEF EvidencePending
  <2>2. CASE DryRunSettles(w)
    <3>1. PICK outcome \in {"success", "failed"} :
            /\ Goto(w, outcome)
            /\ audit' = audit \cup {<<IF outcome = "success" THEN "dry_run_success"
                                      ELSE "dry_run_failed", jobOf[task[w].app]>>}
      BY <2>2 DEF DryRunSettles
    <3>2. task'[w].pc = outcome /\ task'[w].app = task[w].app /\ jobOf' = jobOf
      BY <2>2, <3>1 DEF Goto, TypeOK, Task, DryRunSettles, rowVars
    <3> QED BY <3>1, <3>2
  <2> QED BY <2>1, <2>2, OnlyDryRunsSettle
<1> QED
  BY <1>1, <1>2 DEF OutcomeHasEvidence, EvidencePending

\* Whoever crashes and whatever is delivered twice, an outcome that is shown has its
\* dry run in the audit log.
THEOREM OutcomesAreEvidenced == Spec => []OutcomeHasEvidence
<1>1. Init => OutcomeHasEvidence /\ EvidencePending
  BY DEF Init, OutcomeHasEvidence, EvidencePending, IdleTask
<1>2. TypeOK /\ References /\ OutcomeHasEvidence /\ EvidencePending /\ [Next]_vars
        => OutcomeHasEvidence' /\ EvidencePending'
  BY EvidenceStep
<1> QED
  BY ShapeCorrect, <1>1, <1>2, PTL DEF Spec

(***************************************************************************)
(* The retry count.                                                        *)
(***************************************************************************)

Counted == RetryCountNeverOverstates /\ SeenCounts

\* A step that writes no count and loads none keeps the counts.
LEMMA CountsFramed ==
  ASSUME TypeOK, References, Counted, UNCHANGED <<retries, requeues>>,
         snapshot' = snapshot \/ snapshot' = NoSnapshot,
         \A h \in Handlers : req'[h] = req[h] \/ req'[h].pc # "retry"
  PROVE  Counted'
<1>1. RetryCountNeverOverstates'
  BY DEF Counted, RetryCountNeverOverstates
<1>2. \A h \in Handlers : req'[h].pc = "retry" => req'[h].seen <= requeues'[req'[h].app]
  BY DEF Counted, SeenCounts
<1>3. \A a \in DOMAIN snapshot' : snapshot'[a] <= requeues'[a]
  BY DEF Counted, SeenCounts, NoSnapshot
<1> QED BY <1>1, <1>2, <1>3 DEF Counted, SeenCounts

\* Every step keeps the counts, written or loaded, below the true ones.
LEMMA CountsStep ==
  ASSUME TypeOK, References, Counted, [Next]_vars
  PROVE  Counted'
<1> USE Held
<1>1. ASSUME NEW h \in Handlers, NEW a \in Apps, LoadForRetry(h, a) PROVE Counted'
  <2>1. UNCHANGED <<retries, requeues, snapshot>>
    BY <1>1 DEF LoadForRetry, LoadIfIn, rowVars
  <2>2. \A k \in Handlers : req'[k] = req[k] \/ (req'[k].app = a /\ req'[k].seen = retries[a])
    BY <1>1 DEF LoadForRetry, LoadIfIn, TypeOK, IdleRequest
  <2>3. retries[a] <= requeues[a]
    BY DEF Counted, RetryCountNeverOverstates
  <2> QED BY <2>1, <2>2, <2>3 DEF Counted, RetryCountNeverOverstates, SeenCounts
<1>2. ASSUME NEW h \in Handlers, CommitRetry(h) PROVE Counted'
  <2> DEFINE a == req[h].app
  <2>1. /\ a \in Apps /\ req[h].seen \in Nat /\ req[h].seen <= requeues[a]
        /\ requeues[a] \in Nat
    BY <1>2 DEF CommitRetry, RequeueLoaded, TypeOK, Request, Counted, SeenCounts
  <2>2. /\ retries' = [retries EXCEPT ![a] = req[h].seen + 1]
        /\ requeues' = [requeues EXCEPT ![a] = @ + 1]
        /\ snapshot' = snapshot
    BY <1>2 DEF CommitRetry, RequeueLoaded
  <2>3. \A k \in Handlers : req'[k] = req[k] \/ req'[k].pc # "retry"
    BY <1>2 DEF CommitRetry, RequeueLoaded, TypeOK, Request
  <2>4. \A b \in Apps : requeues[b] \in Nat /\ requeues'[b] \in Nat /\ requeues[b] <= requeues'[b]
    BY <2>1, <2>2 DEF TypeOK
  <2>5. RetryCountNeverOverstates'
    BY <2>1, <2>2 DEF TypeOK, Counted, RetryCountNeverOverstates
  <2>6. \A k \in Handlers : req'[k].pc = "retry" => req'[k].seen <= requeues'[req'[k].app]
    <3> SUFFICES ASSUME NEW k \in Handlers, req'[k].pc = "retry"
                 PROVE  req'[k].seen <= requeues'[req'[k].app]
      OBVIOUS
    <3>1. req'[k] = req[k]
      BY <2>3
    <3>2. req[k].seen \in Nat /\ req[k].app \in Apps /\ req[k].seen <= requeues[req[k].app]
      BY <3>1 DEF TypeOK, Request, Counted, SeenCounts
    <3> QED BY <2>4, <3>1, <3>2
  <2>7. \A b \in DOMAIN snapshot' : snapshot'[b] <= requeues'[b]
    <3> SUFFICES ASSUME NEW b \in DOMAIN snapshot PROVE snapshot[b] <= requeues'[b]
      BY <2>2
    <3>1. b \in Apps /\ snapshot[b] \in Nat /\ snapshot[b] <= requeues[b]
      BY DEF TypeOK, Counted, SeenCounts
    <3> QED BY <2>4, <3>1
  <2> QED BY <2>5, <2>6, <2>7 DEF Counted, SeenCounts
<1>3. ASSUME SweepLoad PROVE Counted'
  <2>1. /\ UNCHANGED <<retries, requeues, req>>
        /\ DOMAIN snapshot' \subseteq Apps
        /\ \A a \in DOMAIN snapshot' : snapshot'[a] = retries[a]
    BY <1>3 DEF SweepLoad, SweepUpTo, rowVars
  <2> QED BY <2>1 DEF Counted, RetryCountNeverOverstates, SeenCounts
<1>4. ASSUME SweepCommit PROVE Counted'
  <2>1. /\ req' = req /\ snapshot' = NoSnapshot
        /\ retries' = [a \in Apps |-> IF a \in DOMAIN snapshot THEN snapshot[a] + 1 ELSE retries[a]]
        /\ requeues' = [a \in Apps |-> IF a \in DOMAIN snapshot THEN requeues[a] + 1
                                       ELSE requeues[a]]
    BY <1>4 DEF SweepCommit
  <2>2. \A a \in DOMAIN snapshot : a \in Apps /\ snapshot[a] \in Nat /\ snapshot[a] <= requeues[a]
    BY DEF TypeOK, Counted, SeenCounts
  <2>3. \A a \in Apps : requeues[a] \in Nat /\ requeues'[a] \in Nat /\ requeues[a] <= requeues'[a]
    BY <2>1 DEF TypeOK
  <2>4. RetryCountNeverOverstates'
    BY <2>1, <2>2, <2>3 DEF TypeOK, Counted, RetryCountNeverOverstates
  <2>5. \A k \in Handlers : req'[k].pc = "retry" => req'[k].seen <= requeues'[req'[k].app]
    <3> SUFFICES ASSUME NEW k \in Handlers, req[k].pc = "retry"
                 PROVE  req[k].seen <= requeues'[req[k].app]
      BY <2>1
    <3>1. req[k].seen \in Nat /\ req[k].app \in Apps /\ req[k].seen <= requeues[req[k].app]
      BY DEF TypeOK, Request, Counted, SeenCounts
    <3> QED BY <2>3, <3>1
  <2> QED BY <2>1, <2>4, <2>5 DEF Counted, SeenCounts, NoSnapshot
<1>5. ASSUME UNCHANGED <<retries, requeues, req>>, snapshot' = snapshot \/ snapshot' = NoSnapshot
      PROVE  Counted'
  BY <1>5, CountsFramed
<1>6. ASSUME SweepFails \/ Surroundings \/ UNCHANGED vars PROVE Counted'
  BY <1>5, <1>6 DEF SweepFails, Surroundings, SetPaused, SetPlaywright, ChangeProfile, DeleteJob,
                    Redeliver, rowVars, vars
<1>7. ASSUME NEW w \in Workers, WorkerStep(w) \/ TaskFails(w) PROVE Counted'
  BY <1>5, <1>7
     DEF WorkerStep, TaskFails, Deliver, PassGate, SkipAtGate, LoadQueued, SkipStale,
         StartDryRun, DryRunSettles, DryRunTransient, DryRunExhausted, GiveUp, JobGone, NotReady,
         WriteResult, SetStatus, rowVars
<1>8. ASSUME NEW h \in Handlers, NEW next, next.pc # "retry", req' = [req EXCEPT ![h] = next],
             UNCHANGED <<retries, requeues, snapshot>>
      PROVE  Counted'
  <2>1. \A k \in Handlers : req'[k] = req[k] \/ req'[k].pc # "retry"
    BY <1>8 DEF TypeOK
  <2> QED BY <1>8, <2>1, CountsFramed
<1>9. ASSUME NEW h \in Handlers, RequestFails(h) PROVE Counted'
  BY <1>8, <1>9 DEF RequestFails, IdleRequest, rowVars
<1>10. ASSUME NEW h \in Handlers, NEW j \in Jobs,
              CheckDuplicate(h, j) \/ TelegramApply(h, j) \/ TelegramSkip(h, j)
       PROVE  Counted'
  <2>1. ASSUME NEW pc \in {"evaluate", "telegram"}, PassChecks(h, j, pc) PROVE Counted'
    BY <1>8, <2>1 DEF PassChecks, IdleRequest, rowVars
  <2>2. ASSUME TelegramSkip(h, j) PROVE Counted'
    BY <1>8, <2>2 DEF TelegramSkip, IdleRequest, rowVars
  <2> QED BY <1>10, <2>1, <2>2 DEF CheckDuplicate, TelegramApply
<1>11. ASSUME NEW h \in Handlers, RequestStep(h) PROVE Counted'
  <2>1. ASSUME NEW a \in Apps, CreateApproved(h, a) PROVE Counted'
    BY <1>8, <2>1 DEF CreateApproved, InsertRow, IdleRequest
  <2>2. ASSUME NEW a \in Apps, CreateBlocked(h, a) PROVE Counted'
    BY <1>8, <2>2 DEF CreateBlocked, InsertRow, IdleRequest
  <2>3. ASSUME NEW a \in Apps, TelegramInsert(h, a) PROVE Counted'
    BY <1>8, <2>3 DEF TelegramInsert, InsertRow, IdleRequest
  <2>4. ASSUME Enqueue(h) PROVE Counted'
    BY <1>8, <2>4 DEF Enqueue, IdleRequest, rowVars
  <2>5. ASSUME CommitSkip(h) PROVE Counted'
    BY <1>8, <2>5 DEF CommitSkip, IdleRequest, rowVars
  <2>6. ASSUME RulesApprove(h) \/ RulesBlock(h) PROVE Counted'
    <3>1. \A k \in Handlers : req'[k] = req[k] \/ req'[k].pc # "retry"
      BY <2>6 DEF RulesApprove, RulesBlock, TypeOK, Request
    <3> QED BY <2>6, <3>1, CountsFramed DEF RulesApprove, RulesBlock, rowVars
  <2> QED BY <1>2, <1>11, <2>1, <2>2, <2>3, <2>4, <2>5, <2>6 DEF RequestStep
<1> QED
  BY <1>1, <1>3, <1>4, <1>6, <1>7, <1>9, <1>10, <1>11 DEF Next, NewRequest

\* Retries that race may lose a count, but never invent one.
THEOREM RetriesNeverOverstated == Spec => []RetryCountNeverOverstates
<1>1. Init => Counted
  BY DEF Init, Counted, RetryCountNeverOverstates, SeenCounts, IdleRequest, NoSnapshot
<1>2. TypeOK /\ References /\ Counted /\ [Next]_vars => Counted'
  BY CountsStep
<1>3. Counted => RetryCountNeverOverstates
  BY DEF Counted
<1> QED
  BY ShapeCorrect, <1>1, <1>2, <1>3, PTL DEF Spec

\* Only the sweep itself loads rows to re-queue.
LEMMA OnlySweepLoads ==
  ASSUME [Next]_vars
  PROVE  snapshot' = snapshot \/ snapshot' = NoSnapshot \/ SweepLoad
<1>1. ASSUME NEW h \in Handlers, NewRequest(h) \/ RequestStep(h) \/ RequestFails(h)
      PROVE  snapshot' = snapshot
  BY <1>1 DEF NewRequest, CheckDuplicate, TelegramApply, TelegramSkip, LoadForRetry, LoadIfIn,
              PassChecks, RequestFails, RequestStep, CreateApproved, CreateBlocked, TelegramInsert,
              RulesApprove, RulesBlock, Enqueue, CommitRetry, RequeueLoaded, CommitSkip
<1>2. ASSUME NEW w \in Workers, WorkerStep(w) \/ TaskFails(w) PROVE snapshot' = snapshot
  BY <1>2
     DEF WorkerStep, TaskFails, Deliver, PassGate, SkipAtGate, LoadQueued, SkipStale,
         StartDryRun, DryRunSettles, DryRunTransient, DryRunExhausted, GiveUp, JobGone, NotReady,
         WriteResult, SetStatus
<1>3. ASSUME Surroundings \/ UNCHANGED vars PROVE snapshot' = snapshot
  BY <1>3 DEF Surroundings, SetPaused, SetPlaywright, ChangeProfile, DeleteJob, Redeliver, vars
<1>4. ASSUME SweepCommit \/ SweepFails PROVE snapshot' = NoSnapshot
  BY <1>4 DEF SweepCommit, SweepFails
<1> QED
  BY <1>1, <1>2, <1>3, <1>4 DEF Next

\* Whatever the sweep loaded when, it only takes a count up to the cap; what goes past
\* it is a user's own retry.
LEMMA SweptBelowCap ==
  ASSUME TypeOK, References, [Next]_vars,
         \A a \in DOMAIN snapshot : snapshot[a] < MaxApplicationRetries
  PROVE  \A a \in DOMAIN snapshot' : snapshot'[a] < MaxApplicationRetries
  BY OnlySweepLoads DEF SweepLoad, SweepUpTo, NoSnapshot

\* Only a user's own retry takes a count past the cap.
THEOREM SweepRespectsTheCap == Spec => OnlyUsersExceedTheCap
<1> DEFINE Below == \A a \in DOMAIN snapshot : snapshot[a] < MaxApplicationRetries
           Step == \A a \in Apps :
                     retries'[a] > retries[a] /\ retries'[a] > MaxApplicationRetries =>
                       \E h \in Handlers : req[h].pc = "retry" /\ req'[h].pc = "enqueue"
                                           /\ req[h].app = a
<1>1. Init => Below
  BY DEF Init, NoSnapshot
<1>2. TypeOK /\ References /\ Below /\ [Next]_vars => Below'
  BY SweptBelowCap
<1>3. ASSUME TypeOK, References, Below, [Next]_vars PROVE Step
  <2> USE <1>3, Held, LimitsAssumption
  <2>0. \A a \in Apps : retries[a] \in Nat
    BY DEF TypeOK
  <2>1. CASE UNCHANGED retries
    BY <2>0, <2>1
  <2>2. ASSUME NEW h \in Handlers, CommitRetry(h) PROVE Step
    <3>1. /\ req[h].pc = "retry" /\ req'[h].pc = "enqueue" /\ req[h].app \in Apps
          /\ \A a \in Apps : a # req[h].app => retries'[a] = retries[a]
      BY <2>2 DEF CommitRetry, RequeueLoaded, TypeOK, Request
    <3> QED BY <2>0, <3>1
  <2>3. ASSUME SweepCommit PROVE Step
    <3>1. \A a \in Apps : retries'[a] = retries[a] \/ retries'[a] <= MaxApplicationRetries
      BY <2>3 DEF SweepCommit, TypeOK
    <3>2. \A a \in Apps : retries'[a] \in Nat /\ retries[a] \in Nat
      BY TypeStep, <1>3 DEF TypeOK
    <3> QED BY <3>1, <3>2
  <2>4. ASSUME NEW h \in Handlers, NewRequest(h) \/ RequestFails(h) PROVE UNCHANGED retries
    BY <2>4 DEF NewRequest, CheckDuplicate, TelegramApply, TelegramSkip, LoadForRetry, LoadIfIn,
                PassChecks, RequestFails, rowVars
  <2>5. ASSUME NEW h \in Handlers, RequestStep(h) PROVE CommitRetry(h) \/ UNCHANGED retries
    BY <2>5 DEF RequestStep, CreateApproved, CreateBlocked, TelegramInsert, InsertRow,
                RulesApprove, RulesBlock, Enqueue, CommitSkip, rowVars
  <2>6. ASSUME NEW w \in Workers, WorkerStep(w) \/ TaskFails(w) PROVE UNCHANGED retries
    BY <2>6 DEF WorkerStep, TaskFails, Deliver, PassGate, SkipAtGate, LoadQueued, SkipStale,
           StartDryRun, DryRunSettles, DryRunTransient, DryRunExhausted, GiveUp, JobGone, NotReady,
           WriteResult, SetStatus, rowVars
  <2>7. ASSUME SweepLoad \/ SweepFails \/ Surroundings \/ UNCHANGED vars PROVE UNCHANGED retries
    BY <2>7 DEF SweepLoad, SweepUpTo, SweepFails, Surroundings, SetPaused, SetPlaywright,
                ChangeProfile, DeleteJob, Redeliver, rowVars, vars
  <2> QED BY <1>3, <2>1, <2>2, <2>3, <2>4, <2>5, <2>6, <2>7 DEF Next
<1>4. TypeOK /\ References /\ Below /\ [Next]_vars => [Step]_vars
  BY <1>3
<1> QED
  BY ShapeCorrect, <1>1, <1>2, <1>4, PTL DEF Spec, OnlyUsersExceedTheCap

(***************************************************************************)
(* What overlapping requests can do to the duplicate check and the daily   *)
(* cap, and what can strand a QUEUED application: counting requests and    *)
(* rows.                                                                   *)
(***************************************************************************)

\* The requests of any kind are finitely many, and removing one counts.
LEMMA HandlerSets ==
  /\ Cardinality(Handlers) \in Nat
  /\ \A S \in SUBSET Handlers :
       /\ Cardinality(S) \in Nat /\ Cardinality(S) <= Cardinality(Handlers)
       /\ \A T \in SUBSET S : Cardinality(T) <= Cardinality(S)
       /\ \A h \in S : Cardinality(S \ {h}) = Cardinality(S) - 1
<1>1. IsFiniteSet(Handlers) /\ Cardinality(Handlers) \in Nat
  BY HandlersAssumption, FS_CardinalityType
<1> SUFFICES ASSUME NEW S \in SUBSET Handlers
             PROVE  /\ Cardinality(S) \in Nat /\ Cardinality(S) <= Cardinality(Handlers)
                    /\ \A T \in SUBSET S : Cardinality(T) <= Cardinality(S)
                    /\ \A h \in S : Cardinality(S \ {h}) = Cardinality(S) - 1
  BY <1>1
<1>2. IsFiniteSet(S) /\ Cardinality(S) \in Nat /\ Cardinality(S) <= Cardinality(Handlers)
  BY <1>1, FS_Subset, FS_CardinalityType
<1>3. \A T \in SUBSET S : Cardinality(T) <= Cardinality(S)
  BY <1>2, FS_Subset
<1>4. \A h \in S : Cardinality(S \ {h}) = Cardinality(S) - 1
  BY <1>2, FS_RemoveElement
<1> QED
  BY <1>2, <1>3, <1>4

\* Any set of rows is finite, and a new row counts.
LEMMA RowSets ==
  \A S \in SUBSET Apps :
    /\ Cardinality(S) \in Nat
    /\ \A T \in SUBSET S : Cardinality(T) <= Cardinality(S)
    /\ \A a \in Apps \ S : Cardinality(S \cup {a}) = Cardinality(S) + 1
<1> SUFFICES ASSUME NEW S \in SUBSET Apps
             PROVE  /\ Cardinality(S) \in Nat
                    /\ \A T \in SUBSET S : Cardinality(T) <= Cardinality(S)
                    /\ \A a \in Apps \ S : Cardinality(S \cup {a}) = Cardinality(S) + 1
  OBVIOUS
<1>1. IsFiniteSet(S) /\ Cardinality(S) \in Nat
  BY AppsAssumption, FS_Subset, FS_CardinalityType
<1>2. \A T \in SUBSET S : Cardinality(T) <= Cardinality(S)
  BY <1>1, FS_Subset
<1>3. \A a \in Apps \ S : Cardinality(S \cup {a}) = Cardinality(S) + 1
  BY <1>1, FS_AddElement
<1> QED
  BY <1>1, <1>2, <1>3

\* A request that carries one set's member to the other keeps the total.
LEMMA Transfer ==
  ASSUME NEW S \in SUBSET Apps, NEW a \in Apps \ S,
         NEW T \in SUBSET Handlers, NEW h \in T
  PROVE  Cardinality(S \cup {a}) + Cardinality(T \ {h}) = Cardinality(S) + Cardinality(T)
<1>1. Cardinality(S \cup {a}) = Cardinality(S) + 1 /\ Cardinality(S) \in Nat
  BY RowSets
<1>2. Cardinality(T \ {h}) = Cardinality(T) - 1 /\ Cardinality(T) \in Nat
  BY HandlerSets
<1> QED
  BY <1>1, <1>2

(***************************************************************************)
(* Who writes rows.                                                        *)
(***************************************************************************)

Inserts(h, a) == CreateApproved(h, a) \/ CreateBlocked(h, a) \/ TelegramInsert(h, a)

\* Only the three inserts make a row; every other step leaves jobs and creators alone.
LEMMA OnlyInsertsMakeRows ==
  ASSUME TypeOK, References, [Next]_vars
  PROVE  \/ Rows' = Rows /\ UNCHANGED <<jobOf, origin>>
         \/ \E h \in Handlers, a \in Apps : Inserts(h, a)
<1> DEFINE Same == Rows' = Rows /\ UNCHANGED <<jobOf, origin>>
           Goal == Same \/ \E h \in Handlers, a \in Apps : Inserts(h, a)
<1> USE Held
<1>1. UNCHANGED <<status, jobOf, origin>> => Same
  BY DEF Rows
<1>2. ASSUME NEW h \in Handlers, NewRequest(h) \/ RequestFails(h) PROVE Goal
  BY <1>1, <1>2 DEF NewRequest, CheckDuplicate, TelegramApply, TelegramSkip, LoadForRetry,
              LoadIfIn, PassChecks, RequestFails, rowVars
<1>3. ASSUME NEW h \in Handlers, RequestStep(h) PROVE Goal
  <2>1. ASSUME CommitRetry(h) PROVE Same
    BY <2>1 DEF CommitRetry, RequeueLoaded, TypeOK, Rows, References
  <2>2. ASSUME RulesApprove(h) \/ RulesBlock(h) \/ Enqueue(h) \/ CommitSkip(h) PROVE Same
    BY <1>1, <2>2 DEF RulesApprove, RulesBlock, Enqueue, CommitSkip, rowVars
  <2> QED BY <1>3, <2>1, <2>2 DEF RequestStep, Inserts
<1>4. ASSUME SweepLoad \/ SweepFails PROVE Goal
  BY <1>1, <1>4 DEF SweepLoad, SweepUpTo, SweepFails, rowVars
<1>5. ASSUME SweepCommit PROVE Goal
  BY <1>5 DEF SweepCommit, TypeOK, References, Rows
<1>6. ASSUME NEW w \in Workers, WorkerStep(w) \/ TaskFails(w) PROVE Goal
  <2>1. ASSUME NEW s, SetStatus(w, s), s # "absent", task[w].pc # "idle" PROVE Same
    BY <2>1 DEF SetStatus, TypeOK, References, Rows
  <2>2. ASSUME JobGone(w) \/ NotReady(w) \/ WriteResult(w) PROVE Same
    BY <2>1, <2>2 DEF JobGone, NotReady, WriteResult
  <2>3. CASE UNCHANGED rowVars
    BY <1>1, <2>3 DEF rowVars
  <2> QED
    BY <1>6, <2>2, <2>3
       DEF WorkerStep, TaskFails, Deliver, PassGate, SkipAtGate, LoadQueued, SkipStale,
           StartDryRun, DryRunSettles, DryRunTransient, DryRunExhausted, GiveUp
<1>7. ASSUME Surroundings \/ UNCHANGED vars PROVE Goal
  BY <1>1, <1>7 DEF Surroundings, SetPaused, SetPlaywright, ChangeProfile, DeleteJob, Redeliver,
              rowVars, vars
<1> QED
  BY <1>2, <1>3, <1>4, <1>5, <1>6, <1>7 DEF Next

\* A request is past its checks because it just passed them, or was before.
LEMMA OnlyChecksPass ==
  ASSUME TypeOK, References, [Next]_vars, NEW k \in Handlers, req'[k].pc \in Passed
  PROVE  \/ \E j \in Jobs : CheckDuplicate(k, j) \/ TelegramApply(k, j)
         \/ req[k].pc = "evaluate" /\ req'[k].job = req[k].job
              /\ (req'[k].pc = "approved" => RulesApprove(k))
         \/ req'[k] = req[k]
<1> DEFINE Goal == \/ \E j \in Jobs : CheckDuplicate(k, j) \/ TelegramApply(k, j)
                   \/ req[k].pc = "evaluate" /\ req'[k].job = req[k].job
                        /\ (req'[k].pc = "approved" => RulesApprove(k))
                   \/ req'[k] = req[k]
<1> USE DEF Passed, Inserting
<1>1. UNCHANGED req => Goal
  OBVIOUS
<1>2. ASSUME NEW h \in Handlers, NEW next, req' = [req EXCEPT ![h] = next],
             next.pc \notin Passed
      PROVE  Goal
  BY <1>2 DEF TypeOK
<1>3. ASSUME NEW h \in Handlers, NewRequest(h) PROVE Goal
  <2>1. ASSUME NEW j \in Jobs, CheckDuplicate(h, j) \/ TelegramApply(h, j) PROVE Goal
    <3>1. h = k \/ req'[k] = req[k]
      BY <2>1 DEF CheckDuplicate, TelegramApply, PassChecks, TypeOK
    <3> QED BY <2>1, <3>1
  <2>2. ASSUME NEW j \in Jobs, TelegramSkip(h, j) PROVE Goal
    BY <1>2, <2>2 DEF TelegramSkip, IdleRequest
  <2>3. ASSUME NEW a \in Apps, LoadForRetry(h, a) PROVE Goal
    BY <1>2, <2>3 DEF LoadForRetry, LoadIfIn, IdleRequest
  <2> QED BY <1>3, <2>1, <2>2, <2>3 DEF NewRequest
<1>4. ASSUME NEW h \in Handlers, RequestFails(h) PROVE Goal
  BY <1>2, <1>4 DEF RequestFails, IdleRequest
<1>5. ASSUME NEW h \in Handlers, RequestStep(h) PROVE Goal
  <2>1. ASSUME NEW a \in Apps, CreateApproved(h, a) PROVE Goal
    BY <1>2, <2>1 DEF CreateApproved, IdleRequest
  <2>2. ASSUME NEW a \in Apps, CreateBlocked(h, a) \/ TelegramInsert(h, a) PROVE Goal
    BY <1>2, <2>2 DEF CreateBlocked, TelegramInsert, IdleRequest
  <2>3. ASSUME RulesApprove(h) PROVE Goal
    <3>1. CASE h = k
      BY <2>3, <3>1 DEF RulesApprove, TypeOK, Request
    <3>2. CASE h # k
      BY <2>3, <3>2 DEF RulesApprove, TypeOK
    <3> QED BY <3>1, <3>2
  <2>4. ASSUME RulesBlock(h) PROVE Goal
    <3>1. CASE h = k
      BY <2>4, <3>1 DEF RulesBlock, TypeOK, Request
    <3>2. CASE h # k
      BY <2>4, <3>2 DEF RulesBlock, TypeOK
    <3> QED BY <3>1, <3>2
  <2>5. ASSUME Enqueue(h) \/ CommitSkip(h) PROVE Goal
    BY <1>2, <2>5 DEF Enqueue, CommitSkip, IdleRequest
  <2>6. ASSUME CommitRetry(h) PROVE Goal
    BY <2>6 DEF CommitRetry, RequeueLoaded, TypeOK, Request
  <2> QED BY <1>5, <2>1, <2>2, <2>3, <2>4, <2>5, <2>6 DEF RequestStep
<1>6. ASSUME SweepLoad \/ SweepCommit \/ SweepFails \/ Surroundings \/ UNCHANGED vars
      PROVE  UNCHANGED req
  BY <1>6 DEF SweepLoad, SweepUpTo, SweepCommit, SweepFails, Surroundings, SetPaused,
              SetPlaywright, ChangeProfile, DeleteJob, Redeliver, vars
<1>7. ASSUME NEW w \in Workers, WorkerStep(w) \/ TaskFails(w) PROVE UNCHANGED req
  BY <1>7
     DEF WorkerStep, TaskFails, Deliver, PassGate, SkipAtGate, LoadQueued, SkipStale,
         StartDryRun, DryRunSettles, DryRunTransient, DryRunExhausted, GiveUp, JobGone, NotReady,
         WriteResult, SetStatus
<1> QED
  BY <1>1, <1>3, <1>4, <1>5, <1>6, <1>7 DEF Next

\* The request that inserts is past its checks, lets go, and names the new row's job
\* and creator; nobody else moves.
LEMMA InsertStep ==
  ASSUME TypeOK, References, NEW h \in Handlers, NEW a \in Apps, Inserts(h, a)
  PROVE  /\ a \notin Rows /\ Rows' = Rows \cup {a}
         /\ jobOf' = [jobOf EXCEPT ![a] = req[h].job]
         /\ origin' = [origin EXCEPT ![a] = req[h].pc]
         /\ req[h].pc \in Inserting /\ req'[h].pc \notin Passed
         /\ \A k \in Handlers \ {h} : req'[k] = req[k]
<1>1. /\ req[h].pc \in Inserting /\ req'[h].pc \notin Passed
      /\ \A k \in Handlers \ {h} : req'[k] = req[k]
  <2> USE DEF Passed, Inserting
  <2>1. CASE CreateApproved(h, a)
    BY <2>1 DEF CreateApproved, TypeOK, IdleRequest
  <2>2. CASE CreateBlocked(h, a) \/ TelegramInsert(h, a)
    BY <2>2 DEF CreateBlocked, TelegramInsert, TypeOK, IdleRequest
  <2> QED BY <2>1, <2>2 DEF Inserts
<1>2. PICK s \in {"QUEUED", "REVIEW_REQUIRED"} : InsertRow(a, req[h].job, s, req[h].pc)
  BY DEF Inserts, CreateApproved, CreateBlocked, TelegramInsert
<1>3. a \notin Rows /\ Rows' = Rows \cup {a}
  BY <1>2 DEF InsertRow, Rows, TypeOK
<1>4. jobOf' = [jobOf EXCEPT ![a] = req[h].job] /\ origin' = [origin EXCEPT ![a] = req[h].pc]
  BY <1>2 DEF InsertRow
<1> QED
  BY <1>1, <1>3, <1>4

(***************************************************************************)
(* The duplicate check.                                                    *)
(***************************************************************************)

\* The requests that found no application for job j and may still insert one.
Passing(j) == {h \in Handlers : req[h].pc \in Passed /\ req[h].job = j}

RowsAndRequests ==
  \A j \in Jobs :
    Cardinality(RowsFor(j)) + Cardinality(Passing(j)) <= Cardinality(Handlers)

\* A request joins those past their checks only while the job has no row, and leaves
\* them when it inserts one.
LEMMA RowsAndRequestsStep ==
  ASSUME TypeOK, References, RowsAndRequests, [Next]_vars
  PROVE  RowsAndRequests'
<1> SUFFICES ASSUME NEW j \in Jobs
             PROVE  Cardinality(RowsFor(j)') + Cardinality(Passing(j)') <= Cardinality(Handlers)
  BY DEF RowsAndRequests
<1>1. /\ Passing(j) \in SUBSET Handlers /\ Passing(j)' \in SUBSET Handlers
      /\ RowsFor(j) \in SUBSET Apps /\ RowsFor(j)' \in SUBSET Apps
  BY DEF Passing, RowsFor, Rows
<1>2. /\ Cardinality(Passing(j)) \in Nat /\ Cardinality(Passing(j)') \in Nat
      /\ Cardinality(Passing(j)') <= Cardinality(Handlers)
      /\ Cardinality(RowsFor(j)) \in Nat /\ Cardinality(RowsFor(j)') \in Nat
      /\ Cardinality(Handlers) \in Nat
  BY <1>1, HandlerSets, RowSets
<1>3. Cardinality(RowsFor(j)) + Cardinality(Passing(j)) <= Cardinality(Handlers)
  BY DEF RowsAndRequests
<1>4. ASSUME NEW h \in Handlers, NEW a \in Apps, Inserts(h, a)
      PROVE  Cardinality(RowsFor(j)') + Cardinality(Passing(j)') <= Cardinality(Handlers)
  <2>1. /\ a \notin Rows /\ Rows' = Rows \cup {a}
        /\ jobOf' = [jobOf EXCEPT ![a] = req[h].job]
        /\ req[h].pc \in Inserting /\ req'[h].pc \notin Passed
        /\ \A k \in Handlers \ {h} : req'[k] = req[k]
    BY <1>4, InsertStep
  <2>2. CASE req[h].job = j
    <3>1. RowsFor(j)' = RowsFor(j) \cup {a} /\ a \notin RowsFor(j)
      BY <2>1, <2>2 DEF RowsFor, Rows, TypeOK
    <3>2. Passing(j)' = Passing(j) \ {h} /\ h \in Passing(j)
      BY <2>1, <2>2 DEF Passing, Passed
    <3>3. Cardinality(RowsFor(j) \cup {a}) + Cardinality(Passing(j) \ {h})
            = Cardinality(RowsFor(j)) + Cardinality(Passing(j))
      BY <1>1, <3>1, <3>2, Transfer
    <3> QED BY <1>3, <3>1, <3>2, <3>3
  <2>3. CASE req[h].job # j
    <3>1. RowsFor(j)' = RowsFor(j)
      BY <2>1, <2>3 DEF RowsFor, Rows, TypeOK
    <3>2. Passing(j)' = Passing(j)
      BY <2>1, <2>3 DEF Passing
    <3> QED BY <1>3, <3>1, <3>2
  <2> QED BY <2>2, <2>3
<1>5. CASE Rows' = Rows /\ UNCHANGED <<jobOf, origin>>
  <2>1. RowsFor(j)' = RowsFor(j)
    BY <1>5 DEF RowsFor
  <2>2. ASSUME NEW k \in Handlers, CheckDuplicate(k, j) \/ TelegramApply(k, j)
        PROVE  Cardinality(RowsFor(j)) = 0
    BY <2>2, FS_EmptySet DEF CheckDuplicate, TelegramApply
  <2>3. CASE \E k \in Handlers : CheckDuplicate(k, j) \/ TelegramApply(k, j)
    BY <1>2, <2>1, <2>2, <2>3
  <2>4. CASE ~\E k \in Handlers : CheckDuplicate(k, j) \/ TelegramApply(k, j)
    <3>1. ASSUME NEW k \in Passing(j)' PROVE k \in Passing(j)
      <4>1. k \in Handlers /\ req'[k].pc \in Passed /\ req'[k].job = j
        BY DEF Passing
      <4>2. ASSUME NEW i \in Jobs, CheckDuplicate(k, i) \/ TelegramApply(k, i) PROVE i = j
        BY <4>1, <4>2 DEF CheckDuplicate, TelegramApply, PassChecks, TypeOK, IdleRequest
      <4> QED BY <2>4, <4>1, <4>2, OnlyChecksPass DEF Passing, Passed
    <3>2. Cardinality(Passing(j)') <= Cardinality(Passing(j))
      BY <1>1, <3>1, HandlerSets
    <3> QED BY <1>2, <1>3, <2>1, <3>2
  <2> QED BY <2>3, <2>4
<1> QED
  BY <1>4, <1>5, OnlyInsertsMakeRows

\* A job never gets more applications than there are requests side by side.
THEOREM DuplicatesBounded == Spec => []RowsPerJobBounded
<1>1. Init => RowsAndRequests
  <2> SUFFICES ASSUME Init, NEW j \in Jobs
               PROVE  Cardinality(RowsFor(j)) + Cardinality(Passing(j)) <= Cardinality(Handlers)
    BY DEF RowsAndRequests
  <2>1. RowsFor(j) = {} /\ Passing(j) = {}
    BY DEF Init, RowsFor, Rows, Passing, IdleRequest, Passed, Inserting
  <2> QED BY <2>1, FS_EmptySet, HandlerSets
<1>2. TypeOK /\ References /\ RowsAndRequests /\ [Next]_vars => RowsAndRequests'
  BY RowsAndRequestsStep
<1>3. RowsAndRequests => RowsPerJobBounded
  <2> SUFFICES ASSUME RowsAndRequests, NEW j \in Jobs
               PROVE  Cardinality(RowsFor(j)) <= Cardinality(Handlers)
    BY DEF RowsPerJobBounded
  <2>1. Passing(j) \in SUBSET Handlers /\ RowsFor(j) \in SUBSET Apps
    BY DEF Passing, RowsFor, Rows
  <2>2. Cardinality(Passing(j)) \in Nat /\ Cardinality(RowsFor(j)) \in Nat
        /\ Cardinality(Handlers) \in Nat
    BY <2>1, HandlerSets, RowSets
  <2> QED BY <2>2 DEF RowsAndRequests
<1> QED
  BY ShapeCorrect, <1>1, <1>2, <1>3, PTL DEF Spec

\* One request at a time leaves one application per job: it is requests side by side,
\* not the sweep, the workers or the redeliveries, that the second row needs.
THEOREM NoDuplicateAlone ==
  ASSUME \A h, k \in Handlers : h = k
  PROVE  Spec => []OneApplicationPerJob
<1>1. Cardinality(Handlers) <= 1
  <2>1. CASE Handlers = {}
    BY <2>1, FS_EmptySet
  <2>2. CASE Handlers # {}
    <3>1. PICK h \in Handlers : TRUE
      BY <2>2
    <3>2. Handlers = {h}
      BY <3>1
    <3>3. Cardinality({h}) = 1
      BY FS_Singleton
    <3> QED BY <3>2, <3>3
  <2> QED BY <2>1, <2>2
<1>2. TypeOK /\ RowsPerJobBounded => OneApplicationPerJob
  <2> SUFFICES ASSUME RowsPerJobBounded, NEW j \in Jobs
               PROVE  Cardinality(RowsFor(j)) <= 1
    BY DEF OneApplicationPerJob
  <2>1. RowsFor(j) \in SUBSET Apps
    BY DEF RowsFor, Rows
  <2>2. Cardinality(RowsFor(j)) \in Nat /\ Cardinality(Handlers) \in Nat
    BY <2>1, HandlerSets, RowSets
  <2>3. Cardinality(RowsFor(j)) <= Cardinality(Handlers)
    BY DEF RowsPerJobBounded
  <2> QED BY <1>1, <2>2, <2>3
<1> QED
  BY DuplicatesBounded, TypeCorrect, <1>2, PTL

(***************************************************************************)
(* The daily cap.                                                          *)
(***************************************************************************)

Approved == {a \in Apps : origin[a] = "approved"}
Approving == {h \in Handlers : req[h].pc = "approved"}

ApprovalsAndRequests ==
  Cardinality(Approved) + Cardinality(Approving) <= DailyCap + Cardinality(Handlers)

\* The rules approve while the rows are within the cap; an approved row was a request
\* the rules approved.
LEMMA ApprovalsStep ==
  ASSUME TypeOK, References, ApprovalsAndRequests, [Next]_vars
  PROVE  ApprovalsAndRequests'
<1>1. /\ Approving \in SUBSET Handlers /\ Approving' \in SUBSET Handlers
      /\ Approved \in SUBSET Apps /\ Approved' \in SUBSET Apps /\ Rows \in SUBSET Apps
  BY DEF Approving, Approved, Rows
<1>2. /\ Cardinality(Approving) \in Nat /\ Cardinality(Approving') \in Nat
      /\ Cardinality(Approving') <= Cardinality(Handlers)
      /\ Cardinality(Approved) \in Nat /\ Cardinality(Approved') \in Nat
      /\ Cardinality(Rows) \in Nat
      /\ Cardinality(Handlers) \in Nat /\ DailyCap \in Nat
  BY <1>1, HandlerSets, RowSets, LimitsAssumption
<1>3. Approved \in SUBSET Rows
  BY DEF Approved, References, Rows
<1> SUFFICES Cardinality(Approved') + Cardinality(Approving') <= DailyCap + Cardinality(Handlers)
  BY DEF ApprovalsAndRequests
<1>4. ASSUME NEW h \in Handlers, NEW a \in Apps, Inserts(h, a)
      PROVE  Cardinality(Approved') + Cardinality(Approving') <= DailyCap + Cardinality(Handlers)
  <2>1. /\ a \notin Rows /\ origin' = [origin EXCEPT ![a] = req[h].pc]
        /\ req'[h].pc \notin Passed /\ \A k \in Handlers \ {h} : req'[k] = req[k]
    BY <1>4, InsertStep
  <2>2. a \notin Approved
    BY <1>3, <2>1
  <2>3. CASE req[h].pc = "approved"
    <3>1. Approved' = Approved \cup {a}
      BY <2>1, <2>3 DEF Approved, TypeOK
    <3>2. Approving' = Approving \ {h} /\ h \in Approving
      BY <2>1, <2>3 DEF Approving, Passed, Inserting
    <3>3. Cardinality(Approved \cup {a}) + Cardinality(Approving \ {h})
            = Cardinality(Approved) + Cardinality(Approving)
      BY <1>1, <2>2, <3>2, Transfer
    <3> QED BY <3>1, <3>2, <3>3 DEF ApprovalsAndRequests
  <2>4. CASE req[h].pc # "approved"
    <3>1. Approved' = Approved
      BY <2>1, <2>2, <2>4 DEF Approved, TypeOK
    <3>2. Approving' = Approving
      BY <2>1, <2>4 DEF Approving, Passed, Inserting
    <3> QED BY <3>1, <3>2 DEF ApprovalsAndRequests
  <2> QED BY <2>3, <2>4
<1>5. CASE Rows' = Rows /\ UNCHANGED <<jobOf, origin>>
  <2>1. Approved' = Approved
    BY <1>5 DEF Approved
  <2>2. CASE \E k \in Handlers : RulesApprove(k)
    <3>1. Cardinality(Rows) <= DailyCap
      BY <2>2 DEF RulesApprove
    <3>2. Cardinality(Approved) <= Cardinality(Rows)
      BY <1>1, <1>3, RowSets
    <3> QED BY <1>2, <2>1, <3>1, <3>2
  <2>3. CASE ~\E k \in Handlers : RulesApprove(k)
    <3>1. ASSUME NEW k \in Approving' PROVE k \in Approving
      <4>1. k \in Handlers /\ req'[k].pc = "approved"
        BY DEF Approving
      <4>2. ASSUME NEW j \in Jobs, CheckDuplicate(k, j) \/ TelegramApply(k, j) PROVE FALSE
        BY <4>1, <4>2 DEF CheckDuplicate, TelegramApply, PassChecks, TypeOK, IdleRequest
      <4> QED BY <2>3, <4>1, <4>2, OnlyChecksPass DEF Approving, Passed, Inserting
    <3>2. Cardinality(Approving') <= Cardinality(Approving)
      BY <1>1, <3>1, HandlerSets
    <3> QED BY <1>2, <2>1, <3>2 DEF ApprovalsAndRequests
  <2> QED BY <2>2, <2>3
<1> QED
  BY <1>4, <1>5, OnlyInsertsMakeRows

\* The cap is overshot by one, and by one more for each request that overlaps, at most.
THEOREM CapOvershootBounded == Spec => []ApprovalsBounded
<1>1. Init => ApprovalsAndRequests
  <2> SUFFICES ASSUME Init PROVE ApprovalsAndRequests
    OBVIOUS
  <2>1. Approved = {} /\ Approving = {}
    BY DEF Init, Approved, Approving, IdleRequest
  <2>2. Cardinality(Approved) = 0 /\ Cardinality(Approving) = 0
    BY <2>1, FS_EmptySet
  <2> QED BY <2>2, HandlerSets, LimitsAssumption DEF ApprovalsAndRequests
<1>2. TypeOK /\ References /\ ApprovalsAndRequests /\ [Next]_vars => ApprovalsAndRequests'
  BY ApprovalsStep
<1>3. ApprovalsAndRequests => ApprovalsBounded
  <2>1. Approving \in SUBSET Handlers /\ Approved \in SUBSET Apps
    BY DEF Approving, Approved
  <2>2. Cardinality(Approving) \in Nat /\ Cardinality(Approved) \in Nat
        /\ Cardinality(Handlers) \in Nat /\ DailyCap \in Nat
    BY <2>1, HandlerSets, RowSets, LimitsAssumption
  <2> QED BY <2>2 DEF ApprovalsAndRequests, ApprovalsBounded, Approved
<1> QED
  BY ShapeCorrect, <1>1, <1>2, <1>3, PTL DEF Spec

(***************************************************************************)
(* What strands an application.                                            *)
(***************************************************************************)

Explained(a) == status[a] = "QUEUED" => HasWork(a) \/ a \in dropped

\* Application a loses none of what will drive it.
WorkKept(a) ==
  /\ \A n \in 0..MaxTaskRetries : queue[<<a, n>>] > 0 => queue'[<<a, n>>] > 0
  /\ \A w \in Workers : task[w].pc # "idle" /\ task[w].app = a =>
                          task'[w].pc # "idle" /\ task'[w].app = a
  /\ \A h \in Handlers : req[h].pc = "enqueue" /\ req[h].app = a =>
                           req'[h].pc = "enqueue" /\ req'[h].app = a

LEMMA ExplainedFramed ==
  ASSUME NEW a \in Apps, Explained(a), WorkKept(a), a \in dropped => a \in dropped',
         status'[a] = "QUEUED" => status[a] = "QUEUED"
  PROVE  Explained(a)'
  BY DEF Explained, HasWork, WorkKept

\* A step that leaves the messages alone and only moves one worker on, or takes it
\* from an application that is not a, leaves a what will drive it; so does a step of
\* a request that was not about to send a's message.
LEMMA OneMoves ==
  ASSUME TypeOK, NEW a \in Apps, UNCHANGED queue,
         \/ /\ UNCHANGED req
            /\ \E w \in Workers : \E next :
                 /\ task' = [task EXCEPT ![w] = next]
                 /\ task[w].pc # "idle" /\ task[w].app = a => next.pc # "idle" /\ next.app = a
         \/ /\ UNCHANGED task
            /\ \E h \in Handlers : \E next :
                 /\ req' = [req EXCEPT ![h] = next]
                 /\ req[h].pc = "enqueue" => req[h].app # a
  PROVE  WorkKept(a)
  BY DEF TypeOK, WorkKept

\* Every step explains, or leaves explained, why a QUEUED application waits.
LEMMA ExplainedStep ==
  ASSUME TypeOK, References, [Next]_vars, NEW a \in Apps, Explained(a)
  PROVE  Explained(a)'
<1> USE Held, MessageType
<1>1. ASSUME UNCHANGED <<queue, task, req>>, dropped \subseteq dropped',
             status'[a] = "QUEUED" => status[a] = "QUEUED"
      PROVE  Explained(a)'
  <2>1. WorkKept(a)
    BY <1>1 DEF WorkKept
  <2> QED BY <1>1, <2>1, ExplainedFramed
<1>2. ASSUME NEW h \in Handlers, NewRequest(h) PROVE Explained(a)'
  <2>1. \E next : req' = [req EXCEPT ![h] = next]
    BY <1>2 DEF NewRequest, CheckDuplicate, TelegramApply, TelegramSkip, LoadForRetry,
                LoadIfIn, PassChecks
  <2>2. UNCHANGED <<status, queue, task, dropped>> /\ req[h].pc = "idle"
    BY <1>2 DEF NewRequest, CheckDuplicate, TelegramApply, TelegramSkip, LoadForRetry,
                LoadIfIn, PassChecks, rowVars
  <2>3. WorkKept(a)
    BY <2>1, <2>2, OneMoves
  <2> QED BY <2>2, <2>3, ExplainedFramed
<1>3. ASSUME NEW h \in Handlers, RequestFails(h) PROVE Explained(a)'
  <2>1. UNCHANGED <<status, queue, task>> /\ req' = [req EXCEPT ![h] = IdleRequest]
    BY <1>3 DEF RequestFails, rowVars
  <2>2. CASE req[h].pc = "enqueue" /\ req[h].app = a
    BY <1>3, <2>2 DEF RequestFails, Explained
  <2>3. CASE ~(req[h].pc = "enqueue" /\ req[h].app = a)
    <3>1. WorkKept(a)
      BY <2>1, <2>3, OneMoves
    <3>2. dropped \subseteq dropped'
      BY <1>3 DEF RequestFails
    <3> QED BY <2>1, <3>1, <3>2, ExplainedFramed
  <2> QED BY <2>2, <2>3
<1>4. ASSUME NEW h \in Handlers, RequestStep(h) PROVE Explained(a)'
  <2>1. ASSUME NEW b \in Apps, CreateApproved(h, b) PROVE Explained(a)'
    <3>1. CASE a = b
      <4>1. req'[h].pc = "enqueue" /\ req'[h].app = b
        BY <2>1 DEF CreateApproved, TypeOK, IdleRequest
      <4> QED BY <3>1, <4>1 DEF Explained, HasWork
    <3>2. CASE a # b
      <4>1. status'[a] = status[a] /\ UNCHANGED <<queue, task, dropped>>
        BY <2>1, <3>2 DEF CreateApproved, InsertRow, TypeOK
      <4>2. req[h].pc # "enqueue" /\ \E next : req' = [req EXCEPT ![h] = next]
        BY <2>1 DEF CreateApproved
      <4> QED BY <4>1, <4>2, OneMoves, ExplainedFramed
    <3> QED BY <3>1, <3>2
  <2>2. ASSUME NEW b \in Apps, CreateBlocked(h, b) PROVE Explained(a)'
    <3>1. status'[a] = "QUEUED" => status[a] = "QUEUED"
      BY <2>2 DEF CreateBlocked, InsertRow, TypeOK
    <3>2. UNCHANGED <<queue, task, dropped>> /\ req[h].pc # "enqueue"
            /\ \E next : req' = [req EXCEPT ![h] = next]
      BY <2>2 DEF CreateBlocked
    <3> QED BY <3>1, <3>2, OneMoves, ExplainedFramed
  <2>3. ASSUME NEW b \in Apps, TelegramInsert(h, b) PROVE Explained(a)'
    <3>1. CASE a = b
      BY <2>3, <3>1 DEF TelegramInsert, Explained
    <3>2. CASE a # b
      <4>1. status'[a] = status[a] /\ UNCHANGED <<queue, task>> /\ dropped \subseteq dropped'
        BY <2>3, <3>2 DEF TelegramInsert, InsertRow, TypeOK
      <4>2. req[h].pc # "enqueue" /\ \E next : req' = [req EXCEPT ![h] = next]
        BY <2>3 DEF TelegramInsert
      <4> QED BY <4>1, <4>2, OneMoves, ExplainedFramed
    <3> QED BY <3>1, <3>2
  <2>4. ASSUME Enqueue(h) PROVE Explained(a)'
    <3>1. CASE req[h].app = a
      <4>1. queue'[<<a, 0>>] > 0 /\ 0 \in 0..MaxTaskRetries
        BY <2>4, <3>1, LimitsAssumption DEF Enqueue, TypeOK
      <4> QED BY <4>1 DEF Explained, HasWork
    <3>2. CASE req[h].app # a
      <4>1. UNCHANGED <<status, task>> /\ (a \in dropped => a \in dropped')
        BY <2>4, <3>2 DEF Enqueue, rowVars
      <4>2. \A n \in 0..MaxTaskRetries : queue'[<<a, n>>] = queue[<<a, n>>]
        BY <2>4, <3>2 DEF Enqueue, TypeOK
      <4>3. \A k \in Handlers : req'[k] = req[k] \/ req[k].app # a
        BY <2>4, <3>2 DEF Enqueue, TypeOK
      <4>4. WorkKept(a)
        BY <4>1, <4>2, <4>3 DEF WorkKept
      <4> QED BY <4>1, <4>4, ExplainedFramed
    <3> QED BY <3>1, <3>2
  <2>5. ASSUME CommitRetry(h) PROVE Explained(a)'
    <3>1. CASE req[h].app = a
      <4>1. req'[h].pc = "enqueue" /\ req'[h].app = a
        BY <2>5, <3>1 DEF CommitRetry, RequeueLoaded, TypeOK, Request
      <4> QED BY <4>1 DEF Explained, HasWork
    <3>2. CASE req[h].app # a
      <4>1. status'[a] = status[a] /\ UNCHANGED <<queue, task, dropped>>
        BY <2>5, <3>2 DEF CommitRetry, RequeueLoaded, TypeOK
      <4>2. \E next : req' = [req EXCEPT ![h] = next]
        BY <2>5 DEF CommitRetry, RequeueLoaded
      <4> QED BY <3>2, <4>1, <4>2, OneMoves, ExplainedFramed
    <3> QED BY <3>1, <3>2
  <2>6. ASSUME RulesApprove(h) \/ RulesBlock(h) \/ CommitSkip(h) PROVE Explained(a)'
    <3>1. UNCHANGED <<status, queue, task, dropped>> /\ req[h].pc # "enqueue"
      BY <2>6 DEF RulesApprove, RulesBlock, CommitSkip, rowVars
    <3>2. \E next : req' = [req EXCEPT ![h] = next]
      BY <2>6 DEF RulesApprove, RulesBlock, CommitSkip
    <3> QED BY <3>1, <3>2, OneMoves, ExplainedFramed
  <2> QED BY <1>4, <2>1, <2>2, <2>3, <2>4, <2>5, <2>6 DEF RequestStep
<1>5. ASSUME SweepLoad \/ SweepFails PROVE Explained(a)'
  BY <1>1, <1>5 DEF SweepLoad, SweepUpTo, SweepFails, rowVars
<1>6. ASSUME SweepCommit PROVE Explained(a)'
  <2>1. CASE a \in DOMAIN snapshot
    BY <1>6, <2>1 DEF SweepCommit, Explained
  <2>2. CASE a \notin DOMAIN snapshot
    BY <1>1, <1>6, <2>2 DEF SweepCommit
  <2> QED BY <2>1, <2>2
<1>7. ASSUME NEW w \in Workers, WorkerStep(w) \/ TaskFails(w) PROVE Explained(a)'
  <2>1. ASSUME NEW m \in Message, Deliver(w, m) PROVE Explained(a)'
    <3>1. CASE m[1] = a
      <4>1. task'[w].pc # "idle" /\ task'[w].app = a
        BY <2>1, <3>1 DEF Deliver, TypeOK
      <4> QED BY <4>1 DEF Explained, HasWork
    <3>2. CASE m[1] # a
      <4>1. UNCHANGED <<status, req, dropped>>
        BY <2>1 DEF Deliver, rowVars
      <4>2. \A n \in 0..MaxTaskRetries : queue'[<<a, n>>] = queue[<<a, n>>]
        BY <2>1, <3>2 DEF Deliver, TypeOK
      <4>3. \A v \in Workers : task'[v] = task[v] \/ task[v].pc = "idle"
        BY <2>1 DEF Deliver, TypeOK
      <4>4. WorkKept(a)
        BY <4>1, <4>2, <4>3 DEF WorkKept
      <4> QED BY <4>1, <4>4, ExplainedFramed
    <3> QED BY <3>1, <3>2
  <2>2. ASSUME NEW pc \in {"load", "prepare", "dryrun", "success", "failed"}, Goto(w, pc),
               UNCHANGED <<status, queue, req, dropped>>
        PROVE  Explained(a)'
    <3>1. task' = [task EXCEPT ![w] = [task[w] EXCEPT !.pc = pc]]
      BY <2>2 DEF Goto
    <3>2. [task[w] EXCEPT !.pc = pc].pc = pc /\ [task[w] EXCEPT !.pc = pc].app = task[w].app
      BY DEF TypeOK, Task
    <3> QED BY <2>2, <3>1, <3>2, OneMoves, ExplainedFramed
  <2>3. ASSUME GiveUp(w) PROVE Explained(a)'
    <3>1. CASE task[w].app = a
      BY <2>3, <3>1 DEF GiveUp, Explained
    <3>2. CASE task[w].app # a
      <4>1. UNCHANGED <<status, queue, req>> /\ dropped \subseteq dropped'
        BY <2>3 DEF GiveUp, rowVars
      <4>2. task' = [task EXCEPT ![w] = IdleTask]
        BY <2>3 DEF GiveUp, Finish
      <4> QED BY <3>2, <4>1, <4>2, OneMoves, ExplainedFramed
    <3> QED BY <3>1, <3>2
  <2>4. ASSUME NEW s \in ApplicationStatus \ {"QUEUED"}, SetStatus(w, s), task[w].pc # "idle"
        PROVE  Explained(a)'
    <3>1. CASE task[w].app = a
      <4>1. status'[a] = s
        BY <2>4, <3>1 DEF SetStatus, TypeOK
      <4> QED BY <4>1 DEF Explained
    <3>2. CASE task[w].app # a
      <4>1. status'[a] = status[a] /\ UNCHANGED <<queue, req, dropped>>
        BY <2>4, <3>2 DEF SetStatus, TypeOK
      <4>2. task' = [task EXCEPT ![w] = IdleTask]
        BY <2>4 DEF SetStatus, Finish
      <4> QED BY <3>2, <4>1, <4>2, OneMoves, ExplainedFramed
    <3> QED BY <3>1, <3>2
  <2>5. ASSUME JobGone(w) \/ NotReady(w) \/ WriteResult(w) PROVE Explained(a)'
    BY <2>4, <2>5 DEF JobGone, NotReady, WriteResult, ApplicationStatus
  <2>6. ASSUME PassGate(w) \/ LoadQueued(w) \/ StartDryRun(w) PROVE Explained(a)'
    BY <2>2, <2>6 DEF PassGate, LoadQueued, StartDryRun, rowVars
  <2>7. ASSUME DryRunSettles(w) PROVE Explained(a)'
    BY <2>2, <2>7 DEF DryRunSettles, rowVars
  <2>8. ASSUME SkipAtGate(w) \/ DryRunExhausted(w) \/ TaskFails(w) PROVE Explained(a)'
    BY <2>3, <2>8 DEF SkipAtGate, DryRunExhausted, TaskFails
  <2>9. ASSUME SkipStale(w) PROVE Explained(a)'
    <3>1. UNCHANGED <<status, queue, req, dropped>> /\ status[task[w].app] # "QUEUED"
            /\ task' = [task EXCEPT ![w] = IdleTask]
      BY <2>9 DEF SkipStale, Finish, rowVars
    <3>2. CASE task[w].app = a
      BY <3>1, <3>2 DEF Explained
    <3>3. CASE task[w].app # a
      BY <3>1, <3>3, OneMoves, ExplainedFramed
    <3> QED BY <3>2, <3>3
  <2>10. ASSUME DryRunTransient(w) PROVE Explained(a)'
    <3>1. CASE task[w].app = a
      <4>1. task[w].tries + 1 \in 0..MaxTaskRetries
        BY <2>10, LimitsAssumption DEF DryRunTransient, TypeOK, Task
      <4>2. queue'[<<a, task[w].tries + 1>>] > 0
        BY <2>10, <3>1, <4>1 DEF DryRunTransient, TypeOK
      <4> QED BY <4>1, <4>2 DEF Explained, HasWork
    <3>2. CASE task[w].app # a
      <4>1. UNCHANGED <<status, req, dropped>>
        BY <2>10 DEF DryRunTransient, rowVars
      <4>2. \A n \in 0..MaxTaskRetries : queue'[<<a, n>>] = queue[<<a, n>>]
        BY <2>10, <3>2 DEF DryRunTransient, TypeOK
      <4>3. \A v \in Workers : task'[v] = task[v] \/ task[v].app # a
        BY <2>10, <3>2 DEF DryRunTransient, Finish, TypeOK
      <4>4. WorkKept(a)
        BY <4>1, <4>2, <4>3 DEF WorkKept
      <4> QED BY <4>1, <4>4, ExplainedFramed
    <3> QED BY <3>1, <3>2
  <2> QED
    BY <1>7, <2>1, <2>5, <2>6, <2>7, <2>8, <2>9, <2>10 DEF WorkerStep
<1>8. ASSUME NEW m \in Message, Redeliver(m) PROVE Explained(a)'
  <2>1. UNCHANGED <<status, req, task, dropped>>
          /\ \A n \in 0..MaxTaskRetries : queue[<<a, n>>] > 0 => queue'[<<a, n>>] > 0
    BY <1>8 DEF Redeliver, TypeOK, rowVars
  <2>2. WorkKept(a)
    BY <2>1 DEF WorkKept
  <2> QED BY <2>1, <2>2, ExplainedFramed
<1>9. ASSUME SetPaused \/ SetPlaywright \/ ChangeProfile \/ (\E j \in Jobs : DeleteJob(j))
               \/ UNCHANGED vars
      PROVE  Explained(a)'
  BY <1>1, <1>9 DEF SetPaused, SetPlaywright, ChangeProfile, DeleteJob, rowVars, vars
<1> QED
  BY <1>2, <1>3, <1>4, <1>5, <1>6, <1>7, <1>8, <1>9 DEF Next, Surroundings

\* No interleaving strands an application but the steps that discard its message.
THEOREM StrandingExplained == Spec => []OrphansExplained
<1>1. Init => OrphansExplained
  BY DEF Init, OrphansExplained
<1>2. TypeOK /\ References /\ OrphansExplained /\ [Next]_vars => OrphansExplained'
  <2> SUFFICES ASSUME TypeOK, References, OrphansExplained, [Next]_vars, NEW a \in Apps
               PROVE  Explained(a)'
    BY DEF OrphansExplained, Explained
  <2>1. Explained(a)
    BY DEF OrphansExplained, Explained
  <2> QED BY <2>1, ExplainedStep
<1> QED
  BY ShapeCorrect, <1>1, <1>2, PTL DEF Spec

(***************************************************************************)
(* The lifecycle.                                                          *)
(***************************************************************************)

\* One request at a time, no sweep, and a broker that delivers once.  Crashes, pauses,
\* transient failures and the Telegram buttons are allowed.
OneAtATime ==
  /\ \A h, k \in Handlers : h = k
  /\ "sweep" \notin Operations
  /\ "redeliver" \notin Environment

Busy(w, a)    == task[w].pc # "idle" /\ task[w].app = a
Sending(h, a) == req[h].pc = "enqueue" /\ req[h].app = a
Retrying(h, a) == req[h].pc = "retry" /\ req[h].app = a
Attempts == 0..MaxTaskRetries

\* One message, or one worker, or one request about to send it, has hold of an
\* application, and only while it is QUEUED; who retries it found it FAILED and so it is.
InHand(a) ==
  /\ \A n \in Attempts : queue[<<a, n>>] <= 1
  /\ \A n, k \in Attempts : queue[<<a, n>>] > 0 /\ queue[<<a, k>>] > 0 => n = k
  /\ \A v, w \in Workers : Busy(v, a) /\ Busy(w, a) => v = w
  /\ \A n \in Attempts, w \in Workers : ~(queue[<<a, n>>] > 0 /\ Busy(w, a))
  /\ \A n \in Attempts, h \in Handlers : ~(queue[<<a, n>>] > 0 /\ Sending(h, a))
  /\ \A w \in Workers, h \in Handlers : ~(Busy(w, a) /\ Sending(h, a))
  /\ \A n \in Attempts : queue[<<a, n>>] > 0 => status[a] = "QUEUED"
  /\ \A w \in Workers : Busy(w, a) => status[a] = "QUEUED"
  /\ \A h \in Handlers : Sending(h, a) => status[a] = "QUEUED"
  /\ \A h \in Handlers : Retrying(h, a) => status[a] = "FAILED"

InOneHand == DOMAIN snapshot = {} /\ \A a \in Apps : InHand(a)

\* A step that gives nobody hold of application a leaves it in one hand.
LEMMA InHandFramed ==
  ASSUME NEW a \in Apps, InHand(a), status'[a] = status[a],
         \A n \in Attempts : /\ queue[<<a, n>>] \in Nat /\ queue'[<<a, n>>] \in Nat
                             /\ queue'[<<a, n>>] <= queue[<<a, n>>],
         \A w \in Workers : Busy(w, a)' => Busy(w, a),
         \A h \in Handlers : (Sending(h, a)' => Sending(h, a))
                             /\ (Retrying(h, a)' => Retrying(h, a))
  PROVE  InHand(a)'
<1> DEFINE Q(n) == queue[<<a, n>>]
<1>1. \A n \in Attempts : (queue'[<<a, n>>] > 0 => queue[<<a, n>>] > 0)
        /\ (queue[<<a, n>>] <= 1 => queue'[<<a, n>>] <= 1)
  OBVIOUS
<1> QED BY <1>1 DEF InHand

\* An application nobody has hold of stays so, or is taken by one.
LEMMA InHandAlone ==
  ASSUME NEW a \in Apps,
         \A n \in Attempts : queue'[<<a, n>>] = 0,
         \A w \in Workers : ~Busy(w, a)',
         \A h \in Handlers : ~Retrying(h, a)',
         \A h \in Handlers : Sending(h, a)' => status'[a] = "QUEUED"
  PROVE  InHand(a)'
  BY DEF InHand

\* Every step keeps every application in one hand.
LEMMA InHandStep ==
  ASSUME OneAtATime, TypeOK, References, InOneHand, [Next]_vars, NEW a \in Apps
  PROVE  InHand(a)'
<1> USE Held, MessageType DEF Attempts
<1>0. InHand(a) /\ \A n \in Attempts : queue[<<a, n>>] \in Nat
  BY DEF InOneHand, TypeOK
<1>1. ASSUME UNCHANGED <<queue, task, req>>, status'[a] = status[a] PROVE InHand(a)'
  BY <1>0, <1>1, InHandFramed DEF Busy, Sending, Retrying
<1>2. ASSUME NEW h \in Handlers, NEW next, req' = [req EXCEPT ![h] = next],
             next.pc \notin {"enqueue", "retry"} \/ next.app # a,
             UNCHANGED <<queue, task>>, status'[a] = status[a]
      PROVE  InHand(a)'
  <2>1. \A k \in Handlers : (Sending(k, a)' => Sending(k, a))
                            /\ (Retrying(k, a)' => Retrying(k, a))
    BY <1>2 DEF Sending, Retrying, TypeOK
  <2> QED BY <1>0, <1>2, <2>1, InHandFramed DEF Busy
<1>3. ASSUME a \notin Rows
      PROVE  /\ \A n \in Attempts : queue[<<a, n>>] = 0
             /\ \A w \in Workers : ~Busy(w, a)
             /\ \A h \in Handlers : ~Sending(h, a) /\ ~Retrying(h, a)
  BY <1>0, <1>3 DEF References, Busy, Sending, Retrying
<1>4. ASSUME NEW h \in Handlers, NewRequest(h) PROVE InHand(a)'
  <2>1. ASSUME NEW j \in Jobs, NEW pc \in {"evaluate", "telegram"}, PassChecks(h, j, pc)
        PROVE  InHand(a)'
    BY <1>2, <2>1 DEF PassChecks, IdleRequest, rowVars
  <2>2. ASSUME NEW j \in Jobs, CheckDuplicate(h, j) \/ TelegramApply(h, j) PROVE InHand(a)'
    BY <2>1, <2>2 DEF CheckDuplicate, TelegramApply
  <2>3. ASSUME NEW j \in Jobs, TelegramSkip(h, j) PROVE InHand(a)'
    BY <1>2, <2>3 DEF TelegramSkip, IdleRequest, rowVars
  <2>4. ASSUME NEW b \in Apps, LoadForRetry(h, b) PROVE InHand(a)'
    <3>1. CASE a # b
      BY <1>2, <2>4, <3>1 DEF LoadForRetry, LoadIfIn, IdleRequest, rowVars
    <3>2. CASE a = b
      <4>1. status'[a] = "FAILED" /\ status[a] = "FAILED" /\ UNCHANGED <<queue, task>>
        BY <2>4, <3>2 DEF LoadForRetry, LoadIfIn, rowVars
      <4>2. \A k \in Handlers : ~Sending(k, a)'
        BY <2>4, OneAtATime DEF LoadForRetry, LoadIfIn, OneAtATime, Sending, TypeOK, IdleRequest
      <4>3. \A n \in Attempts : ~(queue[<<a, n>>] > 0)
        BY <1>0, <4>1 DEF InHand
      <4>4. \A w \in Workers : ~Busy(w, a)
        BY <1>0, <4>1 DEF InHand
      <4> QED BY <1>0, <4>1, <4>2, <4>3, <4>4 DEF InHand, Busy
    <3> QED BY <3>1, <3>2
  <2> QED BY <1>4, <2>2, <2>3, <2>4 DEF NewRequest
<1>5. ASSUME NEW h \in Handlers, RequestFails(h) PROVE InHand(a)'
  BY <1>2, <1>5 DEF RequestFails, IdleRequest, rowVars
<1>6. ASSUME NEW h \in Handlers, RequestStep(h) PROVE InHand(a)'
  <2>1. ASSUME NEW b \in Apps, CreateApproved(h, b) PROVE InHand(a)'
    <3>1. CASE a # b
      <4>1. status'[a] = status[a]
        BY <2>1, <3>1 DEF CreateApproved, InsertRow, TypeOK
      <4> QED BY <1>2, <2>1, <3>1, <4>1 DEF CreateApproved, IdleRequest
    <3>2. CASE a = b
      <4>1. a \notin Rows /\ status'[a] = "QUEUED"
        BY <2>1, <3>2 DEF CreateApproved, InsertRow, TypeOK, Rows
      <4>2. \A k \in Handlers : ~Retrying(k, a)'
        BY <2>1 DEF CreateApproved, OneAtATime, Retrying, TypeOK, IdleRequest
      <4>3. UNCHANGED <<queue, task>>
        BY <2>1 DEF CreateApproved
      <4> QED BY <1>3, <4>1, <4>2, <4>3, InHandAlone DEF Busy
    <3> QED BY <3>1, <3>2
  <2>2. ASSUME NEW b \in Apps, CreateBlocked(h, b) \/ TelegramInsert(h, b) PROVE InHand(a)'
    <3>1. req' = [req EXCEPT ![h] = IdleRequest] /\ UNCHANGED <<queue, task>>
      BY <2>2 DEF CreateBlocked, TelegramInsert
    <3>2. CASE a # b
      <4>1. status'[a] = status[a]
        BY <2>2, <3>2 DEF CreateBlocked, TelegramInsert, InsertRow, TypeOK
      <4> QED BY <1>2, <3>1, <4>1 DEF IdleRequest
    <3>3. CASE a = b
      <4>1. a \notin Rows
        BY <2>2, <3>3 DEF CreateBlocked, TelegramInsert, InsertRow, Rows
      <4>2. \A k \in Handlers : ~Retrying(k, a)' /\ ~Sending(k, a)'
        BY <3>1 DEF OneAtATime, Retrying, Sending, TypeOK, IdleRequest
      <4> QED BY <1>3, <3>1, <4>1, <4>2, InHandAlone DEF Busy
    <3> QED BY <3>2, <3>3
  <2>3. ASSUME Enqueue(h) PROVE InHand(a)'
    <3>1. req' = [req EXCEPT ![h] = IdleRequest] /\ UNCHANGED <<status, task>>
      BY <2>3 DEF Enqueue, rowVars
    <3>2. \A k \in Handlers : ~Retrying(k, a)' /\ ~Sending(k, a)'
      BY <3>1 DEF OneAtATime, Retrying, Sending, TypeOK, IdleRequest
    <3>3. CASE req[h].app = a
      <4>1. Sending(h, a) /\ status[a] = "QUEUED"
        BY <1>0, <2>3, <3>3 DEF Enqueue, Sending, InHand
      <4>2. \A n \in Attempts : ~(queue[<<a, n>>] > 0)
        BY <1>0, <4>1 DEF InHand
      <4>3. \A w \in Workers : ~Busy(w, a)
        BY <1>0, <4>1 DEF InHand
      <4>4. \A n \in Attempts : queue'[<<a, n>>] = IF n = 0 THEN 1 ELSE 0
        BY <1>0, <2>3, <3>3, <4>2 DEF Enqueue, TypeOK
      <4>5. \A n \in Attempts : queue'[<<a, n>>] > 0 => n = 0
        BY <4>4
      <4>6. \A n \in Attempts : queue'[<<a, n>>] <= 1
        BY <4>4
      <4> QED BY <3>1, <3>2, <4>1, <4>3, <4>5, <4>6 DEF InHand, Busy
    <3>4. CASE req[h].app # a
      <4>1. \A n \in Attempts : queue'[<<a, n>>] = queue[<<a, n>>]
        BY <2>3, <3>4 DEF Enqueue, TypeOK
      <4> QED BY <1>0, <3>1, <3>2, <4>1, InHandFramed DEF Busy
    <3> QED BY <3>3, <3>4
  <2>4. ASSUME CommitRetry(h) PROVE InHand(a)'
    <3>1. req' = [req EXCEPT ![h] = [req[h] EXCEPT !.pc = "enqueue"]]
            /\ UNCHANGED <<queue, task>>
      BY <2>4 DEF CommitRetry, RequeueLoaded
    <3>2. [req[h] EXCEPT !.pc = "enqueue"].app = req[h].app
            /\ [req[h] EXCEPT !.pc = "enqueue"].pc = "enqueue"
      BY DEF Request
    <3>3. CASE req[h].app = a
      <4>1. Retrying(h, a) /\ status[a] = "FAILED" /\ status'[a] = "QUEUED"
        BY <1>0, <2>4, <3>3 DEF CommitRetry, RequeueLoaded, Retrying, InHand, TypeOK
      <4>2. \A n \in Attempts : ~(queue[<<a, n>>] > 0)
        BY <1>0, <4>1 DEF InHand
      <4>3. \A w \in Workers : ~Busy(w, a)
        BY <1>0, <4>1 DEF InHand
      <4>4. \A k \in Handlers : ~Retrying(k, a)'
        BY <3>1, <3>2 DEF OneAtATime, Retrying, TypeOK
      <4>5. \A n \in Attempts : queue'[<<a, n>>] = 0
        BY <1>0, <3>1, <4>2
      <4> QED BY <3>1, <4>1, <4>3, <4>4, <4>5, InHandAlone DEF Busy
    <3>4. CASE req[h].app # a
      <4>1. status'[a] = status[a]
        BY <2>4, <3>4 DEF CommitRetry, RequeueLoaded, TypeOK
      <4> QED BY <1>2, <3>1, <3>2, <3>4, <4>1
    <3> QED BY <3>3, <3>4
  <2>5. ASSUME CommitSkip(h) PROVE InHand(a)'
    BY <1>2, <2>5 DEF CommitSkip, IdleRequest, rowVars
  <2>6. ASSUME RulesApprove(h) \/ RulesBlock(h) PROVE InHand(a)'
    <3>1. PICK pc \in {"approved", "blocked"} : req' = [req EXCEPT ![h] = [req[h] EXCEPT !.pc = pc]]
      BY <2>6 DEF RulesApprove, RulesBlock
    <3>2. [req[h] EXCEPT !.pc = pc].pc = pc
      BY DEF Request
    <3> QED BY <1>2, <2>6, <3>1, <3>2 DEF RulesApprove, RulesBlock, rowVars
  <2> QED BY <1>6, <2>1, <2>2, <2>3, <2>4, <2>5, <2>6 DEF RequestStep
<1>7. ASSUME SweepLoad \/ SweepCommit \/ SweepFails PROVE InHand(a)'
  BY <1>1, <1>7 DEF SweepLoad, SweepUpTo, SweepCommit, SweepFails, rowVars, OneAtATime, InOneHand
<1>8. ASSUME NEW w \in Workers, WorkerStep(w) \/ TaskFails(w) PROVE InHand(a)'
  <2>1. ASSUME NEW m \in Message, Deliver(w, m) PROVE InHand(a)'
    <3>1. UNCHANGED <<status, req>> /\ queue[m] > 0
            /\ task' = [task EXCEPT ![w] = [pc |-> "gate", app |-> m[1], tries |-> m[2]]]
            /\ queue' = [queue EXCEPT ![m] = @ - 1]
      BY <2>1 DEF Deliver, rowVars
    <3>2. m = <<m[1], m[2]>> /\ m[1] \in Apps /\ m[2] \in Attempts
      BY DEF Message
    <3>3. CASE m[1] = a
      <4>1. /\ status[a] = "QUEUED" /\ queue[<<a, m[2]>>] = 1
            /\ \A n \in Attempts : queue[<<a, n>>] > 0 => n = m[2]
            /\ \A v \in Workers : ~Busy(v, a)
            /\ \A h \in Handlers : ~Sending(h, a) /\ ~Retrying(h, a)
        <5>1. queue[<<a, m[2]>>] > 0
          BY <3>1, <3>2, <3>3
        <5>2. status[a] = "QUEUED" /\ queue[<<a, m[2]>>] <= 1
          BY <1>0, <3>2, <5>1 DEF InHand
        <5>3. \A n \in Attempts : queue[<<a, n>>] > 0 => n = m[2]
          BY <1>0, <3>2, <5>1 DEF InHand
        <5>4. \A v \in Workers : ~Busy(v, a)
          BY <1>0, <3>2, <5>1 DEF InHand
        <5>5. \A h \in Handlers : ~Sending(h, a) /\ ~Retrying(h, a)
          BY <1>0, <3>2, <5>1, <5>2 DEF InHand
        <5>6. queue[<<a, m[2]>>] = 1
          BY <1>0, <3>2, <5>1, <5>2
        <5> QED BY <5>2, <5>3, <5>4, <5>5, <5>6
      <4>2. \A n \in Attempts : queue'[<<a, n>>] = 0
        BY <1>0, <3>1, <3>2, <3>3, <4>1 DEF TypeOK
      <4>3. \A v \in Workers : Busy(v, a)' => v = w
        BY <3>1, <4>1 DEF Busy, TypeOK
      <4>4. \A h \in Handlers : ~Sending(h, a)' /\ ~Retrying(h, a)'
        BY <3>1, <4>1 DEF Sending, Retrying
      <4> QED BY <3>1, <4>1, <4>2, <4>3, <4>4 DEF InHand
    <3>4. CASE m[1] # a
      <4>1. \A n \in Attempts : queue'[<<a, n>>] = queue[<<a, n>>]
        BY <3>1, <3>2, <3>4 DEF TypeOK
      <4>2. \A v \in Workers : Busy(v, a)' => Busy(v, a)
        BY <3>1, <3>4 DEF Busy, TypeOK
      <4> QED BY <1>0, <3>1, <4>1, <4>2, InHandFramed DEF Sending, Retrying
    <3> QED BY <3>3, <3>4
  <2>2. ASSUME Finish(w), UNCHANGED <<queue, req>>, status'[a] = status[a] PROVE InHand(a)'
    <3>1. \A v \in Workers : Busy(v, a)' => Busy(v, a)
      BY <2>2 DEF Finish, Busy, TypeOK, IdleTask
    <3> QED BY <1>0, <2>2, <3>1, InHandFramed DEF Sending, Retrying
  <2>3. ASSUME NEW pc, Goto(w, pc), task[w].pc # "idle", UNCHANGED <<status, queue, req>>
        PROVE  InHand(a)'
    <3>1. \A v \in Workers : Busy(v, a)' => Busy(v, a)
      BY <2>3 DEF Goto, Busy, TypeOK, Task
    <3> QED BY <1>0, <2>3, <3>1, InHandFramed DEF Sending, Retrying
  <2>4. ASSUME NEW s \in ApplicationStatus, SetStatus(w, s), task[w].pc # "idle"
        PROVE  InHand(a)'
    <3>1. Finish(w) /\ UNCHANGED <<queue, req>>
      BY <2>4 DEF SetStatus
    <3>2. CASE task[w].app # a
      <4>1. status'[a] = status[a]
        BY <2>4, <3>2 DEF SetStatus, TypeOK
      <4> QED BY <2>2, <3>1, <4>1
    <3>3. CASE task[w].app = a
      <4>1. Busy(w, a)
        BY <2>4, <3>3 DEF Busy
      <4>2. \A v \in Workers : ~Busy(v, a)'
        BY <1>0, <3>1, <4>1 DEF InHand, Finish, Busy, TypeOK, IdleTask
      <4>3. \A n \in Attempts : ~(queue[<<a, n>>] > 0)
        BY <1>0, <4>1 DEF InHand
      <4>4. \A h \in Handlers : ~Sending(h, a) /\ ~Retrying(h, a)
        BY <1>0, <4>1 DEF InHand
      <4>5. \A n \in Attempts : queue'[<<a, n>>] = 0
        BY <1>0, <3>1, <4>3
      <4>6. \A h \in Handlers : ~Sending(h, a)' /\ ~Retrying(h, a)'
        BY <3>1, <4>4 DEF Sending, Retrying
      <4> QED BY <4>2, <4>5, <4>6, InHandAlone
    <3> QED BY <3>2, <3>3
  <2>5. ASSUME JobGone(w) \/ NotReady(w) \/ WriteResult(w) PROVE InHand(a)'
    BY <2>4, <2>5 DEF JobGone, NotReady, WriteResult, ApplicationStatus
  <2>6. ASSUME PassGate(w) \/ LoadQueued(w) \/ StartDryRun(w) PROVE InHand(a)'
    BY <2>3, <2>6 DEF PassGate, LoadQueued, StartDryRun, rowVars
  <2>7. ASSUME DryRunSettles(w) PROVE InHand(a)'
    BY <2>3, <2>7 DEF DryRunSettles, rowVars
  <2>8. ASSUME SkipAtGate(w) \/ SkipStale(w) \/ DryRunExhausted(w) \/ TaskFails(w)
        PROVE  InHand(a)'
    BY <2>2, <2>8 DEF SkipAtGate, SkipStale, DryRunExhausted, TaskFails, GiveUp, rowVars
  <2>9. ASSUME DryRunTransient(w) PROVE InHand(a)'
    <3>1. Finish(w) /\ UNCHANGED <<status, req>>
      BY <2>9 DEF DryRunTransient, rowVars
    <3>2. CASE task[w].app # a
      <4>1. \A n \in Attempts : queue'[<<a, n>>] = queue[<<a, n>>]
        BY <2>9, <3>2 DEF DryRunTransient, TypeOK
      <4>2. \A v \in Workers : Busy(v, a)' => Busy(v, a)
        BY <3>1 DEF Finish, Busy, TypeOK, IdleTask
      <4> QED BY <1>0, <3>1, <4>1, <4>2, InHandFramed DEF Sending, Retrying
    <3>3. CASE task[w].app = a
      <4> DEFINE t == task[w].tries + 1
      <4>1. t \in Attempts
        BY <2>9, LimitsAssumption DEF DryRunTransient, TypeOK, Task
      <4>2. Busy(w, a)
        BY <2>9, <3>3 DEF DryRunTransient, Busy
      <4>3. \A v \in Workers : ~Busy(v, a)'
        BY <1>0, <3>1, <4>2 DEF InHand, Finish, Busy, TypeOK, IdleTask
      <4>4. \A n \in Attempts : ~(queue[<<a, n>>] > 0)
        BY <1>0, <4>2 DEF InHand
      <4>5. /\ status[a] = "QUEUED"
            /\ \A h \in Handlers : ~Sending(h, a) /\ ~Retrying(h, a)
        BY <1>0, <4>2 DEF InHand
      <4>6. queue' = [queue EXCEPT ![<<a, t>>] = @ + 1]
        BY <2>9, <3>3 DEF DryRunTransient
      <4> HIDE DEF t
      <4>7. \A n \in Attempts : queue'[<<a, n>>] = IF n = t THEN 1 ELSE 0
        BY <1>0, <4>1, <4>4, <4>6 DEF TypeOK
      <4>8. \A n \in Attempts : queue'[<<a, n>>] > 0 => n = t
        BY <4>7
      <4>9. \A n \in Attempts : queue'[<<a, n>>] <= 1
        BY <4>7
      <4>10. \A h \in Handlers : ~Sending(h, a)' /\ ~Retrying(h, a)'
        BY <3>1, <4>5 DEF Sending, Retrying
      <4> QED BY <3>1, <4>3, <4>5, <4>8, <4>9, <4>10 DEF InHand
    <3> QED BY <3>2, <3>3
  <2> QED
    BY <1>8, <2>1, <2>5, <2>6, <2>7, <2>8, <2>9 DEF WorkerStep
<1>9. ASSUME Surroundings \/ UNCHANGED vars PROVE InHand(a)'
  BY <1>1, <1>9 DEF Surroundings, SetPaused, SetPlaywright, ChangeProfile, DeleteJob, Redeliver,
                    OneAtATime, rowVars, vars
<1> QED
  BY <1>4, <1>5, <1>6, <1>7, <1>8, <1>9 DEF Next

\* In one hand, a step of the pipeline is a step of the lifecycle.
LEMMA LifecycleStep ==
  ASSUME TypeOK, References, InOneHand, [Next]_vars
  PROVE  [Lifecycle!Next]_status
<1> DEFINE Goal == [Lifecycle!Next]_status
<1> USE Held
<1>1. ASSUME NEW a \in Apps, NEW s \in {"QUEUED", "REVIEW_REQUIRED"}, NEW j, NEW by,
             InsertRow(a, j, s, by)
      PROVE  Goal
  <2>1. Lifecycle!Create(a)
    BY <1>1 DEF InsertRow, Lifecycle!Create
  <2> QED BY <2>1 DEF Lifecycle!Next
<1>2. ASSUME NEW h \in Handlers, NewRequest(h) \/ RequestFails(h) PROVE UNCHANGED status
  BY <1>2 DEF NewRequest, CheckDuplicate, TelegramApply, TelegramSkip, LoadForRetry,
              LoadIfIn, PassChecks, RequestFails, rowVars
<1>3. ASSUME NEW h \in Handlers, RequestStep(h) PROVE Goal
  <2>1. ASSUME NEW a \in Apps,
               CreateApproved(h, a) \/ CreateBlocked(h, a) \/ TelegramInsert(h, a)
        PROVE  Goal
    BY <1>1, <2>1 DEF CreateApproved, CreateBlocked, TelegramInsert
  <2>2. ASSUME CommitRetry(h) PROVE Goal
    <3> DEFINE a == req[h].app
    <3>1. a \in Apps /\ status' = [status EXCEPT ![a] = "QUEUED"]
      BY <2>2 DEF CommitRetry, RequeueLoaded
    <3>2. status[a] = "FAILED"
      BY <2>2, <3>1 DEF CommitRetry, RequeueLoaded, InOneHand, InHand, Retrying
    <3>3. status' = [b \in Apps |-> IF b \in {a} THEN "QUEUED" ELSE status[b]]
      BY <3>1 DEF TypeOK
    <3>4. Lifecycle!Requeue({a})
      BY <3>2, <3>3 DEF Lifecycle!Requeue
    <3>5. {a} \in (SUBSET Apps) \ {{}}
      BY <3>1
    <3> QED BY <3>4, <3>5 DEF Lifecycle!Next
  <2>3. ASSUME RulesApprove(h) \/ RulesBlock(h) \/ Enqueue(h) \/ CommitSkip(h)
        PROVE  UNCHANGED status
    BY <2>3 DEF RulesApprove, RulesBlock, Enqueue, CommitSkip, rowVars
  <2> QED BY <1>3, <2>1, <2>2, <2>3 DEF RequestStep
<1>4. ASSUME SweepLoad \/ SweepCommit \/ SweepFails PROVE UNCHANGED status
  BY <1>4 DEF SweepLoad, SweepUpTo, SweepCommit, SweepFails, rowVars, InOneHand
<1>5. ASSUME NEW w \in Workers, WorkerStep(w) \/ TaskFails(w) PROVE Goal
  <2>1. ASSUME NEW s \in Lifecycle!Driven, SetStatus(w, s), task[w].pc # "idle" PROVE Goal
    <3> DEFINE a == task[w].app
    <3>1. a \in Apps /\ status' = [status EXCEPT ![a] = s]
      BY <2>1 DEF SetStatus
    <3>2. status[a] = "QUEUED"
      BY <2>1, <3>1 DEF InOneHand, InHand, Busy
    <3>3. Lifecycle!Drive(a)
      BY <3>1, <3>2 DEF Lifecycle!Drive
    <3> QED BY <3>1, <3>3 DEF Lifecycle!Next
  <2>2. ASSUME JobGone(w) \/ NotReady(w) \/ WriteResult(w) PROVE Goal
    BY <2>1, <2>2 DEF JobGone, NotReady, WriteResult, Lifecycle!Driven
  <2>3. CASE UNCHANGED status
    BY <2>3
  <2> QED
    BY <1>5, <2>2, <2>3
       DEF WorkerStep, TaskFails, Deliver, PassGate, SkipAtGate, LoadQueued, SkipStale,
           StartDryRun, DryRunSettles, DryRunTransient, DryRunExhausted, GiveUp, rowVars
<1>6. ASSUME Surroundings \/ UNCHANGED vars PROVE UNCHANGED status
  BY <1>6 DEF Surroundings, SetPaused, SetPlaywright, ChangeProfile, DeleteJob, Redeliver,
              rowVars, vars
<1> QED
  BY <1>2, <1>3, <1>4, <1>5, <1>6 DEF Next

\* One request at a time and each message delivered once, an application is never in
\* two workers' hands, nor in a worker's while a message or a request for it is on its
\* way, and a FAILED one is in no one's but who retries it.
THEOREM AlwaysInOneHand ==
  ASSUME OneAtATime
  PROVE  Spec => []InOneHand
<1>1. Init => InOneHand
  BY DEF Init, InOneHand, InHand, Busy, Sending, Retrying, Attempts, Message, IdleRequest,
         IdleTask, NoSnapshot
<1>2. TypeOK /\ References /\ InOneHand /\ [Next]_vars => InOneHand'
  <2> SUFFICES ASSUME TypeOK, References, InOneHand, [Next]_vars PROVE InOneHand'
    OBVIOUS
  <2>1. DOMAIN snapshot' = {}
    BY OneAtATime, OnlySweepLoads
       DEF OneAtATime, InOneHand, NoSnapshot, SweepLoad, SweepUpTo
  <2>2. \A a \in Apps : InHand(a)'
    BY OneAtATime, InHandStep
  <2> QED BY <2>1, <2>2 DEF InOneHand
<1> QED BY ShapeCorrect, <1>1, <1>2, PTL DEF Spec

\* One request at a time and each message delivered once, the pipeline implements the
\* safety part of the lifecycle, through crashes, pauses and transient failures.
THEOREM PipelineIsTheLifecycle ==
  ASSUME OneAtATime
  PROVE  Spec => LifecycleSafe
<1>1. Init => Lifecycle!Init
  BY DEF Init, Lifecycle!Init
<1>2. TypeOK /\ References /\ InOneHand /\ [Next]_vars => [Lifecycle!Next]_status
  BY LifecycleStep
<1>3. Spec => []InOneHand
  BY OneAtATime, AlwaysInOneHand
<1> QED
  BY ShapeCorrect, <1>1, <1>2, <1>3, PTL DEF Spec, LifecycleSafe, Lifecycle!Safe

(***************************************************************************)
(* The dry run inside the task: Applications takes it to be what           *)
(* DryRunContract promises, neither more nor less.                         *)
(***************************************************************************)

\* Only the set of ends is used here, and it depends on no variable.
DryRuns == INSTANCE DryRunContract WITH touched <- FALSE, entry <- "none", end <- "running"

\* What the task does with a dry run that ended so, and with its audit entry: the
\* result is about to be stored, Celery sends the message again if it may, or the
\* application is left QUEUED.
Receives(w, end, entry) ==
  LET a == task[w].app IN
  /\ task[w].pc = "dryrun"
  /\ IF entry = "none" THEN UNCHANGED audit ELSE Log(entry, jobOf[a])
  /\ \/ end \in {"success", "failed"} /\ Goto(w, end) /\ UNCHANGED <<queue, dropped>>
     \/ /\ end = "transient" /\ task[w].tries < MaxTaskRetries
        /\ queue' = [queue EXCEPT ![<<a, task[w].tries + 1>>] = @ + 1]
        /\ Finish(w)
        /\ UNCHANGED dropped
     \/ /\ end = "raised" \/ (end = "transient" /\ task[w].tries = MaxTaskRetries)
        /\ dropped' = dropped \cup {a}
        /\ Finish(w)
        /\ UNCHANGED queue
  /\ UNCHANGED <<rowVars, jobStatus, envVars, req, snapshot>>

\* A worker in a dry run is moved on only by the end of that run.
LEMMA DryRunMoves ==
  ASSUME TypeOK, [Next]_vars, NEW w \in Workers, task[w].pc = "dryrun", task'[w] # task[w]
  PROVE  DryRunSettles(w) \/ DryRunTransient(w) \/ DryRunExhausted(w) \/ TaskFails(w)
<1>1. ASSUME NEW v \in Workers, WorkerStep(v) \/ TaskFails(v), v # w PROVE FALSE
  <2>1. ASSUME NEW pc, Goto(v, pc) PROVE task'[w] = task[w]
    BY <1>1, <2>1 DEF Goto, TypeOK
  <2>2. ASSUME Finish(v) PROVE task'[w] = task[w]
    BY <1>1, <2>2 DEF Finish, TypeOK
  <2>3. ASSUME NEW m \in Message, Deliver(v, m) PROVE task'[w] = task[w]
    BY <1>1, <2>3 DEF Deliver, TypeOK
  <2> QED
    BY <1>1, <2>1, <2>2, <2>3
       DEF WorkerStep, TaskFails, PassGate, SkipAtGate, LoadQueued, SkipStale,
           StartDryRun, DryRunSettles, DryRunTransient, DryRunExhausted, GiveUp, JobGone,
           NotReady, WriteResult, SetStatus
<1>2. ASSUME WorkerStep(w)
      PROVE  DryRunSettles(w) \/ DryRunTransient(w) \/ DryRunExhausted(w)
  BY <1>2 DEF WorkerStep, Deliver, PassGate, SkipAtGate, LoadQueued, SkipStale, StartDryRun,
              JobGone, NotReady, WriteResult
<1>3. ASSUME NEW h \in Handlers, NewRequest(h) \/ RequestStep(h) \/ RequestFails(h)
      PROVE  UNCHANGED task
  BY <1>3 DEF NewRequest, CheckDuplicate, TelegramApply, TelegramSkip, LoadForRetry, LoadIfIn,
              PassChecks, RequestFails, RequestStep, CreateApproved, CreateBlocked, TelegramInsert,
              RulesApprove, RulesBlock, Enqueue, CommitRetry, RequeueLoaded, CommitSkip
<1>4. ASSUME SweepLoad \/ SweepCommit \/ SweepFails \/ Surroundings \/ UNCHANGED vars
      PROVE  UNCHANGED task
  BY <1>4 DEF SweepLoad, SweepUpTo, SweepCommit, SweepFails, Surroundings, SetPaused,
              SetPlaywright, ChangeProfile, DeleteJob, Redeliver, vars
<1> QED
  BY <1>1, <1>2, <1>3, <1>4 DEF Next

\* Whatever moves a worker out of its dry run is one of the ends the contract allows,
\* with the audit entry that goes with it.
LEMMA OnlyAgreedEnds ==
  ASSUME TypeOK, [Next]_vars, NEW w \in Workers, task[w].pc = "dryrun", task'[w] # task[w]
  PROVE  \E e \in DryRuns!Agreed : Receives(w, e[1], e[2])
<1> USE DEF DryRuns!Agreed
<1>1. CASE DryRunSettles(w)
  <2>1. PICK outcome \in {"success", "failed"} :
          /\ Goto(w, outcome)
          /\ Log(IF outcome = "success" THEN "dry_run_success" ELSE "dry_run_failed",
                 jobOf[task[w].app])
    BY <1>1 DEF DryRunSettles
  <2>2. CASE outcome = "success"
    <3>1. Receives(w, "success", "dry_run_success")
      BY <1>1, <2>1, <2>2 DEF DryRunSettles, Receives
    <3> QED BY <3>1
  <2>3. CASE outcome = "failed"
    <3>1. Receives(w, "failed", "dry_run_failed")
      BY <1>1, <2>1, <2>3 DEF DryRunSettles, Receives
    <3> QED BY <3>1
  <2> QED BY <2>2, <2>3
<1>2. CASE DryRunTransient(w) \/ DryRunExhausted(w)
  <2>1. Receives(w, "transient", "none")
    BY <1>2 DEF DryRunTransient, DryRunExhausted, GiveUp, Receives
  <2> QED BY <2>1
<1>3. CASE TaskFails(w)
  <2>1. Receives(w, "raised", "none")
    BY <1>3 DEF TaskFails, GiveUp, Receives
  <2> QED BY <2>1
<1> QED BY <1>1, <1>2, <1>3, DryRunMoves

\* The pipeline goes on after a dry run only as DryRunContract allows: with one of its
\* ends, and with the audit entry that goes with it.
THEOREM DryRunsAsAgreed ==
  Spec => [][\A w \in Workers :
               task[w].pc = "dryrun" /\ task'[w] # task[w] =>
                 \E e \in DryRuns!Agreed : Receives(w, e[1], e[2])]_vars
<1>1. TypeOK /\ [Next]_vars =>
        [\A w \in Workers :
           task[w].pc = "dryrun" /\ task'[w] # task[w] =>
             \E e \in DryRuns!Agreed : Receives(w, e[1], e[2])]_vars
  BY OnlyAgreedEnds
<1> QED BY <1>1, TypeCorrect, PTL DEF Spec

\* Conversely, where all failures are considered, no end the contract allows is left
\* out: what is proved here of evidence, stranding and retries holds with the run of
\* DryRun.tla in the place of the one step it takes in Applications.
THEOREM EveryAgreedEnd ==
  ASSUME {"transient", "exhausted", "crash"} \subseteq Environment,
         NEW w \in Workers, NEW e \in DryRuns!Agreed, Receives(w, e[1], e[2])
  PROVE  Next
<1> USE DEF DryRuns!Agreed
<1>1. CASE e \in {<<"success", "dry_run_success">>, <<"failed", "dry_run_failed">>}
  <2>1. DryRunSettles(w)
    <3>1. e[1] \in {"success", "failed"}
          /\ e[2] = IF e[1] = "success" THEN "dry_run_success" ELSE "dry_run_failed"
      BY <1>1
    <3> QED BY <3>1 DEF Receives, DryRunSettles
  <2> QED BY <2>1 DEF Next, WorkerStep
<1>2. CASE e = <<"transient", "none">>
  <2>1. DryRunTransient(w) \/ DryRunExhausted(w)
    BY <1>2 DEF Receives, DryRunTransient, DryRunExhausted, GiveUp
  <2> QED BY <2>1 DEF Next, WorkerStep
<1>3. CASE e = <<"raised", "none">>
  <2>1. TaskFails(w)
    BY <1>3 DEF Receives, TaskFails, GiveUp
  <2> QED BY <2>1 DEF Next
<1> QED BY <1>1, <1>2, <1>3
=============================================================================
