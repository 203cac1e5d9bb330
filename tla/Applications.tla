------------------------------ MODULE Applications ------------------------------
(***************************************************************************)
(* The application pipeline of the backend: the API requests and Telegram  *)
(* callbacks that create and retry applications, the evening retry sweep,  *)
(* the Celery broker, and the workers that run the apply_to_job task.      *)
(*                                                                         *)
(* The database runs READ COMMITTED with no row locks and no version       *)
(* column, so every handler is split where it awaits: what it read before  *)
(* an await may be out of date when it writes after it.  A row is written  *)
(* by primary key, whatever its status has become.                         *)
(***************************************************************************)
EXTENDS Naturals, FiniteSets

CONSTANTS
  Jobs,                  \* job postings
  Apps,                  \* row ids of the applications table
  Handlers,              \* concurrent API requests and Telegram callbacks
  Workers,               \* Celery worker processes
  NoJob, NoApp,          \* the empty foreign key, the empty local variable
  DailyCap,              \* value of the seeded applications_today <= N rule
  MaxTaskRetries,        \* max_retries of apply_to_job's autoretry
  MaxApplicationRetries, \* MAX_APPLICATION_RETRIES of the sweep
  Operations,            \* the entry points this instance exercises
  Environment,           \* the failures and outside changes it is exposed to
  RequeueBound,          \* bound: re-queueings of one application
  QueueBound             \* bound: copies of one message after redelivery

ASSUME NoJobAssumption == NoJob \notin Jobs
ASSUME NoAppAssumption == NoApp \notin Apps
ASSUME LimitsAssumption ==
  /\ DailyCap \in Nat
  /\ MaxTaskRetries \in Nat
  /\ MaxApplicationRetries \in Nat
ASSUME HandlersAssumption == IsFiniteSet(Handlers)
ASSUME AppsAssumption == IsFiniteSet(Apps)

VARIABLES
  status,     \* status[a]: application_status, "absent" before the insert
  jobOf,      \* jobOf[a]: job_id
  cvUsed,     \* cvUsed[a]: cv_version_id is set
  retries,    \* retries[a]: retry_count
  jobStatus,  \* jobStatus[j]: open (NEW, MATCHED or REVIEW), SKIPPED, APPLIED, deleted
  audit,      \* audit_logs: <<action, entity id>>
  ready,      \* a default CV is on file and the profile has a name
  paused,     \* the operations_paused feature flag
  playwright, \* the enable_playwright feature flag
  queue,      \* queue[<<a, n>>]: apply_to_job messages for a, n autoretries old
  req,        \* req[h]: where handler h is and what it has read
  task,       \* task[w]: where worker w is and what it has read
  snapshot,   \* the FAILED rows the sweep has loaded, with their retry_count
  origin,     \* history: who created row a
  requeues,   \* history: times a was put back to QUEUED
  dropped     \* history: rows whose last apply_to_job message was discarded

rowVars  == <<status, jobOf, cvUsed, retries, origin, requeues>>
envVars  == <<ready, paused, playwright>>
vars     == <<status, jobOf, cvUsed, retries, jobStatus, audit, ready, paused,
              playwright, queue, req, task, snapshot, origin, requeues, dropped>>

ApplicationStatus == {"QUEUED", "PENDING_VERIFICATION", "FAILED", "REVIEW_REQUIRED"}
JobStatus == {"open", "SKIPPED", "APPLIED", "deleted"}
Origin    == {"none", "approved", "blocked", "telegram"}
Message   == Apps \X (0..MaxTaskRetries)

Inserting == {"approved", "blocked", "telegram"}
Passed    == {"evaluate"} \cup Inserting
Request   == [pc : {"idle", "skip", "retry", "enqueue"} \cup Passed,
              job : Jobs \cup {NoJob}, app : Apps \cup {NoApp}, seen : Nat]
Task      == [pc : {"idle", "gate", "load", "prepare", "dryrun", "success", "failed"},
              app : Apps \cup {NoApp}, tries : 0..MaxTaskRetries]

IdleRequest == [pc |-> "idle", job |-> NoJob, app |-> NoApp, seen |-> 0]
IdleTask    == [pc |-> "idle", app |-> NoApp, tries |-> 0]
NoSnapshot  == [a \in {} |-> 0]

AuditEntry == ({"created"} \X Apps)
                \cup ({"rule_blocked", "dry_run_success", "dry_run_failed"} \X Jobs)

Rows       == {a \in Apps : status[a] # "absent"}
RowsFor(j) == {a \in Rows : jobOf[a] = j}

\* A bound on the instance: a request starts only if a row id is left for it.
Room == Cardinality({h \in Handlers : req[h].pc \in Passed}) < Cardinality(Apps \ Rows)

\* A bound on the instance: an application is re-queued RequeueBound times at most.
Budget(a) ==
  requeues[a] + Cardinality({h \in Handlers : req[h].pc = "retry" /\ req[h].app = a})
              + Cardinality({a} \cap DOMAIN snapshot) < RequeueBound

Init ==
  /\ status = [a \in Apps |-> "absent"]
  /\ jobOf = [a \in Apps |-> NoJob]
  /\ cvUsed = [a \in Apps |-> FALSE]
  /\ retries = [a \in Apps |-> 0]
  /\ jobStatus = [j \in Jobs |-> "open"]
  /\ audit = {}
  /\ ready = TRUE
  /\ paused = FALSE
  /\ playwright = TRUE
  /\ queue = [m \in Message |-> 0]
  /\ req = [h \in Handlers |-> IdleRequest]
  /\ task = [w \in Workers |-> IdleTask]
  /\ snapshot = NoSnapshot
  /\ origin = [a \in Apps |-> "none"]
  /\ requeues = [a \in Apps |-> 0]
  /\ dropped = {}

\* AuditService.log: an entry is added, never changed or taken away.  It is committed
\* at once, or folded into the transaction of the action that calls it.
Log(action, id) == audit' = audit \cup {<<action, id>>}

(***************************************************************************)
(* POST /applications: ApplicationService.create_application.              *)
(***************************************************************************)

\* A request gets past its checks for job j and goes on at pc.
PassChecks(h, j, pc) ==
  /\ req[h].pc = "idle" /\ Room
  /\ jobStatus[j] # "deleted"
  /\ req' = [req EXCEPT ![h] = [IdleRequest EXCEPT !.pc = pc, !.job = j]]
  /\ UNCHANGED <<rowVars, audit, envVars, queue, task, snapshot, dropped>>

\* Variant: the duplicate check is missing.
CreateUnchecked(h, j) ==
  /\ "create" \in Operations
  /\ PassChecks(h, j, "evaluate")
  /\ UNCHANGED jobStatus

\* The duplicate check and the job lookup; a 409 or a 404 changes nothing.
CheckDuplicate(h, j) ==
  /\ "create" \in Operations
  /\ RowsFor(j) = {}
  /\ PassChecks(h, j, "evaluate")
  /\ UNCHANGED jobStatus

\* Variant: the cap counts the application about to be made as one already there.
ApproveOneMore(h) ==
  /\ req[h].pc = "evaluate"
  /\ Cardinality(Rows) <= DailyCap + 1
  /\ req' = [req EXCEPT ![h].pc = "approved"]
  /\ UNCHANGED <<rowVars, jobStatus, audit, envVars, queue, task, snapshot, dropped>>

\* rules.evaluate: the daily cap counts the rows that exist now; the other
\* rules are about the job and may go either way.  A block is audited, and
\* committed, on its own.
RulesApprove(h) ==
  /\ req[h].pc = "evaluate"
  /\ Cardinality(Rows) <= DailyCap
  /\ req' = [req EXCEPT ![h].pc = "approved"]
  /\ UNCHANGED <<rowVars, jobStatus, audit, envVars, queue, task, snapshot, dropped>>

RulesBlock(h) ==
  /\ req[h].pc = "evaluate"
  /\ req' = [req EXCEPT ![h].pc = "blocked"]
  /\ Log("rule_blocked", req[h].job)
  /\ UNCHANGED <<rowVars, jobStatus, envVars, queue, task, snapshot, dropped>>

InsertRow(a, j, s, by) ==
  /\ status[a] = "absent"
  /\ status' = [status EXCEPT ![a] = s]
  /\ jobOf' = [jobOf EXCEPT ![a] = j]
  /\ origin' = [origin EXCEPT ![a] = by]
  /\ UNCHANGED <<cvUsed, retries, requeues>>

\* The row and its audit entry are one transaction; the message is not in it.
CreateApproved(h, a) ==
  /\ req[h].pc = "approved"
  /\ InsertRow(a, req[h].job, "QUEUED", "approved")
  /\ Log("created", a)
  /\ req' = [req EXCEPT ![h] = [IdleRequest EXCEPT !.pc = "enqueue", !.app = a]]
  /\ UNCHANGED <<jobStatus, envVars, queue, task, snapshot, dropped>>

CreateBlocked(h, a) ==
  /\ req[h].pc = "blocked"
  /\ InsertRow(a, req[h].job, "REVIEW_REQUIRED", "blocked")
  /\ Log("created", a)
  /\ req' = [req EXCEPT ![h] = IdleRequest]
  /\ UNCHANGED <<jobStatus, envVars, queue, task, snapshot, dropped>>

Enqueue(h) ==
  /\ req[h].pc = "enqueue"
  /\ queue' = [queue EXCEPT ![<<req[h].app, 0>>] = @ + 1]
  /\ dropped' = dropped \ {req[h].app}
  /\ req' = [req EXCEPT ![h] = IdleRequest]
  /\ UNCHANGED <<rowVars, jobStatus, audit, envVars, task, snapshot>>

(***************************************************************************)
(* POST /applications/{id}/retry: ApplicationService.retry_application.    *)
(***************************************************************************)

LoadIfIn(h, a, statuses) ==
  /\ "retry" \in Operations
  /\ req[h].pc = "idle"
  /\ status[a] \in statuses /\ Budget(a)
  /\ req' = [req EXCEPT ![h] =
               [IdleRequest EXCEPT !.pc = "retry", !.app = a, !.seen = retries[a]]]
  /\ UNCHANGED <<rowVars, jobStatus, audit, envVars, queue, task, snapshot, dropped>>

\* Variant: an application waiting for review can be retried too.
LoadUnsettled(h, a) == LoadIfIn(h, a, {"FAILED", "REVIEW_REQUIRED"})

LoadForRetry(h, a) == LoadIfIn(h, a, {"FAILED"})

\* The UPDATE writes what was computed from the loaded row.
RequeueLoaded(h, bump, next) ==
  LET a == req[h].app IN
  /\ req[h].pc = "retry"
  /\ status' = [status EXCEPT ![a] = "QUEUED"]
  /\ retries' = [retries EXCEPT ![a] = req[h].seen + bump]
  /\ requeues' = [requeues EXCEPT ![a] = @ + 1]
  /\ req' = [req EXCEPT ![h] = next]
  /\ UNCHANGED <<jobOf, cvUsed, origin, jobStatus, audit, envVars, queue, task,
                 snapshot, dropped>>

\* Variants: the message is forgotten; the retry is counted twice.
RetryUnsent(h)  == RequeueLoaded(h, 1, IdleRequest)
RetryTwice(h)   == RequeueLoaded(h, 2, [req[h] EXCEPT !.pc = "enqueue"])

CommitRetry(h)  == RequeueLoaded(h, 1, [req[h] EXCEPT !.pc = "enqueue"])

(***************************************************************************)
(* The Telegram review buttons: handle_job_review_callback.                *)
(***************************************************************************)

TelegramApply(h, j) ==
  /\ "telegram" \in Operations
  /\ RowsFor(j) = {}
  /\ PassChecks(h, j, "telegram")
  /\ UNCHANGED jobStatus

\* No rule is evaluated, nothing is audited and no message is sent.
TelegramInsert(h, a) ==
  LET j == req[h].job IN
  /\ req[h].pc = "telegram"
  /\ InsertRow(a, j, "QUEUED", "telegram")
  /\ jobStatus' = [jobStatus EXCEPT ![j] = IF @ = "deleted" THEN @ ELSE "APPLIED"]
  /\ dropped' = dropped \cup {a}
  /\ req' = [req EXCEPT ![h] = IdleRequest]
  /\ UNCHANGED <<audit, envVars, queue, task, snapshot>>

\* Writing SKIPPED over a row loaded as SKIPPED emits no UPDATE.
TelegramSkip(h, j) ==
  /\ "telegram" \in Operations
  /\ req[h].pc = "idle"
  /\ jobStatus[j] \notin {"deleted", "SKIPPED"}
  /\ req' = [req EXCEPT ![h] = [IdleRequest EXCEPT !.pc = "skip", !.job = j]]
  /\ UNCHANGED <<rowVars, jobStatus, audit, envVars, queue, task, snapshot, dropped>>

CommitSkip(h) ==
  /\ req[h].pc = "skip"
  /\ jobStatus' = [jobStatus EXCEPT ![req[h].job] = IF @ = "deleted" THEN @ ELSE "SKIPPED"]
  /\ req' = [req EXCEPT ![h] = IdleRequest]
  /\ UNCHANGED <<rowVars, audit, envVars, queue, task, snapshot, dropped>>

\* The API process dies, the database fails, or apply_to_job.delay raises
\* after the commit: the open transaction is lost, a committed one stays.
RequestFails(h) ==
  /\ "crash" \in Environment
  /\ req[h].pc # "idle"
  /\ dropped' = IF req[h].pc = "enqueue" THEN dropped \cup {req[h].app} ELSE dropped
  /\ req' = [req EXCEPT ![h] = IdleRequest]
  /\ UNCHANGED <<rowVars, jobStatus, audit, envVars, queue, task, snapshot>>

(***************************************************************************)
(* The evening retry sweep: _retry_recoverable_failures.                   *)
(***************************************************************************)

SweepUpTo(limit) ==
  LET failed == {a \in Apps : status[a] = "FAILED" /\ retries[a] < limit} IN
  /\ "sweep" \in Operations
  /\ snapshot = NoSnapshot
  /\ failed # {} /\ \A a \in failed : Budget(a)
  /\ snapshot' = [a \in failed |-> retries[a]]
  /\ UNCHANGED <<rowVars, jobStatus, audit, envVars, queue, req, task, dropped>>

\* Variant: the cap is tested with > in place of >=.
SweepOnceMore == SweepUpTo(MaxApplicationRetries + 1)

SweepLoad == SweepUpTo(MaxApplicationRetries)

\* One commit for all rows; no message is sent for any of them.
SweepCommit ==
  LET swept == DOMAIN snapshot IN
  /\ swept # {}
  /\ status' = [a \in Apps |-> IF a \in swept THEN "QUEUED" ELSE status[a]]
  /\ retries' = [a \in Apps |-> IF a \in swept THEN snapshot[a] + 1 ELSE retries[a]]
  /\ requeues' = [a \in Apps |-> IF a \in swept THEN requeues[a] + 1 ELSE requeues[a]]
  /\ dropped' = dropped \cup swept
  /\ snapshot' = NoSnapshot
  /\ UNCHANGED <<jobOf, cvUsed, origin, jobStatus, audit, envVars, queue, req, task>>

SweepFails ==
  /\ "crash" \in Environment
  /\ snapshot # NoSnapshot
  /\ snapshot' = NoSnapshot
  /\ UNCHANGED <<rowVars, jobStatus, audit, envVars, queue, req, task, dropped>>

(***************************************************************************)
(* The apply_to_job task.  Celery acknowledges a message when it hands it  *)
(* to a worker, so from then on the worker holds the only copy.            *)
(***************************************************************************)

Deliver(w, m) ==
  /\ task[w].pc = "idle"
  /\ queue[m] > 0
  /\ queue' = [queue EXCEPT ![m] = @ - 1]
  /\ task' = [task EXCEPT ![w] = [pc |-> "gate", app |-> m[1], tries |-> m[2]]]
  /\ UNCHANGED <<rowVars, jobStatus, audit, envVars, req, snapshot, dropped>>

\* The broker restores a message that was prefetched but not acknowledged in time.
Redeliver(m) ==
  /\ "redeliver" \in Environment
  /\ queue[m] \in 1..(QueueBound - 1)
  /\ \A n \in 0..MaxTaskRetries : n # m[2] => queue[<<m[1], n>>] = 0
  /\ queue' = [queue EXCEPT ![m] = @ + 1]
  /\ UNCHANGED <<rowVars, jobStatus, audit, envVars, req, task, snapshot, dropped>>

Goto(w, pc) == task' = [task EXCEPT ![w].pc = pc]
Finish(w)   == task' = [task EXCEPT ![w] = IdleTask]

\* The task ends with the application still QUEUED and no message for it.
GiveUp(w) ==
  /\ dropped' = dropped \cup {task[w].app}
  /\ Finish(w)
  /\ UNCHANGED <<rowVars, jobStatus, audit, envVars, queue, req, snapshot>>

PassGate(w) ==
  /\ task[w].pc = "gate"
  /\ ~paused /\ playwright
  /\ Goto(w, "load")
  /\ UNCHANGED <<rowVars, jobStatus, audit, envVars, queue, req, snapshot, dropped>>

\* Paused or switched off: the message is consumed, not postponed.
SkipAtGate(w) ==
  /\ task[w].pc = "gate"
  /\ paused \/ ~playwright
  /\ GiveUp(w)

LoadQueued(w) ==
  /\ task[w].pc = "load"
  /\ status[task[w].app] = "QUEUED"
  /\ Goto(w, "prepare")
  /\ UNCHANGED <<rowVars, jobStatus, audit, envVars, queue, req, snapshot, dropped>>

SkipStale(w) ==
  /\ task[w].pc = "load"
  /\ status[task[w].app] # "QUEUED"
  /\ Finish(w)
  /\ UNCHANGED <<rowVars, jobStatus, audit, envVars, queue, req, snapshot, dropped>>

SetStatus(w, s) ==
  /\ status' = [status EXCEPT ![task[w].app] = s]
  /\ Finish(w)
  /\ UNCHANGED <<jobOf, retries, origin, requeues, jobStatus, audit, envVars, queue, req,
                 snapshot, dropped>>

JobGone(w) ==
  /\ task[w].pc = "prepare"
  /\ jobStatus[jobOf[task[w].app]] = "deleted"
  /\ SetStatus(w, "FAILED")
  /\ UNCHANGED cvUsed

NotReady(w) ==
  /\ task[w].pc = "prepare"
  /\ jobStatus[jobOf[task[w].app]] # "deleted"
  /\ ~ready
  /\ SetStatus(w, "REVIEW_REQUIRED")
  /\ UNCHANGED cvUsed

StartDryRun(w) ==
  /\ task[w].pc = "prepare"
  /\ jobStatus[jobOf[task[w].app]] # "deleted"
  /\ ready
  /\ Goto(w, "dryrun")
  /\ UNCHANGED <<rowVars, jobStatus, audit, envVars, queue, req, snapshot, dropped>>

\* Variant: the outcome is not audited.
SettlesUnaudited(w) ==
  /\ task[w].pc = "dryrun"
  /\ \E outcome \in {"success", "failed"} : Goto(w, outcome)
  /\ UNCHANGED <<rowVars, jobStatus, audit, envVars, queue, req, snapshot, dropped>>

\* The form was driven to its end; the audit entry is committed before, and
\* apart from, the application row.
DryRunSettles(w) ==
  /\ task[w].pc = "dryrun"
  /\ \E outcome \in {"success", "failed"} :
       /\ Goto(w, outcome)
       /\ Log(IF outcome = "success" THEN "dry_run_success" ELSE "dry_run_failed",
              jobOf[task[w].app])
  /\ UNCHANGED <<rowVars, jobStatus, envVars, queue, req, snapshot, dropped>>

\* PlaywrightTransientError: Celery sends the message again, up to max_retries.
DryRunTransient(w) ==
  /\ "transient" \in Environment
  /\ task[w].pc = "dryrun"
  /\ task[w].tries < MaxTaskRetries
  /\ queue' = [queue EXCEPT ![<<task[w].app, task[w].tries + 1>>] = @ + 1]
  /\ Finish(w)
  /\ UNCHANGED <<rowVars, jobStatus, audit, envVars, req, snapshot, dropped>>

DryRunExhausted(w) ==
  /\ "exhausted" \in Environment
  /\ task[w].pc = "dryrun"
  /\ task[w].tries = MaxTaskRetries
  /\ GiveUp(w)

\* An exception that is neither a result nor transient (a screenshot that
\* times out), a database error, or the death of the worker process.
TaskFails(w) ==
  /\ "crash" \in Environment
  /\ task[w].pc # "idle"
  /\ GiveUp(w)

\* Variant: a successful dry run is shown as a submitted application.
WriteSubmitted(w) ==
  /\ task[w].pc \in {"success", "failed"}
  /\ cvUsed' = [cvUsed EXCEPT ![task[w].app] = TRUE]
  /\ SetStatus(w, IF task[w].pc = "success" THEN "SUCCESS" ELSE "FAILED")

WriteResult(w) ==
  /\ task[w].pc \in {"success", "failed"}
  /\ cvUsed' = [cvUsed EXCEPT ![task[w].app] = TRUE]
  /\ SetStatus(w, IF task[w].pc = "success" THEN "PENDING_VERIFICATION" ELSE "FAILED")

(***************************************************************************)
(* What changes around the pipeline.                                       *)
(***************************************************************************)

SetPaused ==       \* /pause and /resume
  /\ "pause" \in Environment
  /\ paused' = ~paused
  /\ UNCHANGED <<rowVars, jobStatus, audit, ready, playwright, queue, req, task, snapshot,
                 dropped>>

SetPlaywright ==   \* POST /settings
  /\ "flag" \in Environment
  /\ playwright' = ~playwright
  /\ UNCHANGED <<rowVars, jobStatus, audit, ready, paused, queue, req, task, snapshot,
                 dropped>>

ChangeProfile ==   \* PATCH /users/me, or another default CV
  /\ "profile" \in Environment
  /\ ready' = ~ready
  /\ UNCHANGED <<rowVars, jobStatus, audit, paused, playwright, queue, req, task, snapshot,
                 dropped>>

\* soft_delete: no route calls it yet, and the worker is ready for it.
DeleteJob(j) ==
  /\ "delete" \in Environment
  /\ jobStatus' = [jobStatus EXCEPT ![j] = "deleted"]
  /\ UNCHANGED <<rowVars, audit, envVars, queue, req, task, snapshot, dropped>>

(***************************************************************************)
(* The specification.                                                      *)
(***************************************************************************)

RequestStep(h) ==
  \/ RulesApprove(h) \/ RulesBlock(h)
  \/ \E a \in Apps : CreateApproved(h, a) \/ CreateBlocked(h, a) \/ TelegramInsert(h, a)
  \/ Enqueue(h) \/ CommitRetry(h) \/ CommitSkip(h)

NewRequest(h) ==
  \/ \E j \in Jobs : CheckDuplicate(h, j) \/ TelegramApply(h, j) \/ TelegramSkip(h, j)
  \/ \E a \in Apps : LoadForRetry(h, a)

WorkerStep(w) ==
  \/ \E m \in Message : Deliver(w, m)
  \/ PassGate(w) \/ SkipAtGate(w) \/ LoadQueued(w) \/ SkipStale(w)
  \/ JobGone(w) \/ NotReady(w) \/ StartDryRun(w)
  \/ DryRunSettles(w) \/ DryRunTransient(w) \/ DryRunExhausted(w)
  \/ WriteResult(w)

Surroundings ==
  \/ SetPaused \/ SetPlaywright \/ ChangeProfile
  \/ \E j \in Jobs : DeleteJob(j)
  \/ \E m \in Message : Redeliver(m)

Next ==
  \/ \E h \in Handlers : NewRequest(h) \/ RequestStep(h) \/ RequestFails(h)
  \/ SweepLoad \/ SweepCommit \/ SweepFails
  \/ \E w \in Workers : WorkerStep(w) \/ TaskFails(w)
  \/ Surroundings

Spec == Init /\ [][Next]_vars

\* A request that has begun runs to its end, and a worker keeps working.
\* Nothing obliges a user to send a request or the schedule to sweep.
FairSpec ==
  /\ Spec
  /\ \A h \in Handlers : WF_vars(RequestStep(h))
  /\ \A w \in Workers : WF_vars(WorkerStep(w))

(***************************************************************************)
(* Properties.                                                             *)
(***************************************************************************)

\* Every variable has its type.
TypeOK ==
  /\ status \in [Apps -> ApplicationStatus \cup {"absent"}]
  /\ jobOf \in [Apps -> Jobs \cup {NoJob}]
  /\ cvUsed \in [Apps -> BOOLEAN]
  /\ retries \in [Apps -> Nat]
  /\ jobStatus \in [Jobs -> JobStatus]
  /\ audit \in SUBSET AuditEntry
  /\ ready \in BOOLEAN /\ paused \in BOOLEAN /\ playwright \in BOOLEAN
  /\ queue \in [Message -> Nat]
  /\ req \in [Handlers -> Request]
  /\ task \in [Workers -> Task]
  /\ DOMAIN snapshot \in SUBSET Apps /\ snapshot \in [DOMAIN snapshot -> Nat]
  /\ origin \in [Apps -> Origin]
  /\ requeues \in [Apps -> Nat]
  /\ dropped \in SUBSET Apps

\* The duplicate check is not atomic with the insert and nothing in the schema
\* backs it up, so a job can get more than one application, but never more than
\* there were requests in flight at once; one request at a time gives at most one.
RowsPerJobBounded ==
  \A j \in Jobs : Cardinality(RowsFor(j)) <= Cardinality(Handlers)

\* The cap rule "applications_today <= N" is evaluated against the rows that
\* exist before the insert, so it lets N + 1 applications through when requests
\* come one after another, and one more for each request that overlaps.
ApprovalsBounded ==
  Cardinality({a \in Apps : origin[a] = "approved"}) <= DailyCap + Cardinality(Handlers)

\* The Rule Engine has the final say: an application it blocked is never queued,
\* retried, swept or driven, whatever the other handlers and workers do.
BlockedStaysForReview ==
  \A a \in Apps : origin[a] = "blocked" => status[a] = "REVIEW_REQUIRED"

\* An outcome is never shown without its evidence: PENDING_VERIFICATION means a
\* CV is attached and a successful dry run of that job is in the audit log, and
\* FAILED means a failed dry run is, or the job is gone; also after crashes.
OutcomeHasEvidence ==
  \A a \in Apps :
    /\ status[a] = "PENDING_VERIFICATION" =>
         cvUsed[a] /\ <<"dry_run_success", jobOf[a]>> \in audit
    /\ status[a] = "FAILED" =>
         <<"dry_run_failed", jobOf[a]>> \in audit \/ jobStatus[jobOf[a]] = "deleted"

HasWork(a) ==
  \/ \E n \in 0..MaxTaskRetries : queue[<<a, n>>] > 0
  \/ \E w \in Workers : task[w].pc # "idle" /\ task[w].app = a
  \/ \E h \in Handlers : req[h].pc = "enqueue" /\ req[h].app = a

\* A QUEUED application has a message, a worker or a request about to send one,
\* unless its message was discarded by one of the steps that set dropped: the
\* Telegram callback, the sweep, the pause and feature flags, an exhausted
\* retry or a failure.  No other interleaving strands an application.
OrphansExplained ==
  \A a \in Apps : status[a] = "QUEUED" => HasWork(a) \/ a \in dropped

\* retry_count may lose an update when two retries race, but it never shows more
\* retries than there were, so an application is never given up on too early.
RetryCountNeverOverstates == \A a \in Apps : retries[a] <= requeues[a]

\* Only a user's own retry takes retry_count past MAX_APPLICATION_RETRIES; the
\* sweep, which acts on counts it loaded earlier, never does.
OnlyUsersExceedTheCap ==
  [][\A a \in Apps :
       retries'[a] > retries[a] /\ retries'[a] > MaxApplicationRetries =>
         \E h \in Handlers : req[h].pc = "retry" /\ req'[h].pc = "enqueue"
                             /\ req[h].app = a]_vars

(***************************************************************************)
(* The strengthenings that make the safety properties inductive.           *)
(***************************************************************************)

\* What handlers, workers, messages and the sweep hold names existing rows, and
\* a row has its job and its creator from the start.
References ==
  /\ \A a \in Apps : (status[a] # "absent" <=> jobOf[a] # NoJob)
                     /\ (status[a] # "absent" <=> origin[a] # "none")
  /\ \A h \in Handlers :
       /\ req[h].pc \in Passed \cup {"skip"} => req[h].job # NoJob
       /\ req[h].pc \in {"retry", "enqueue"} => req[h].app \in Rows
  /\ \A w \in Workers : task[w].pc # "idle" => task[w].app \in Rows
  /\ \A m \in Message : queue[m] > 0 => m[1] \in Rows
  /\ DOMAIN snapshot \subseteq Rows

\* Nobody has hold of a blocked application.
BlockedUntouched ==
  \A a \in Apps : origin[a] = "blocked" =>
    /\ status[a] = "REVIEW_REQUIRED"
    /\ \A n \in 0..MaxTaskRetries : queue[<<a, n>>] = 0
    /\ \A w \in Workers : task[w].pc # "idle" => task[w].app # a
    /\ \A h \in Handlers : req[h].pc \in {"retry", "enqueue"} => req[h].app # a
    /\ a \notin DOMAIN snapshot

\* A result about to be written is already in the audit log.
EvidencePending ==
  \A w \in Workers :
    /\ task[w].pc = "success" => <<"dry_run_success", jobOf[task[w].app]>> \in audit
    /\ task[w].pc = "failed" => <<"dry_run_failed", jobOf[task[w].app]>> \in audit

\* No handler or sweep has loaded a count above the true one.
SeenCounts ==
  /\ \A h \in Handlers : req[h].pc = "retry" => req[h].seen <= requeues[req[h].app]
  /\ \A a \in DOMAIN snapshot : snapshot[a] <= requeues[a]

\* Every QUEUED application is driven out of the queue by a worker.
EveryQueuedDriven ==
  \A a \in Apps : status[a] = "QUEUED" ~> status[a] # "QUEUED"

\* At most one application per job.
OneApplicationPerJob == \A j \in Jobs : Cardinality(RowsFor(j)) <= 1

\* One request at a time, the pipeline is the lifecycle of ApplicationLifecycle.
Lifecycle == INSTANCE ApplicationLifecycle WITH Apps <- Apps, status <- status
LifecycleSafe == Lifecycle!Safe
LifecycleSpec == Lifecycle!Spec
=============================================================================
