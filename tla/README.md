# Flames, modelled and checked in TLA+

Flames is a personal recruitment assistant: a FastAPI service, Celery workers
and a beat scheduler around one PostgreSQL database and one Redis. It discovers
job postings, scores them with an AI provider, lets a Rule Engine and the user
decide, prepares applications with a Playwright dry run (it never submits one),
syncs Gmail and reports over Telegram. This directory holds TLA+ modules of the
parts whose correctness depends on the order in which requests, tasks,
callbacks and crashes happen, the TLC instances that check them, and TLAPS
proofs of the main results.

Paths below are relative to `src/backend/app/` unless they start with `src/`.

## What the code gives its handlers

These facts about the code shape every module.

* **Transactions.** `database/session.py:20-35` makes one session per request or
  task at PostgreSQL's default READ COMMITTED, with `expire_on_commit=False`.
  No query takes a row lock and no table has a version column. Whatever a
  handler read before an `await` may be stale when it writes; an ORM write is an
  `UPDATE ... WHERE id = ?` of the changed attributes, whatever the row holds by
  then, and an attribute set to the value it was loaded with is not written.
* **Messages.** Celery acknowledges early (no `acks_late`): a worker that dies
  loses its message. A message prefetched past the visibility timeout is
  delivered again. `delay()` is called after the commit, never with it.
* **Locks.** The only mutual exclusion is `scheduler/locking.py`, a Redis key
  with a time to live that does not record its owner.
* **Processes.** Prefork workers, the API and beat share nothing else. Telegram
  re-sends an update that was not answered with a 200.


## Inventory

For each part: the state it keeps, its operations, what it talks to, what is
hard about it, and what makes it correct.

### Application pipeline

* **State.** `applications` rows (status, job, CV, retry_count), the status of
  their `jobs` rows, `audit_logs`, the Celery queue of `apply_to_job` messages,
  the feature flags `operations_paused` and `enable_playwright`, the profile and
  the default CV.
* **Operations.** `ApplicationService.create_application` and
  `retry_application`, the Telegram buttons (`handle_job_review_callback`), the
  evening sweep (`_retry_recoverable_failures`), the worker's `_apply_to_job`
  with its autoretry.
* **Interactions.** Calls the Rule Engine, sends a message to the workers after
  the commit, and the worker runs the Playwright dry run, which commits its own
  audit entry.
* **Hard.** Check-then-insert without a unique constraint; a status checked
  before an await and overwritten after it; messages lost, delivered twice, or
  consumed while paused; crashes between every two commits.
* **Correct means.** What the Rule Engine blocked stays blocked; an outcome is
  never shown without its evidence; a QUEUED application has work or a known
  reason why not; counts never overstate; the number of rows and approvals is
  bounded by the requests in flight.

### Scheduled work

* **State.** The orchestrator's Celery chains, one `scheduled_tasks` row per
  link, the Redis key of `task_lock`.
* **Operations.** beat's entries, `run_morning_cycle`, `run_evening_cycle`,
  `track_scheduled_task`, `task_lock`, the tasks they wrap.
* **Hard.** The lock expires under its holder, and its release does not check
  the owner; a crash skips every `finally`; the row is written in two
  transactions around the work.
* **Correct means.** Overlaps are explained by expiries and bounded by them; no
  handled path leaks the key; a chain stops at the first failure; a row left at
  `running` belongs to a run that is at work or died.

### Discovery

* **State.** `jobs`, `companies`; `job_skills` and `provider_logs` go with them.
* **Operations.** `JobService.search_all`, `JobIngestionService.ingest`,
  `POST /jobs`.
* **Hard.** Two ingesters look the same posting or company up and both insert;
  one provider fails while others answer; an insert that fails ends the cycle.
* **Correct means.** A posting is stored once; a provider's or a board's failure
  costs only its own postings; a duplicate company needs two ingesters at once, and
  what ends a cycle is a posting that does not fit its columns or another ingester.

### Scoring and the Rule Engine

* **State.** `jobs.status` and `jobs.ai_score`, `rule_blocked` audit entries,
  `application_rules`.
* **Operations.** `_score_pending_jobs`, `RuleEngineService.evaluate` and the edits
  of rules, `rules/evaluator.py`, Telegram `/review` and its buttons.
* **Hard.** No lock, and a batch held for minutes; `evaluate` commits the
  caller's session half-way through a job; the user decides meanwhile.
* **Correct means.** Status, score and audit entry fit each other; a user's
  decision stays; every NEW job is scored in the end.

### Sessions

* **State.** `refresh_tokens` rows; the pair of tokens in `localStorage`, shared by
  all tabs; each page's own `refreshPromise` and signed-in state
  (`src/frontend/src/lib/api.ts`, `auth.tsx`).
* **Operations.** `AuthService.login`, `refresh` and `logout`; `request()` with its
  one retry after a 401; `loadUser`; the expiry of either token; a reload.
* **Hard.** The refresh token is looked up, then revoked and replaced, with awaits
  between; the answer to a refresh is stored over whatever `localStorage` has
  become; a tab whose refresh is refused clears what another tab stored.
* **Correct means.** A page exchanges a token once; after a log-out the browser
  holds no tokens and the server accepts none of that session's, unless something
  was in flight that the code has no means to stop.

### Mail

* **State.** The user's Gmail token, `gmail_connected` and the cursor
  `gmail_last_synced_at`; `emails` rows; the lock of the sync; the classification
  messages; the Redis counter in front of the AI provider.
* **Operations.** `/gmail/connect` and `/gmail/callback`, `sync_inbox_for_user`
  under the lock, `classify_email_task`, `core/rate_limit.py`, the announcement.
* **Hard.** One page per sync and a cursor that moves past what did not fit;
  messages sent after the commit and delivered again by the broker, with nothing that
  looks at `processed`; INCR and EXPIRE are two calls; runs that overlap; a consent
  given while a sync with the old token fails.
* **Correct means.** Emails are lost in the two known ways only; a stored email that
  stays unclassified was given up by a step on record; an email is announced once for
  each delivery at most, after that delivery's answer is committed; the counter has a
  time to live unless a fault kept it from getting one.

### Telegram and feature flags

* **State.** Updates that Telegram has not had a 200 for; `feature_flags` rows; the
  job and the applications under the review buttons.
* **Operations.** `POST /telegram/webhook`, the router, the command tables, the
  assistant, `/pause`, `/resume` and `/settings`, the buttons, `POST /settings`.
* **Hard.** No `update_id` is remembered, so what is delivered again runs again;
  two first writers of a flag collide on its unique key, and a value that equals the
  one read is not written; `/search` runs a whole cycle inside the webhook request.
* **Correct means.** A flag says what the newest command said, unless the dashboard
  wrote it after that command had read it, or a command was delivered twice or together
  with another; free text changes nothing; every update that can be answered is.

### Dry run

* **State.** The browser's driver, process and context; the page; the plugin's
  place in its steps; the verdict and its audit entry.
* **Operations.** `playwright/application_runner.py`, `browser_engine.py` with its
  retries, the five plugins, `services/playwright_dry_run_service.py`.
* **Hard.** A page paints its controls when it likes and loses clicks; every step
  of the engine may raise, those that close it too; Ashby's search for the form
  clicks whatever reads "Apply".
* **Correct means.** Submit is never clicked; a success is earned; a failure that is
  retried has touched nothing; nothing is left running.

### Provider clients

* **State.** None: the lists of configured boards and the user's desired titles.
* **Operations.** `search` and `normalize` of RemoteOK, Google Jobs, Greenhouse and
  Lever.
* **Hard.** One board of several fails; the cut to a limit comes before the filter
  in two clients and after it in the third.
* **Correct means.** A large or failing board takes nothing from the others.

### Not modelled

* **Dashboard, statistics, health and list routes**, with the job list's filters:
  read-only queries.
* **Settings, encryption, logging, the middleware**: configuration, and wrappers
  that share no state. The middleware's per-address limit is the counter of `Mail`
  with another key.
* **Frontend pages**: rendering of query results. The token handling is in
  `Sessions`.
* **Migrations, containers, CI**: deployment. The constraints that matter (the
  unique keys of postings, flags, emails and refresh tokens) are in the models that
  rely on them.
* **Text**: prompts, salaries, skills and dates read out of descriptions, command
  wording, reports.
* **Users, CVs, saved answers, rules and companies as CRUD**: single-row reads and
  writes. What the pipeline reads of them changes at any moment in `Applications`
  and `Scoring`.
* **The password hash and the throttle of the log-in route**: a pure function, and
  the same counter again.
* **`maintenance_tasks`' clean-up, archive and row count**: they delete log rows and
  archive finished task rows past their age, which nothing else looks at any more
  (the audit log is left alone).
* **The `notifications` table**: nothing reads it back. That the row is committed
  after the send (`services/notification_service.py:59`) loses only the record.

Five things seen on the way that no property rules out: `sync_gmail` never looks at
the `enable_gmail` flag; `notify` looks at a user's preferences only if it is given
a user, and no caller gives it one; Greenhouse's and Lever's share of a board is
cut before the titles are filtered, so what fits may be cut away; an email whose
sender, recipients or subject are too long for their column (`models/email_message.py:21-23`)
ends every sync that is given it before the commit, so that nothing is stored any more
while the cursor stays (`InsertRefused` in `Mail`); and after `/settings <key> on` the
bot may answer "is now enabled" of a flag that is off, because the dashboard committed
"off" between the command's read of an "on" and its commit, which then writes nothing
(`Written` in `Telegram`; the exception in `FlagFollowsNewest`).

## Modules

| Module | Models | Runs |
| --- | --- | --- |
| `Applications` | the application pipeline | `applications_*` |
| `ApplicationLifecycle` | what is promised of one application | refined in `applications_driven`, and proved |
| `JobLifecycle` | what is promised of one job's status and score | refined by `Scoring` (proved) |
| `EmailLifecycle` | what is promised of one email | refined by `Mail` (proved) |
| `TaskLock` | what `task_lock` promises its users | refined by `ScheduledTasks` and `Mail` (proved) |
| `DryRunContract` | what the task may count on of a dry run | refined by `DryRun` (proved), used by `ApplicationsProofs` |
| `ScheduledTasks` | chains, `scheduled_tasks` rows, `task_lock` | `scheduled_tasks` |
| `Providers` | what a search of each provider returns | extended by `Ingestion` |
| `Ingestion` | search cycles and `POST /jobs` | `ingestion` |
| `RuleEngine` | the evaluator, the tiers' decision, the edits of rules | instantiated by `Scoring` |
| `Scoring` | the scoring task, the decision, the review buttons | `scoring` |
| `Sessions` | log-in, refresh, log-out and the tabs of a browser | `sessions` |
| `Mail` | Gmail consent, sync, classification, the AI limiter | `mail` |
| `Telegram` | the webhook, its redelivery, commands, flags, buttons | `telegram` |
| `DryRun` | runner, browser engine and the five plugins | `dryrun` |
| `...Proofs` | theorems about the module of that name (eight of them) | |
| `MC...` | the small instance of each | |

How they fit together: `DryRun` is the inside of the step that `Applications` takes
in `DryRunSettles`, `DryRunTransient` and `TaskFails`. The two meet in
`DryRunContract`: `DryRun` implements it, and `Applications` is proved to take a dry
run for one of the ends the contract agrees to, and to have an action for each of
them. `TaskLock` plays the same part for the lock: a run enters only while the key is
not there, the key may go at any time, and both the chains of `ScheduledTasks` and the
runs of `sync_gmail` in `Mail` implement it. That it lets runs overlap is why
`Ingestion`, `Scoring` and `Mail` let theirs overlap. `Telegram` has the
buttons' delivery, `Applications` and `Scoring` what they do to jobs and rows.

A definition preceded by a comment that begins "Variant" is not part of the
specification: it is the neighbouring action with one plausible mistake in it,
and shows that a property notices the mistake.

### Applications

`req[h]` is an API request or a Telegram callback, cut where it awaits: its `pc`
says which query it has made and `job`, `app`, `seen` are the values it read and
will use. `CheckDuplicate`, `RulesApprove` / `RulesBlock`, `CreateApproved` /
`CreateBlocked` and `Enqueue` are the transactions and the send of
`create_application`; `LoadForRetry`, `CommitRetry`, `Enqueue` those of
`retry_application`; `TelegramApply`, `TelegramInsert` and `TelegramSkip`,
`CommitSkip` those of the buttons. `SweepLoad` and `SweepCommit` are the two ends
of the sweep's one transaction, with `snapshot` the rows it holds. `task[w]` is a
worker inside `_apply_to_job`: the gate (pause and flag), the load and status
check, the preparation, the dry run with its audit entry, and the write of the
result. `queue` counts messages per application and autoretry. `Deliver`
acknowledges at once, as Celery does by default; `Redeliver` is the broker's
visibility timeout. `Operations` and `Environment` switch entry points and
failures on, so that an instance can show what holds with and without them.
`origin`, `requeues` and `dropped` are history: who made the row, how often it
was put back, and whether a step discarded its message. Deleting a job is an
outside change: no route does it, and the worker handles it.

`ApplicationLifecycle` is the abstract specification: absent, then QUEUED or
REVIEW_REQUIRED, then driven once, and back to QUEUED only from FAILED. With
one request at a time, no sweep and no redelivery, every step of `Applications` is
one of its steps; without the other paths that lose a message (Telegram, pause,
crashes) it also has its liveness.

`Log` is `AuditService.log`: an entry is only ever added, in the transaction of the
action that calls it, or in one of its own.

### ScheduledTasks

`pc[c]`, `link[c]`: the chain `c` and the link it is at. `Begin` and `Record` are
the two transactions of `track_scheduled_task`, `Acquire`, `Skip` and `Release`
those of `task_lock`. `Failures` switches on worker crashes, Redis errors (with
the command carried out or not), database errors and failing tasks. `owner`,
`expiries`, `abandoned` and `lost` are history.

### Providers and Ingestion

`Providers` has no state: `Search(q, up)` is what provider `q` returns when the
boards in `up` answered. Greenhouse and Lever are asked board by board, each cut to
its `Share` (the limit divided by the boards, at least `Floor`) and then filtered by
the desired titles (`Fits`); RemoteOK is filtered and then cut (`FirstKept`), and
passes over what has no id; Google's query holds the titles. `Reads` is `normalize`,
which raises on a listing without its id.

`ing[i]` is a search cycle or a `POST /jobs`: the providers left to ask, in the
order of the registry, the postings of the last answer, the posting at hand and
whether its company row is new. `Fetch` and `FetchFails` are an answer and a failure
after the retries; `Lookup`, `FindCompany` and `InsertJob` are `ingest`'s three awaits.
Nothing catches what they raise before the cycle's end: `CompanyAmbiguous`,
`InsertCollides` (the unique key) and `InsertRefused` (a value that does not fit its
column; `Misfits` are the postings that have one) roll back and end the cycle, with the
providers still to ask, and `IngestDies` is a lost process, or a lost database at any
statement. `overlapped`, `ended` (the postings at which an exception ended an ingester)
and `reached` (the boards whose postings this cycle was
given) are history. The lock around the search cycle is not here but in
`ScheduledTasks`: what it leaves possible is that ingesters overlap, and
`POST /jobs` overlaps with anything.

### RuleEngine and Scoring

`RuleEngine` is a module of constants: `Matches` is one condition over typed
values, with what Python's comparison does for values of unlike types (False,
after a caught TypeError), and `Blocking` is the first tier that has a failing
rule. Strings are ranks; comparing two lists by order is left out, and so is
the order of a list's elements. `Edited` is what one create, update or delete
makes of a rule set, with the validation of a condition. `Scoring` evaluates it on
the job's fields, its score and the day's count of applications, which other
requests change at any time. The rules are not a variable: an evaluation may see any
set one edit apart from `Rules` (`RuleSets`), which is what an edit at any moment,
taken back at any moment, amounts to for a scoring run. `Seeded` is
`src/backend/scripts/seed.py`, which runs at every start of the web container and
gives the starter rules to a user who has none: deleting the last rule and restarting
brings them back, so `RuleSets` has that too.

`run[s]` is a scoring task: its batch with the scores it loaded, the job at hand
and its score. `Approve` is one transaction; `Block` and `SkipBlocked` are two,
because the audit entry commits the session (`services/audit_service.py:44-45`).
`WriteScore` follows the ORM: an attribute set to the value it was loaded with is
not written. `press` is a review callback between its query and its commit.
`settled[p]` is history: the status the user's decision left, if no run held the
job then.

`JobLifecycle` is the abstract specification: a job is discovered, rated, and decided
about once, MATCHED or REVIEW by its score or SKIPPED by a rule; afterwards only the
user moves it, if it was put up for review. One scoring run at a time implements it;
two do not, which is the finding at `tasks/ai_tasks.py:57`.

### Sessions

A pair, numbered in the order of issue, is an access token and its refresh token.
`row[p]` is its `refresh_tokens` row, `root[p]` the log-in it descends from, and
`oldest` how far the access tokens have expired. `stored` is `localStorage`;
`view[t]` the `AuthProvider` of tab `t`, `pending[t]` its `refreshPromise`. `call[c]`
is an API request between its 401 and its second attempt, `exch[x]` a refresh:
`LookUp`, then `Rotate` (the UPDATE holds its row until the commit, so revoking and
issuing are one step), then its answer, which `ExchangeArrives` stores over anything
and `SignedOut` takes for the end of the session. `leave[t]` is a log-out:
`LogoutDeletes` on the server, `LogoutFinishes` in the browser whatever the server
said. History: `asked` and `again` (pages that have sent the stored token, once and
twice), `quiet` (nothing was in flight at the last log-out), `ended` (log-ins logged
out while nothing was exchanged) and `forked` (log-ins one of whose tokens was lost,
overwritten or exchanged twice).

### Mail

Emails are numbered by arrival, and a point in time is the number of emails that had
arrived by then: `cursor`, a run's `from` and `upto` are such points. `sync[s]` is a
run of `sync_gmail`: it starts under `lock` with the user's row as it then is,
fetches a page of the newest, looks each email up and inserts it, commits rows and
cursor together, and sends a message for each row; `InsertCollides` and
`InsertRefused` are the unique key and a value that does not fit its column, which end
the run and leave the cursor. `mail[m]` is the row. `Tasks` are the deliveries of the
messages: delivery 0 is the one the sync asked for, and `Redeliver` is the broker's
visibility timeout, which adds another while one of the email's is still queued.
`job[t]` is a delivery's task and what came of it: `Admit` and `Expire` are the
limiter's two calls, `Classify` the AI's answer and its commit, `Announce` the
notification, and a task that is given up or never sent is `"dropped"`. No action looks
at whether the row is classified already, as `tasks/gmail_tasks.py:56-65` does not, so
two deliveries classify and announce an email twice. `count` and `ttl` are the limiter's
key. `token`, `revoked`, `connected` and `consent` are the Gmail connection; that the
callback reads the user's row before it exchanges the code, and does not write a
`gmail_connected` that was already true, comes to the same as the sync that fails in
between failing afterwards. `missed` and `unexpired` are history: what no page had room
for or arrived too late, and an EXPIRE that was never made.

`EmailLifecycle` is the abstract specification: an email is stored once and its message
sent once; each delivery of it classifies at most once, announces at most once after its
own answer is committed, or is given up for good; further deliveries are the broker's.
`Mail` implements it whatever runs overlap, collide or die, since no task tries twice.

### Telegram

`kind[u]` is what update `u` is: a command of some class, free text, a button, or a
lone slash. `at[d]` is a webhook request: `Deliver` starts it, `heard` says that
Telegram still waits for it, `Answer` acknowledges the update if so. `TimesOut` lets
Telegram stop waiting while the handler goes on. `LookUpFlag` / `WriteFlag` and
`LookUpJob` / `Skip`, `Apply` are cut at their awaits; `seen` is the value read, and
`Written` what the ORM makes of an assignment: nothing where the value assigned is the
one read, whatever the row has become. `FlagCollides` is the unique key. `web` is
`POST /settings`, which creates or sets the same row by the same rule. The flag is one
that `/settings` and `POST /settings` know; the paused flag, which only `/pause` and
`/resume` write, and by the same rule, is the instance without `Requests`. A flag starts
without a row, or with the one the seed script made of the environment's `Default`
(`Seeded`). History: `by` (the update that changed the flag last), `newest` (the newest
command carried out, whether or not it had anything to write), `edits` and `base` (how
often the dashboard has written the flag, now and when `newest` looked it up) and
`strayed` (updates delivered twice or next to another). Slots of `Deliveries` are alike,
and the first free one is taken.

### DryRun

One run on one page. The page is the environment: `Render` paints any control of the
face it shows, or never does, and a click may do nothing. A plugin is data, a
sequence of steps that need, look for or try a control; `StepDone`, `StepSkipped` and
`PluginFails` interpret it. `Entries` is how Ashby and SmartRecruiters find their
form. `open` is what the engine holds, `exc` the exception under way (`"transient"`
is the one Celery retries), `botched` says that closing something failed. The run
ends in `ended` and then stutters, so this is the one instance that checks for
deadlock.

## Runs and bounds

| Run | Instance | Shows |
| --- | --- | --- |
| `applications_intake` | 2 jobs, 3 rows, 2 requests, cap 0, crashes, flag, deletion | how far check-then-insert overshoots: never past the requests in flight |
| `applications_pipeline` | 1 job, 1 row, 2 requests, 2 workers, every entry point and failure | status, evidence, retry count and message stay explained |
| `applications_driven` | 2 jobs, 2 rows, 1 request, 2 workers, no failure beyond transient ones | implements `ApplicationLifecycle`, and every QUEUED row is driven |
| `applications_duplicate` | 1 job, 2 requests | two rows for one job (finding) |
| `applications_stranded` | 1 request, the sweep | a swept application is never driven (finding) |
| `scheduled_tasks` | 3 cycles of a two-link chain, all failures | lock, chain and row properties; the key is always freed |
| `ingestion` | 8 postings of 4 providers and the user, 2 Greenhouse boards, one posting that fits no column, 2 ingesters, 1 crash | what ends a cycle, what two ingesters can do to each other, and that what is due is stored |
| `scoring` | 2 postings, 2 runs, batches of 1, scores on either side of the threshold, rules one edit apart, 1 crash | status, score and audit agree; decisions stay; every job is scored |
| `sessions` | 2 tabs, 3 API requests, 2 refreshes, 3 pairs, 1 fault | a page exchanges a token once; what a log-out ends |
| `mail` | 2 syncs, 2 emails, pages of 1, 2 consents, a limit of 1, 1 fault or redelivery | how emails, classifications and the limiter's expiry are lost |
| `telegram` | no row or one switched on, 2 updates of 7 kinds, 2 webhook requests, 1 `POST /settings`, 1 fault | whose value a flag has, what text can change, that updates are answered |
| `dryrun` | 5 plugins, no plugin, an ambiguous URL; 2 attempts, 8 rounds | submit is not clicked, outcomes are earned, all is closed |

Why the bounds are enough. Every race here is between two actors over one row,
so two requests, workers, runs, ingesters, tabs or deliveries show it; the third row
of `applications_intake` is what a bound that is off by one would let through. Three
cycles are what an un-owned release needs: one that outlives its key, one whose key
it deletes, and one that gets in. In `ingestion` one board is longer than its share,
with the posting that fits behind the cut, one feed begins with a listing without an
id, two providers name one company, and the one Google listing does not fit its column,
with Greenhouse and Lever still to be asked. A batch of one job makes the batch limit bite
with two postings, and a page of one email the page size with two. Three pairs are a
log-in and two refreshes, or two log-ins and a refresh; the third API request is a
second of one page, which is what sharing a refresh is about. A limit of one makes
the second classification of a window the refused one. Two updates are an older and a
newer one, and two deliveries let either be delivered again beside the other. The
eight rounds of Ashby's search and the two attempts are the code's own numbers.
`RequeueBound` 2 lets a row be re-queued, fail and be re-queued again, `QueueBound` 2
holds an original message and its second delivery. One crash or fault is possible at
every point; a second delivery of an email's message counts as one in `mail`, and needs
no other to run beside the first. The safety theorems below hold for every value of
these bounds. The runs under a
specification with fairness use no symmetry; most others do, over identities that no
definition tells apart.

Counters are cut where nothing distinguishes their values: `PairBound`,
`MailBound`, `TokenBound`, `UpdateBound`, `RequeueBound` and `QueueBound` bound an
instance and not the code; `FaultBound` and `MaxCrashes` bound its failures.

`CHECK_DEADLOCK FALSE` in every instance but `dryrun`: a system in which nobody sends
a request, every chain has run or every bound is used up stops.

## Fairness

* `Applications`: a request that has begun and a worker with a message go on
  (`WF` of each): the event loop and the worker pool do that. No fairness for
  users, the sweep, or failures.
* `ScheduledTasks`: Redis expires keys, and a task that has begun goes on. The
  time to live is not compared with a run's length: a key may expire at any
  moment, which is what a slow provider makes of it.
* `Scoring`: beat starts the task again and again, runs go on, and a job that is
  asked about for ever gets a score in the end (`SF` of `ScoreMatch`). The last
  is an assumption about the AI provider, not a fact of the code; without it a
  job whose scoring always fails stays NEW, as `tasks/ai_tasks.py:91` says, and
  holds its place in the batch. Operations are not paused for ever, and a user
  exists.
* `Telegram`: a webhook request that has begun goes on (`WF` of `Handle`), and
  Telegram delivers an update for which it has had no 200 again whenever a slot is
  free now and then (`SF` of `Redeliver`): the slots are shared with other updates,
  so a delivery may be impossible again and again without being so for ever. No
  fairness for time-outs, failures or users. How long Telegram
  keeps trying is not in this repository: `EveryUpdateAnswered` is about an update
  it does not give up.

The other modules state safety only, and no fairness.

## Proofs

`TLAPS` proves these for every value of the constants that satisfies the named
assumptions of the modules (distinct empty values, naturals, finite sets). Every
invariant and every safety action property of every passing run is a theorem.

* **`ApplicationsProofs`.** `TypeCorrect` needs `References` (what a request,
  worker, message or sweep holds is an existing row with a job and a creator):
  without it a worker could write a row that is not there. `BlockedIsFinal` adds
  `BlockedUntouched`: it is not enough that the status stays, since a stale
  request or message for the row would break it a step later, so the invariant
  says that nobody holds one. `OutcomesAreEvidenced` adds `EvidencePending`: a
  worker about to write a result has it audited. `RetriesNeverOverstated` adds
  `SeenCounts`: no loaded count is above the true one. `DuplicatesBounded` and
  `CapOvershootBounded` count rows together with the requests that are past the
  check (`RowsAndRequests`, `ApprovalsAndRequests`): a request that inserts moves
  from one side of the sum to the other, and one that passes the check finds no row.
  `StrandingExplained` goes through the steps by what each does to the work of an
  application. `SweepRespectsTheCap` is a step property.
* **`PipelineIsTheLifecycle`**, in the same module, is the safety part of the
  refinement: under `OneAtATime` (at most one handler, no sweep, no redelivery; with
  crashes, pauses and the Telegram buttons) every behaviour is one of
  `ApplicationLifecycle!Safe`. It rests on `InOneHand`: an application is held by one
  message, one worker or one request, and only while QUEUED, so that no later writer
  takes an outcome back. `AlwaysInOneHand` states that invariant by itself.
* **Applications and DryRun.** `DryRunsAsAgreed` says that a worker leaves its dry run
  only with an end that `DryRunContract` agrees to and the audit entry that goes with
  it, and `EveryAgreedEnd` that no agreed end is missing (where transient failures,
  exhausted retries and crashes are all considered). With `DryRunKeepsItsContract`,
  below, the one step that `Applications` takes of a dry run is what `DryRun` does, and
  the theorems about evidence and stranding hold with the detailed run in its place.
* **`NoDuplicateAlone`**: where `DuplicatesBounded` counts, this says what the count
  means for one handler: the second application of a job (the finding of
  `applications_duplicate`) needs two requests, and no sweep, worker or redelivery
  makes one.
* **`ScheduledTasksProofs`.** `Progress` ties a chain's position to the rows of
  its earlier links, from which `TypeCorrect` and `ChainHaltsOnFailure` follow.
  `OverlapBounded` is an induction on the difference of the two sides: only
  `Acquire` adds a run, and it needs the key free; only an expiry or a release
  frees it, and a release takes its run along. `KeyNeverLeaks` and
  `RunningRowsHaveARun` build on the same. `ChainsUseTheLock` is the refinement of
  `TaskLock`; it needs nothing but the types.
* **`IngestionProofs`.** `AloneUntilOverlap`: until two ingesters overlap, no
  company has two rows, nobody is about to create or insert what is there, and only
  misfits have ended a cycle; afterwards `AbortsHaveCauses` holds step by step, since no
  row of a posting or a company goes away. `MisfitsEndTheCycle` turns `NothingDueIsLost`
  round: where everything due is stored and a misfit never is, no cycle gets past a
  board that lists one. `RowsAndCreators` counts a company's rows together with
  the ingesters about to add one. `NothingDueIsLost` needs that a board's share is
  at least the floor (`ShareAtLeastFloor`), hence that what is due is in the answer
  (`DueFound`), and then that what is due is stored or still to do (`DueKept`). Three
  theorems are about what a search returns, whatever the boards list:
  `BoardsStandAlone` (a board's part does not depend on the others), `SearchesFit`
  (it was listed, and fits) and `BoardsWithinLimit`, which counts the first `n` of what
  is kept of a feed by well-founded induction on positions.
* **`ScoringProofs`.** `Types` adds that buttons are shown under decided jobs
  only, which typing `settled` needs. `UserDecisionsKept` adds that a settled job
  is in no batch and no longer NEW, so no run can load it again.
  `SkipsAreExplained` adds that a run about to skip has its block on record.
  `MatchedJobsFit` adds that a job without a block and not yet decided has no
  score, nor has any copy of it in a batch, so whoever decides writes the score
  with the status. `ScoringIsTheLifecycle` is the refinement of `JobLifecycle` under one
  scoring run at a time; its invariant `UpToDate` says that the jobs a run holds are
  still NEW with the scores it loaded, which a second run breaks.
  Four theorems are about the Rule Engine's answers, for any rules and any job:
  `RuleSetsAreValid`, `RulesOnlyRestrict` (a rule more never lets a job through),
  `MissingFieldsBlock` (a comparison that Python would raise for refuses) and
  `StarterRulesDecide` (what the seeded rules amount to).
* **`SessionsProofs`.** `Base` is the types, the numbering (pairs are issued in
  order, and what anyone holds was issued) and what an exchange in each of its
  stages holds. `ExchangesShared` adds that a page that has sent the stored pair
  waits for its answer; `LogoutHolds` that after a quiet log-out no tab waits.
  `SessionsEnd` needs the history of a session as a chain: of the pairs of an
  unforked log-in only the newest can be live (`Superseded`), it is stored or on its
  way in one exchange (`Newest`, `Undelivered`, `Succeeded`), and after a log-out
  that nothing raced the chain is dead (`Silenced`).
* **`MailProofs`.** `Held`: rows and messages of overlapping runs are disjoint and
  new, so the sync sends a message once and only for an email without a task;
  `CountersExpire` and `NothingForgotten` rest on it. The deliveries that follow need
  no more than that each is numbered by its fault. `LossesExplained` adds `Accounted`: a run accounts
  for every email that had arrived when it fetched, as stored, in its page or missed.
  `MailIsTheLifecycle` is the refinement of `EmailLifecycle`, under any overlap and
  any redelivery (`LifecycleStep`): `Held` is enough for each commit to store emails
  that are new, each send to be an email's first delivery, and a run that dies to drop
  only messages that were never sent. `SyncsUseTheLock` is the
  refinement of `TaskLock`.
* **`TelegramProofs`.** `InUse` says what a busy slot holds, `InOrder` that an update
  under way that has not strayed is the only one and no older than any command carried
  out. `FlagKept` adds that a command which has still to commit finds the flag as it was
  read, unless the dashboard or a command that strayed has written it since: so leaving
  the write out does no harm but for those, and `NewestCommandHolds` follows;
  `WordsChangeNothing` is a step
  property: only writes touch flag and job, and no slot of free text writes.
  `SecondApplicationExplained`: the Apply button gives a job a second application only
  by a press that strayed. It needs that updates are sent in their order
  (`SentInOrder`), and that a press about to insert has strayed or finds no
  application (`Applied`). `SecondNeedsStray` is checked over the instance of
  `telegram` as well, where two applications do occur.
* **`DryRunProofs`.** `ScriptShape` states what each of the five scripts looks like,
  once; `Phased`, `Photographed` and `Scripts` say what has happened by each phase and
  each step (what is needed before the step is filled), from which
  `OutcomesAreEarned` follows. `EverythingIsClosed` says what is open in each phase.
  `SubmitOnlyMistaken` needs that no script clicks submit and that the search for the
  form, the only other click, takes it for the way in only where it reads "Apply".
  `DryRunKeepsItsContract` is the refinement of `DryRunContract`: a step of the run is
  a touch, an end or a stutter of the contract, because the audit entry is written in
  the step that ends it and a transient error leaves nothing touched. `EndsAreAgreed`
  follows from the contract alone.

Model-checked only: the liveness properties (`EveryQueuedDriven`, `LockFreed`,
`EveryNewScored`, `EveryUpdateAnswered`) and the liveness part of the refinement
(`LifecycleSpec`), which are out of the prover's reach.

Proved only: the refinements `LifecycleSafe` of `Scoring` and `Mail`, `LockSafe`,
`ContractSpec`, `SecondNeedsStray`, and `NoneGoesPastAMisfit` (stated in
`IngestionProofs`). Their runs are large already and they have
no run of their own; TLC finds each of them true of the instance of its module, but
`LifecycleSafe` of `Scoring`, which needs one scorer and which it refutes with two.
What assumes `OneAtATime`, one handler or one scorer says so in its hypothesis: the
service with several workers does not satisfy it, and the findings are what happens
then.

## Findings

Two have a run:

* `applications_duplicate`: `exists_for_job` and the insert are not atomic and
  nothing in the schema backs them up, so one job can get two applications.
* `applications_stranded`: the sweep re-queues applications without sending the
  message that would have them driven; the Telegram Apply button does the same.

Eleven were read off the code while modelling it, where the code and a comment or a
document beside it disagree; `PROJECT.json` quotes both sides:

* `scheduler/locking.py:22`: the lock expires under a long run, so a task overlaps
  with itself without any failure, and its release frees another run's key.
  `OverlapNeedsExpiry` bounds it.
* `services/job_service.py:99`: `ingest` is outside the loop's try, so one posting that
  does not fit its columns ends every search cycle that lists it, and the providers
  after its own are never asked. `AbortsExplained` names it and `MisfitsEndTheCycle`
  proves it of the model.
* `tasks/ai_tasks.py:57`: a scoring run writes jobs that another run, or the user,
  has decided since it loaded them. `DecisionsKept` says what stays all the same.
* `services/email_service.py:74`: any exception of the fetch, a time-out too,
  disconnects Gmail, also after the user has connected again.
* `gmail/client.py:43`: one page is fetched and no `nextPageToken` followed, so
  what did not fit is lost behind the cursor. `MissedExplained` names the loss.
* `telegram/router.py:62`: the message "/" raises IndexError, is answered with a 500
  and delivered again. It is excepted in `EveryUpdateAnswered`.
* `telegram/handlers.py:288`: `/search` runs the whole cycle inside the webhook
  request, and may never be answered in time. It is excepted there too.
* `playwright/plugins/greenhouse.py:67`: the CV is attached if the page has the
  control just then; the run is a success without it.
* `playwright/plugins/ashby.py:145`: the search for the form clicks any button that
  reads "Apply", a submit control too. It is the exception in `NeverSubmits`.
* `providers/greenhouse.py:81`: one listing without an id costs the cycle every
  Greenhouse board.
* `middleware/rate_limit.py:28`: the refusal raised in a middleware is outside the
  layer that would make a 429 of it, and becomes a 500.

## Plan

What is left is at the edges of what is modelled:

1. `Ingestion` and `Mail` let their runs overlap at will, as `TaskLock` allows. With
   the lock's expiries counted there too, a lost email or a second company row could
   be tied to the expiry that made the runs overlap.
2. A contract for `Sessions` of the kind `DryRunContract` is: what the server promises
   of a session's tokens, whatever browsers and tabs there are.
3. The seed script (`src/backend/scripts/seed.py`) looks its rows up and creates them,
   at every start of the web container: two containers that start together collide on
   the unique keys of the administrator and the flags, and can both seed the rules.
4. `services/dashboard_service.py` and `api/v1/stats.py` count rows in several queries
   without a snapshot: their sums may be of no moment there was.
5. `notifications` rows and the CRUD of users, rules and CVs, if anything comes to
   depend on them.

No liveness property can be proved with the prover in use, so those stay with the
model checker.
