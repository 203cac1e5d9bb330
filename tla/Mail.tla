--------------------------------- MODULE Mail ---------------------------------
(***************************************************************************)
(* The mailbox: connecting Gmail (/gmail/connect and /gmail/callback), the *)
(* scheduled sync that stores what arrived since the last one              *)
(* (EmailService.sync_inbox_for_user under the task lock), and the task    *)
(* that classifies each stored email with the AI provider behind the Redis *)
(* rate limiter and announces the important ones on Telegram.  The task    *)
(* does not look at `processed`: when the broker delivers its message      *)
(* again, the email is classified, and perhaps announced, again.           *)
(*                                                                         *)
(* Emails are numbered in the order of their arrival, and a point in time  *)
(* is the number of emails that had arrived by then.  Gmail's "after:" has *)
(* a resolution of one second; emails that arrive in the second of the     *)
(* cursor may be found again, which is not counted on here.                *)
(***************************************************************************)
EXTENDS Naturals, FiniteSets

CONSTANTS
  Syncs,       \* runs of sync_gmail under way at once (a bound)
  MailBound,   \* bound: emails that arrive
  PageSize,    \* max_results: the emails one sync asks for (50)
  TokenBound,  \* bound: consents given
  AiLimit,     \* ai_rate_limit_per_minute (25)
  FaultBound   \* bound: crashes, lost connections, answers that are errors, messages
               \* that the broker delivers again

ASSUME BoundsAssumption ==
  /\ MailBound \in Nat /\ TokenBound \in Nat /\ FaultBound \in Nat
  /\ PageSize \in Nat \ {0} /\ AiLimit \in Nat \ {0}

VARIABLES
  arrived,   \* emails 1..arrived are in the inbox
  cursor,    \* gmail_last_synced_at; 0 before the first sync
  token,     \* google_refresh_token_encrypted: the last consent's, 0 for none
  revoked,   \* Google refuses the tokens up to this one
  connected, \* gmail_connected
  consent,   \* the consent page in the user's browser: "none", "open", or
             \* "stale" when the state it carries has expired
  lock,      \* the Redis key tasklock:sync_gmail exists
  sync,      \* sync[s]: a run of sync_gmail
  mail,      \* mail[m]: the row of email m: "none", "stored", or "classified" when it
             \* is processed
  job,       \* job[t]: a delivery of the classification message, its task and what
             \* came of it
  count,     \* the counter ratelimit:ai:<provider> in Redis, 0 when there is none
  ttl,       \* the counter has a time to live
  missed,    \* history: emails that a page had no room for, or that arrived while
             \* the page was being stored
  unexpired, \* history: the EXPIRE of the counter was never made
  faults     \* the faults there have been

inbox   == <<arrived, cursor>>
account == <<token, revoked, connected, consent>>
limiter == <<count, ttl, unexpired>>
work    == <<mail, job>>
vars    == <<inbox, account, lock, sync, work, limiter, missed, faults>>

Mails == 1..MailBound

\* Delivery 0 of an email's message is the one the sync asked for; another has the
\* number of the fault it is.
Deliveries == 0..FaultBound
Tasks      == Mails \X Deliveries

Waiting  == {"queued", "expire", "ask"}
Answered == {"plain", "announce", "announced", "untold"}

Idle  == [pc |-> "idle", token |-> 0, from |-> 0, upto |-> 0, page |-> {}, mine |-> {}]

Fault == faults < FaultBound /\ faults' = faults + 1

\* The next of a set of emails, if there is one: Gmail lists the newest first.
Newest(S) == {m \in S : \A n \in S : n <= m}

Init ==
  /\ arrived = 0 /\ cursor = 0
  /\ token = 0 /\ revoked = 0 /\ connected = FALSE /\ consent = "none"
  /\ lock = FALSE
  /\ sync = [s \in Syncs |-> Idle]
  /\ mail = [m \in Mails |-> "none"]
  /\ job = [t \in Tasks |-> "none"]
  /\ count = 0 /\ ttl = FALSE /\ unexpired = FALSE
  /\ missed = {}
  /\ faults = 0

(***************************************************************************)
(* Connecting: the state of the consent page is a signed JWT that expires. *)
(***************************************************************************)

BeginConsent ==
  /\ consent = "none" /\ token < TokenBound
  /\ consent' = "open"
  /\ UNCHANGED <<inbox, token, revoked, connected, lock, sync, work, limiter, missed, faults>>

\* Ten minutes later.
StateExpires ==
  /\ consent = "open"
  /\ consent' = "stale"
  /\ UNCHANGED <<inbox, token, revoked, connected, lock, sync, work, limiter, missed, faults>>

\* decode_state returns the user of the page.
StateValid == consent = "open"

Returns ==
  /\ consent' = "none"
  /\ UNCHANGED <<inbox, revoked, lock, sync, work, limiter, missed, faults>>

\* An expired state is a 401; a refused code, or an answer without a refresh token,
\* is a 400.
CallbackRefused ==
  /\ consent # "none"
  /\ Returns
  /\ UNCHANGED <<token, connected>>

\* The user's row was read before the code was exchanged.  If it said connected then,
\* that is not written again, and a sync that fails in between has the last word, as
\* if it had failed just after.
Connect ==
  /\ StateValid
  /\ token' = token + 1
  /\ connected' = TRUE
  /\ Returns

\* The user withdraws the access at Google.
Revoke ==
  /\ revoked < token
  /\ revoked' = token
  /\ UNCHANGED <<inbox, token, connected, consent, lock, sync, work, limiter, missed, faults>>

(***************************************************************************)
(* sync_gmail.                                                             *)
(***************************************************************************)

Arrive ==
  /\ arrived < MailBound
  /\ arrived' = arrived + 1
  /\ UNCHANGED <<cursor, account, lock, sync, work, limiter, missed, faults>>

Runs(s, run) == sync' = [sync EXCEPT ![s] = run]

\* The run that is over deletes the key, its own or another's.
Ends(s) == Runs(s, Idle) /\ lock' = FALSE

\* The connected user's row is read once, at the start.
StartSync(s) ==
  /\ sync[s].pc = "idle" /\ ~lock /\ connected
  /\ lock' = TRUE
  /\ Runs(s, [Idle EXCEPT !.pc = "fetch", !.token = token, !.from = cursor])
  /\ UNCHANGED <<inbox, account, work, limiter, missed, faults>>

LockExpires ==
  /\ lock
  /\ lock' = FALSE
  /\ UNCHANGED <<inbox, account, sync, work, limiter, missed, faults>>

Since(c) == {m \in 1..arrived : m > c}
Page(c)  == {m \in Since(c) : Cardinality({n \in Since(c) : n > m}) < PageSize}

Fetch(s) ==
  LET from == sync[s].from IN
  /\ sync[s].pc = "fetch" /\ sync[s].token > revoked
  /\ Runs(s, [Idle EXCEPT !.pc = "lookup", !.page = Page(from), !.upto = arrived])
  /\ missed' = missed \cup (Since(from) \ Page(from))
  /\ UNCHANGED <<inbox, account, lock, work, limiter, faults>>

\* Whatever the exception, the connection is marked as broken, also when the user
\* has connected again since the row was read; then a SYSTEM alert is sent.
FetchFails(s) ==
  /\ sync[s].pc = "fetch"
  /\ IF sync[s].token > revoked THEN Fault ELSE UNCHANGED faults
  /\ connected' = FALSE
  /\ Ends(s)
  /\ UNCHANGED <<inbox, token, revoked, consent, work, limiter, missed>>

\* get_by_gmail_message_id finds a row of the email.
Known(m) == mail[m] # "none"

LookUp(s) ==
  /\ sync[s].pc = "lookup"
  /\ \E m \in Newest(sync[s].page) :
       \/ ~Known(m) /\ Runs(s, [sync[s] EXCEPT !.pc = "insert"])
       \/ Known(m) /\ Runs(s, [sync[s] EXCEPT !.page = @ \ {m}])
  /\ UNCHANGED <<inbox, account, lock, work, limiter, missed, faults>>

\* The insert of a row that another run has inserted and not committed waits.
Insert(s) ==
  /\ sync[s].pc = "insert"
  /\ \E m \in Newest(sync[s].page) :
       /\ ~Known(m)
       /\ \A r \in Syncs : sync[r].pc # "send" => m \notin sync[r].mine
       /\ Runs(s, [sync[s] EXCEPT !.pc = "lookup", !.page = @ \ {m}, !.mine = @ \cup {m}])
  /\ UNCHANGED <<inbox, account, lock, work, limiter, missed, faults>>

\* gmail_message_id is unique: the run ends and rolls back.
InsertCollides(s) ==
  /\ sync[s].pc = "insert"
  /\ \E m \in Newest(sync[s].page) : Known(m)
  /\ Ends(s)
  /\ UNCHANGED <<inbox, account, work, limiter, missed, faults>>

\* The sender, the recipients or the subject may be too long for its column, of any
\* email: the flush raises, the run ends, and the cursor stays where it is.
InsertRefused(s) ==
  /\ sync[s].pc = "insert"
  /\ \E m \in Newest(sync[s].page) : ~Known(m)
  /\ Ends(s)
  /\ UNCHANGED <<inbox, account, work, limiter, missed, faults>>

Late(s) == {m \in Mails : sync[s].upto < m /\ m <= arrived}

StoresMine(s) ==
  /\ missed' = (missed \cup Late(s)) \ sync[s].mine
  /\ mail' = [m \in Mails |-> IF m \in sync[s].mine THEN "stored" ELSE mail[m]]
  /\ Runs(s, [Idle EXCEPT !.pc = "send", !.mine = sync[s].mine])
  /\ UNCHANGED <<arrived, account, lock, job, limiter, faults>>

\* Variant: the cursor is committed before the rows are.
CommitCursorFirst(s) ==
  /\ sync[s].pc \in {"lookup", "insert"}
  /\ cursor' = arrived
  /\ StoresMine(s)

\* Variant: last_synced is rounded up.
CommitAhead(s) ==
  /\ sync[s].pc = "lookup" /\ sync[s].page = {}
  /\ cursor' = arrived + 1
  /\ StoresMine(s)

\* last_synced becomes the time of the commit, not of the fetch.
Commit(s) ==
  /\ sync[s].pc = "lookup" /\ sync[s].page = {}
  /\ cursor' = arrived
  /\ StoresMine(s)

Send(s) ==
  /\ sync[s].pc = "send"
  /\ \E m \in Newest(sync[s].mine) :
       /\ job' = [job EXCEPT ![<<m, 0>>] = "queued"]
       /\ Runs(s, [sync[s] EXCEPT !.mine = @ \ {m}])
  /\ UNCHANGED <<inbox, account, lock, mail, limiter, missed, faults>>

\* Variant: the run ends with messages still to send.
FinishesEarly(s) ==
  /\ sync[s].pc = "send"
  /\ Ends(s)
  /\ UNCHANGED <<inbox, account, work, limiter, missed, faults>>

Finish(s) ==
  /\ sync[s].pc = "send" /\ sync[s].mine = {}
  /\ Ends(s)
  /\ UNCHANGED <<inbox, account, work, limiter, missed, faults>>

\* The worker is killed, the database or the broker is lost: the messages the run
\* had still to send are never sent.
SyncDies(s) ==
  /\ Fault
  /\ sync[s].pc # "idle"
  /\ job' = [t \in Tasks |-> IF sync[s].pc = "send" /\ t \in sync[s].mine \X {0}
                              THEN "dropped" ELSE job[t]]
  /\ Runs(s, Idle)
  /\ lock' \in {lock, FALSE}
  /\ UNCHANGED <<inbox, account, mail, limiter, missed>>

(***************************************************************************)
(* classify_email_task: AIService._call, the commit, the notification.     *)
(***************************************************************************)

Job(t, old, new) == job[t] = old /\ job' = [job EXCEPT ![t] = new]

\* A message is acknowledged when its task starts, and nothing sends it again.
GivesUp(t) == job' = [job EXCEPT ![t] = "dropped"]

\* A message that no worker starts before the broker's visibility timeout is
\* delivered again, and both deliveries are carried out.
Redeliver(t) ==
  /\ Fault
  /\ t[2] = faults' /\ Job(t, "none", "queued")
  /\ \E u \in Tasks : u[1] = t[1] /\ job[u] = "queued"
  /\ UNCHANGED <<inbox, account, lock, sync, mail, limiter, missed>>

\* Variant: the EXPIRE is made by the second call.
AdmitsSecond(t) ==
  /\ count < AiLimit
  /\ count' = count + 1
  /\ Job(t, "queued", IF count = 1 THEN "expire" ELSE "ask")
  /\ UNCHANGED <<inbox, account, lock, sync, mail, ttl, unexpired, missed, faults>>

\* INCR: the first call of a window has its EXPIRE still to make.
Admit(t) ==
  /\ count < AiLimit
  /\ count' = count + 1
  /\ Job(t, "queued", IF count = 0 THEN "expire" ELSE "ask")
  /\ UNCHANGED <<inbox, account, lock, sync, mail, ttl, unexpired, missed, faults>>

\* The counter counts the refused calls too; past the limit its value is not told apart.
Refuse(t) ==
  /\ job[t] = "queued" /\ count >= AiLimit
  /\ count' = AiLimit + 1
  /\ GivesUp(t)
  /\ UNCHANGED <<inbox, account, lock, sync, mail, ttl, unexpired, missed, faults>>

Expire(t) ==
  /\ Job(t, "expire", "ask")
  /\ ttl' = TRUE
  /\ UNCHANGED <<inbox, account, lock, sync, mail, count, unexpired, missed, faults>>

\* Redis is unreachable: the call is let through, and a counter that was just
\* created keeps no time to live.
FailOpen(t) ==
  /\ Fault
  /\ \/ Job(t, "queued", "ask") /\ UNCHANGED unexpired
     \/ Job(t, "expire", "ask") /\ unexpired' = TRUE
  /\ UNCHANGED <<inbox, account, lock, sync, mail, count, ttl, missed>>

WindowEnds ==
  /\ ttl
  /\ count' = 0 /\ ttl' = FALSE
  /\ UNCHANGED <<inbox, account, lock, sync, work, unexpired, missed, faults>>

\* The answer is committed; interviews, offers and tests are announced.
Classify(t) ==
  /\ Job(t, "ask", "announce") \/ Job(t, "ask", "plain")
  /\ mail' = [mail EXCEPT ![t[1]] = "classified"]
  /\ UNCHANGED <<inbox, account, lock, sync, limiter, missed, faults>>

\* An answer that fails validation, a timeout, a lost connection or worker.
ClassifyFails(t) ==
  /\ Fault
  /\ job[t] \in Waiting
  /\ unexpired' = (unexpired \/ job[t] = "expire")
  /\ GivesUp(t)
  /\ UNCHANGED <<inbox, account, lock, sync, mail, count, ttl, missed>>

\* NotificationService.notify: sent to Telegram, then its row is committed.
Announce(t) ==
  /\ Job(t, "announce", "announced")
  /\ UNCHANGED <<inbox, account, lock, sync, mail, limiter, missed, faults>>

\* A failed send is noted as failed, and no one sends it again.
AnnounceFails(t) ==
  /\ Fault
  /\ Job(t, "announce", "untold")
  /\ UNCHANGED <<inbox, account, lock, sync, mail, limiter, missed>>

(***************************************************************************)
(* The specification.                                                      *)
(***************************************************************************)

SyncStep(s) ==
  \/ StartSync(s) \/ Fetch(s) \/ FetchFails(s) \/ LookUp(s) \/ Insert(s)
  \/ InsertCollides(s) \/ InsertRefused(s) \/ Commit(s) \/ Send(s) \/ Finish(s)
  \/ SyncDies(s)

JobStep(t) ==
  \/ Redeliver(t) \/ Admit(t) \/ Refuse(t) \/ Expire(t) \/ FailOpen(t)
  \/ Classify(t) \/ ClassifyFails(t) \/ Announce(t) \/ AnnounceFails(t)

Next ==
  \/ BeginConsent \/ StateExpires \/ CallbackRefused \/ Connect \/ Revoke
  \/ Arrive \/ LockExpires \/ WindowEnds
  \/ \E s \in Syncs : SyncStep(s)
  \/ \E t \in Tasks : JobStep(t)

Spec == Init /\ [][Next]_vars

(***************************************************************************)
(* Properties.                                                             *)
(***************************************************************************)

Run == [pc : {"idle", "fetch", "lookup", "insert", "send"},
        token : 0..TokenBound, from : 0..MailBound, upto : 0..MailBound,
        page : SUBSET Mails, mine : SUBSET Mails]

\* Every variable has its type.
TypeOK ==
  /\ arrived \in 0..MailBound /\ cursor \in 0..arrived
  /\ token \in 0..TokenBound /\ revoked \in 0..token
  /\ connected \in BOOLEAN /\ consent \in {"none", "open", "stale"}
  /\ lock \in BOOLEAN
  /\ sync \in [Syncs -> Run]
  /\ mail \in [Mails -> {"none", "stored", "classified"}]
  /\ job \in [Tasks -> {"none", "dropped"} \cup Waiting \cup Answered]
  /\ count \in 0..(AiLimit + 1) /\ ttl \in BOOLEAN /\ unexpired \in BOOLEAN
  /\ missed \in SUBSET Mails
  /\ faults \in 0..FaultBound

\* The sync loses an email in two ways only: it did not fit the page it belonged
\* to, or it arrived between the fetch and the commit that moves the cursor.
\* Crashes, collisions, refused rows and overlapping runs lose none.
MissedExplained == \A m \in 1..cursor : mail[m] = "none" => m \in missed

\* The limiter's counter has a time to live, or will be given one by the call that
\* created it, unless Redis or that call was lost between INCR and EXPIRE.
CounterExpires == count > 0 /\ ~ttl => unexpired \/ \E t \in Tasks : job[t] = "expire"

\* A stored email that is not classified has a task, or its message is about to be
\* sent, or its run died before that or the limiter or the provider refused it, which
\* is never tried again.  It is classified exactly if a delivery of its message was
\* answered, so none is announced whose answer is not committed; and the deliveries
\* that follow one another, or race, do not undo that.
UnsettledExplained ==
  /\ \A m \in Mails : mail[m] = "stored" =>
       \/ \E t \in Tasks : t[1] = m /\ job[t] \in Waiting \cup {"dropped"}
       \/ \E s \in Syncs : sync[s].pc = "send" /\ m \in sync[s].mine
  /\ \A m \in Mails :
       mail[m] = "classified" <=> \E t \in Tasks : t[1] = m /\ job[t] \in Answered

\* Whatever runs overlap, collide or die, and whatever the broker delivers again, an
\* email goes through EmailLifecycle.
Lifecycle == INSTANCE EmailLifecycle WITH
  try <- [t \in Tasks |-> IF job[t] \in Waiting THEN "open" ELSE job[t]]
LifecycleSafe == Lifecycle!Safe

\* The runs under way are the users of sync_gmail's lock.
Lock == INSTANCE TaskLock WITH
  Users <- Syncs, held <- lock, inside <- {s \in Syncs : sync[s].pc # "idle"}
LockSafe == Lock!Safe
===============================================================================
