------------------------------- MODULE Telegram -------------------------------
(***************************************************************************)
(* The Telegram bot: POST /telegram/webhook, the Command Router and the    *)
(* command handlers.  Telegram delivers each update to the webhook, several *)
(* at a time, and delivers it again when the answer is an error or does    *)
(* not come in time; update_id is not remembered.  What the commands       *)
(* change: one of the feature flags that /settings and POST /settings set, *)
(* and the job under the review buttons.  Both are read, assigned to and   *)
(* committed, and the ORM writes only what differs from what it has read.  *)
(* /pause and /resume treat their own flag the same way, which POST        *)
(* /settings does not know: with no Requests, the flag is that one.        *)
(***************************************************************************)
EXTENDS Naturals, FiniteSets

CONSTANTS
  Deliveries,  \* webhook requests under way at once (a bound)
  Requests,    \* POST /settings requests under way at once (a bound)
  UpdateBound, \* bound: updates sent
  Default,     \* the environment's default of the flag
  Kinds,       \* what the user sends: commands, words, review buttons
  ReviewBound, \* messages /review sends, one for each job (5)
  FaultBound   \* bound: failures, time-outs and throttled messages

ASSUME BoundsAssumption ==
  UpdateBound \in Nat /\ FaultBound \in Nat /\ ReviewBound \in Nat \ {0}
ASSUME KindsAssumption == "none" \notin Kinds
ASSUME DefaultAssumption == Default \in {"on", "off"}

VARIABLES
  role,    \* the role of the chat's user, or "stranger"
  kind,    \* kind[u]: what update u is, "none" before it is sent
  tried,   \* the newest update that has been delivered
  acked,   \* updates Telegram has had a 200 for
  at,      \* at[d]: a webhook request
  web,     \* web[r]: a POST /settings request
  flag,    \* the feature_flags row: "none", "on" or "off"
  job,     \* the job under review: "review", "applied" or "skipped"
  rows,    \* the applications of that job
  by,      \* history: the update that wrote the flag last, 0 for POST /settings
  newest,  \* history: the newest flag command that was carried out
  edits,   \* history: how often POST /settings has written the flag
  base,    \* history: edits when the newest command looked the flag up
  strayed, \* history: updates delivered twice, or together with another one
  faults   \* the faults there have been

store == <<flag, job, rows, by, newest, edits, base>>
vars  == <<role, kind, tried, acked, at, web, store, strayed, faults>>

Updates == 1..UpdateBound
Free    == [pc |-> "free", u |-> 0, heard |-> FALSE, seen |-> "none", edits |-> 0, left |-> 0]
NoForm  == [pc |-> "none", seen |-> "none", to |-> "none"]

FlagValues == {"none", "on", "off"}
Statuses   == {"review", "applied", "skipped"}

\* seen is what was read of the flag or the job's status; edits is history: those
\* that had been made by then.
Delivery == [pc : {"free", "routed", "search", "write", "reply"}, u : 0..UpdateBound,
             heard : BOOLEAN, seen : FlagValues \cup Statuses, edits : Nat,
             left : 0..ReviewBound]
Form     == [pc : {"none", "write", "done"}, seen : FlagValues, to : FlagValues]

(***************************************************************************)
(* The command tables.                                                     *)
(***************************************************************************)

AdminOnly    == {"logs"}
NotAvailable == {"retry"}
FlagCommands == {"enable", "disable"}     \* /settings <key> on|off
Commands     == {"stats", "review", "search"} \cup AdminOnly \cup NotAvailable \cup FlagCommands
Buttons      == {"apply", "skip", "view"}

Lone         == {"slash"}                 \* the message "/" and nothing else

\* What the assistant may run; it passes no arguments, so /settings only lists.
Eligible == {c \in {"stats", "review", "logs"} : c \notin AdminOnly \/ role = "admin"}

Allowed(c) == c \notin NotAvailable /\ (c \in AdminOnly => role = "admin")

\* What the seed script has left of the flag: a row with the default, or
\* none, where it has not been run or does not know the flag.
Seeded == {"none", Default}

\* get_by_key finds the row.
HasRow == flag # "none"

Init ==
  /\ role \in {"admin", "user", "stranger"}
  /\ kind = [u \in Updates |-> "none"]
  /\ tried = 0 /\ acked = {}
  /\ at = [d \in Deliveries |-> Free]
  /\ web = [r \in Requests |-> NoForm]
  /\ flag \in Seeded /\ job = "review" /\ rows = 0
  /\ by = 0 /\ newest = 0 /\ edits = 0 /\ base = 0
  /\ strayed = {}
  /\ faults = 0

Fault == faults < FaultBound /\ faults' = faults + 1

(***************************************************************************)
(* Telegram's side.                                                        *)
(***************************************************************************)

Sent   == {u \in Updates : kind[u] # "none"}
Active == {d \in Deliveries : at[d].pc # "free"}

UserSends(u, k) ==
  /\ u = Cardinality(Sent) + 1
  /\ kind' = [kind EXCEPT ![u] = k]
  /\ UNCHANGED <<role, tried, acked, at, web, store, strayed, faults>>

\* The first deliveries keep the order of the updates.  An update is not delivered
\* again while Telegram still waits for its answer.  Slots are alike: any free one.
Deliver(d, u) ==
  /\ d \notin Active /\ d = CHOOSE e \in Deliveries : e \notin Active
  /\ u \in Sent \ acked /\ u <= tried + 1
  /\ \A e \in Active : at[e].u = u => ~at[e].heard
  /\ at' = [at EXCEPT ![d] = [Free EXCEPT !.pc = "routed", !.u = u, !.heard = TRUE]]
  /\ tried' = IF u > tried THEN u ELSE tried
  /\ strayed' = IF Active = {} THEN strayed ELSE strayed \cup {u} \cup {at[e].u : e \in Active}
  /\ UNCHANGED <<role, kind, acked, web, store, faults>>

\* Telegram has stopped waiting; the handler goes on.  A search and the scoring
\* that follows it may always take longer than Telegram waits.
TimesOut(d) ==
  /\ at[d].heard
  /\ IF at[d].pc = "search" THEN UNCHANGED faults ELSE Fault
  /\ at' = [at EXCEPT ![d].heard = FALSE]
  /\ strayed' = strayed \cup {at[d].u}
  /\ UNCHANGED <<role, kind, tried, acked, web, store>>

(***************************************************************************)
(* handle_update.                                                          *)
(***************************************************************************)

Moves(d, rec) ==
  /\ at' = [at EXCEPT ![d] = rec]
  /\ UNCHANGED <<role, kind, tried, acked, web, strayed>>

\* The reply: one message, or one for each job under review.
Replies(d, k) ==
  \E n \in IF k = "review" THEN 1..ReviewBound ELSE {1} :
    Moves(d, [at[d] EXCEPT !.pc = "reply", !.left = n, !.seen = "none", !.edits = 0])

Routed(d, ks) == at[d].pc = "routed" /\ kind[at[d].u] \in ks

\* A chat without a user; a button press is told the same.
TurnedAway(d) ==
  /\ Routed(d, Kinds) /\ role = "stranger"
  /\ Replies(d, "denied")
  /\ UNCHANGED <<store, faults>>

\* Too many messages; the buttons are not counted.
Throttled(d) ==
  /\ Fault
  /\ Routed(d, Commands \cup Lone \cup {"words"})
  /\ Replies(d, "denied")
  /\ UNCHANGED store

\* dispatch_command: refusals and the commands that only read.
Dispatch(d) ==
  LET k == kind[at[d].u] IN
  /\ Routed(d, Commands) /\ role # "stranger"
  /\ k \in FlagCommands => ~Allowed(k)
  /\ IF k = "search" THEN Moves(d, [at[d] EXCEPT !.pc = "search"])
                     ELSE Replies(d, IF Allowed(k) THEN k ELSE "denied")
  /\ UNCHANGED <<store, faults>>

\* /search runs the search cycle and the scoring inside the webhook request.
Searched(d) ==
  /\ at[d].pc = "search"
  /\ Replies(d, "search")
  /\ UNCHANGED <<store, faults>>

\* Variant: whatever command the assistant names is run.
AssistWithAnything(d) ==
  /\ Routed(d, {"words"}) /\ role # "stranger"
  /\ \E c \in Commands :
       IF c \in FlagCommands THEN /\ flag' = "off"
                                  /\ Replies(d, c)
                                  /\ UNCHANGED <<job, rows, by, newest, edits, base>>
                             ELSE Replies(d, c) /\ UNCHANGED store
  /\ UNCHANGED faults

\* dispatch_freeform_message: the model may name any command, or fail.
Assist(d) ==
  /\ Routed(d, {"words"}) /\ role # "stranger"
  /\ \E c \in Commands : Replies(d, IF c \in Eligible THEN c ELSE "words")
  /\ UNCHANGED <<store, faults>>

\* FeatureFlagService.set and _set_pause_flag: the row is looked up ...
LookUpFlag(d) ==
  /\ Routed(d, FlagCommands) /\ role # "stranger"
  /\ Moves(d, [at[d] EXCEPT !.pc = "write", !.seen = flag, !.edits = edits])
  /\ UNCHANGED <<store, faults>>

Value(k) == IF k = "enable" THEN "on" ELSE "off"

\* What is committed: no UPDATE where the value assigned is the one that was read,
\* whatever the row has become since.
Written(now, seen, new) == IF seen = new THEN now ELSE new

\* The command of update u, which was looked up at its edits, is carried out.
CarriedOut(u, ed) ==
  IF u >= newest THEN newest' = u /\ base' = ed ELSE UNCHANGED <<newest, base>>

\* Variant: a row that exists keeps its value.
WriteNewFlag(d) ==
  LET u == at[d].u IN
  /\ at[d].pc = "write" /\ kind[u] \in FlagCommands
  /\ at[d].seen # "none" \/ ~HasRow
  /\ flag' = IF HasRow THEN flag ELSE Value(kind[u])
  /\ by' = IF HasRow THEN by ELSE u
  /\ CarriedOut(u, at[d].edits)
  /\ Replies(d, kind[u])
  /\ UNCHANGED <<job, rows, edits, faults>>

\* ... then created or updated; the key is unique.
WriteFlag(d) ==
  LET u == at[d].u
      v == Value(kind[u])
  IN /\ at[d].pc = "write" /\ kind[u] \in FlagCommands
     /\ at[d].seen # "none" \/ ~HasRow
     /\ flag' = Written(flag, at[d].seen, v)
     /\ by' = IF at[d].seen = v THEN by ELSE u
     /\ CarriedOut(u, at[d].edits)
     /\ Replies(d, kind[u])
     /\ UNCHANGED <<job, rows, edits, faults>>

\* handle_job_review_callback: the job is read, and for Apply its applications.
LookUpJob(d) ==
  /\ Routed(d, Buttons) /\ role # "stranger"
  /\ IF kind[at[d].u] = "view" \/ (kind[at[d].u] = "apply" /\ rows > 0)
       THEN Replies(d, "view")
       ELSE Moves(d, [at[d] EXCEPT !.pc = "write", !.seen = job])
  /\ UNCHANGED <<store, faults>>

Skip(d) ==
  /\ at[d].pc = "write" /\ kind[at[d].u] = "skip"
  /\ job' = Written(job, at[d].seen, "skipped")
  /\ Replies(d, "skip")
  /\ UNCHANGED <<flag, rows, by, newest, edits, base, faults>>

Apply(d) ==
  /\ at[d].pc = "write" /\ kind[at[d].u] = "apply"
  /\ job' = Written(job, at[d].seen, "applied") /\ rows' = rows + 1
  /\ Replies(d, "apply")
  /\ UNCHANGED <<flag, by, newest, edits, base, faults>>

\* Variant: one reply more than there are jobs.
SendOneMore(d) ==
  /\ at[d].pc = "reply" /\ at[d].left >= 0
  /\ Moves(d, [at[d] EXCEPT !.left = @ - 1])
  /\ UNCHANGED <<store, faults>>

SendReply(d) ==
  /\ at[d].pc = "reply" /\ at[d].left > 1
  /\ Moves(d, [at[d] EXCEPT !.left = @ - 1])
  /\ UNCHANGED <<store, faults>>

\* Telegram takes note of a 200 only while it waits for it.
Answer(d) ==
  /\ at[d].pc = "reply" /\ at[d].left = 1
  /\ acked' = IF at[d].heard THEN acked \cup {at[d].u} ELSE acked
  /\ at' = [at EXCEPT ![d] = Free]
  /\ UNCHANGED <<role, kind, tried, web, store, strayed, faults>>

Abandons(d) ==
  /\ at' = [at EXCEPT ![d] = Free]
  /\ strayed' = strayed \cup {at[d].u}
  /\ UNCHANGED <<role, kind, tried, acked, web, store>>

\* Variant: the insert is tried again for as long as it collides.
CollidesForever(d) ==
  /\ at[d].pc = "write" /\ kind[at[d].u] \in FlagCommands
  /\ at[d].seen = "none" /\ HasRow
  /\ UNCHANGED vars

\* The flag was created in between: the insert fails, and the webhook with it.
FlagCollides(d) ==
  /\ at[d].pc = "write" /\ kind[at[d].u] \in FlagCommands
  /\ at[d].seen = "none" /\ HasRow
  /\ Abandons(d)
  /\ UNCHANGED faults

\* The command of a lone slash is the first of no words: an IndexError.
NoWord(d) ==
  /\ Routed(d, Lone) /\ role # "stranger"
  /\ Abandons(d)
  /\ UNCHANGED faults

\* Telegram cannot be reached for the reply, the database is lost, the process dies.
Fails(d) ==
  /\ Fault
  /\ at[d].pc # "free"
  /\ Abandons(d)

(***************************************************************************)
(* POST /settings from the dashboard.                                      *)
(***************************************************************************)

WebLookUp(r) ==
  /\ web[r].pc = "none"
  /\ \E to \in {"on", "off"} :
       web' = [web EXCEPT ![r] = [pc |-> "write", seen |-> flag, to |-> to]]
  /\ UNCHANGED <<role, kind, tried, acked, at, store, strayed, faults>>

\* A collision is answered with a 500, and the user may try again.
WebWrite(r) ==
  /\ web[r].pc = "write"
  /\ IF web[r].seen = web[r].to \/ (web[r].seen = "none" /\ HasRow)
       THEN UNCHANGED <<flag, by, edits>>
       ELSE flag' = web[r].to /\ by' = 0 /\ edits' = edits + 1
  /\ web' = [web EXCEPT ![r] = [NoForm EXCEPT !.pc = "done"]]
  /\ UNCHANGED <<role, kind, tried, acked, at, job, rows, newest, base, strayed, faults>>

(***************************************************************************)
(* The specification.                                                      *)
(***************************************************************************)

Handle(d) ==
  \/ Dispatch(d) \/ Assist(d) \/ LookUpFlag(d) \/ WriteFlag(d) \/ FlagCollides(d)
  \/ Searched(d) \/ NoWord(d) \/ TurnedAway(d)
  \/ LookUpJob(d) \/ Skip(d) \/ Apply(d) \/ SendReply(d) \/ Answer(d)

Next ==
  \/ \E u \in Updates, k \in Kinds : UserSends(u, k)
  \/ \E d \in Deliveries, u \in Updates : Deliver(d, u)
  \/ \E d \in Deliveries : Handle(d) \/ Throttled(d) \/ TimesOut(d) \/ Fails(d)
  \/ \E r \in Requests : WebLookUp(r) \/ WebWrite(r)

Redeliver(u) == \E d \in Deliveries : Deliver(d, u)

Fairness ==
  /\ \A d \in Deliveries : WF_vars(Handle(d))
  /\ \A u \in Updates : SF_vars(Redeliver(u))

Spec == Init /\ [][Next]_vars /\ Fairness

(***************************************************************************)
(* Properties.                                                             *)
(***************************************************************************)

\* Every variable has its type.
TypeOK ==
  /\ role \in {"admin", "user", "stranger"}
  /\ kind \in [Updates -> Kinds \cup {"none"}]
  /\ tried \in 0..UpdateBound /\ acked \in SUBSET Sent
  /\ at \in [Deliveries -> Delivery]
  /\ web \in [Requests -> Form]
  /\ flag \in FlagValues /\ job \in Statuses
  /\ rows \in Nat
  /\ by \in 0..UpdateBound /\ newest \in 0..UpdateBound
  /\ edits \in Nat /\ base \in Nat
  /\ strayed \in SUBSET Sent
  /\ faults \in 0..FaultBound

\* The flag is what the newest command that was carried out has set it to, unless the
\* dashboard has written it since that command looked it up, or the last to write it
\* was a command delivered again or together with another update.
FlagFollowsNewest ==
  newest # 0 /\ flag # Value(kind[newest]) => edits > base \/ by \in strayed

\* The Apply button makes a second application of a job only by a press that was
\* delivered twice or together with another update.
SecondNeedsStray == rows > 1 => \E u \in strayed : kind[u] = "apply"

\* Words change nothing: whatever command the model names, only one of the
\* reading commands can follow.
AssistantReadsOnly ==
  [][\A d \in Deliveries : at[d].u # 0 /\ kind[at[d].u] = "words" /\ at'[d] # at[d]
                           => UNCHANGED <<flag, job, rows>>]_vars

\* Every update is answered in the end, whatever failed on the way: an error,
\* a collision of two first writers of the flag included, has it delivered again.
\* Two kinds are not, however often they are delivered: /search, which may always
\* take longer than Telegram waits, and a lone slash, which always fails.
EveryUpdateAnswered ==
  \A u \in Updates :
    (u \in Sent /\ kind[u] \notin {"search"} \cup Lone) ~> u \in acked
===============================================================================
