------------------------------- MODULE MailProofs -------------------------------
(***************************************************************************)
(* Proofs about Mail, for any number of syncs, emails, consents and faults, *)
(* any page size and any limit of the AI provider's calls.                 *)
(***************************************************************************)
EXTENDS Mail, TLAPS

USE DEF Known

(***************************************************************************)
(* Types.  A consent page is opened only while another consent is possible, *)
(* and its callback counts one.                                            *)
(***************************************************************************)

ConsentCounted == consent # "none" => token < TokenBound

TypeInv == TypeOK /\ ConsentCounted

\* A task is a delivery of an email's message, and each email has a first one.
LEMMA TaskType ==
  /\ \A t \in Tasks : t[1] \in Mails /\ t[2] \in 0..FaultBound
  /\ \A m \in Mails : <<m, 0>> \in Tasks
  BY BoundsAssumption DEF Tasks, Deliveries

LEMMA IdleType == Idle \in Run
  BY BoundsAssumption DEF Idle, Run

\* The states a run enters from its start, its fetch and its commit.
LEMMA EnteredTypes ==
  ASSUME NEW c \in 0..TokenBound, NEW from \in 0..MailBound, NEW S \in SUBSET Mails
  PROVE  /\ [Idle EXCEPT !.pc = "fetch", !.token = c, !.from = from] \in Run
         /\ [Idle EXCEPT !.pc = "lookup", !.page = S, !.upto = from] \in Run
         /\ [Idle EXCEPT !.pc = "send", !.mine = S] \in Run
<1>1. [Idle EXCEPT !.pc = "fetch", !.token = c, !.from = from] \in Run
  BY IdleType DEF Run
<1>2. [Idle EXCEPT !.pc = "lookup", !.page = S, !.upto = from] \in Run
  BY IdleType DEF Run
<1>3. [Idle EXCEPT !.pc = "send", !.mine = S] \in Run
  BY IdleType DEF Run
<1> QED BY <1>1, <1>2, <1>3

\* Every step keeps the types.
LEMMA TypeStep == TypeInv /\ [Next]_vars => TypeInv'
<1> SUFFICES ASSUME TypeInv, [Next]_vars PROVE TypeInv'
  OBVIOUS
<1> USE BoundsAssumption DEF TypeInv, TypeOK, ConsentCounted, inbox, account, limiter, work
<1>a. Idle \in Run /\ sync \in [Syncs -> Run]
  BY IdleType
<1>b. ASSUME NEW s \in Syncs, NEW run \in Run, Runs(s, run)
      PROVE  sync' \in [Syncs -> Run]
  BY <1>a, <1>b DEF Runs
<1>c. faults \in Nat
  OBVIOUS
<1>1. ASSUME BeginConsent \/ StateExpires \/ CallbackRefused \/ Connect \/ Revoke
      PROVE  TypeInv'
  <2>1. CASE BeginConsent
    BY <2>1 DEF BeginConsent
  <2>2. CASE StateExpires
    BY <2>2 DEF StateExpires
  <2>3. CASE CallbackRefused
    BY <2>3 DEF CallbackRefused, Returns
  <2>4. CASE Connect
    BY <2>4 DEF Connect, StateValid, Returns
  <2>5. CASE Revoke
    BY <2>5 DEF Revoke
  <2> QED BY <1>1, <2>1, <2>2, <2>3, <2>4, <2>5
<1>2. ASSUME Arrive \/ LockExpires \/ WindowEnds PROVE TypeInv'
  <2>1. CASE Arrive
    BY <2>1 DEF Arrive
  <2>2. CASE LockExpires
    BY <2>2 DEF LockExpires
  <2>3. CASE WindowEnds
    <3>1. count' = 0 /\ ttl' = FALSE
      BY <2>3 DEF WindowEnds
    <3>2. count' \in 0..(AiLimit + 1)
      BY <3>1
    <3>3. ttl' \in BOOLEAN
      BY <3>1
    <3> QED BY <2>3, <3>2, <3>3 DEF WindowEnds
  <2> QED BY <1>2, <2>1, <2>2, <2>3
<1>3. ASSUME NEW s \in Syncs, SyncStep(s) PROVE TypeInv'
  <2>1. CASE StartSync(s)
    <3>1. [Idle EXCEPT !.pc = "fetch", !.token = token, !.from = cursor] \in Run
      <4>1. token \in 0..TokenBound /\ cursor \in 0..MailBound /\ {} \in SUBSET Mails
        OBVIOUS
      <4> QED BY <4>1, EnteredTypes
    <3>2. sync' \in [Syncs -> Run]
      BY <2>1, <3>1, <1>b DEF StartSync
    <3> QED BY <2>1, <3>2 DEF StartSync
  <2>2. CASE Fetch(s)
    <3>1. Page(sync[s].from) \subseteq Mails /\ Since(sync[s].from) \subseteq Mails
      BY DEF Page, Since, Mails
    <3>2. [Idle EXCEPT !.pc = "lookup", !.page = Page(sync[s].from), !.upto = arrived]
            \in Run
      <4>1. token \in 0..TokenBound /\ arrived \in 0..MailBound
        OBVIOUS
      <4> QED BY <4>1, <3>1, EnteredTypes
    <3>3. sync' \in [Syncs -> Run]
      BY <2>2, <3>2, <1>b DEF Fetch
    <3> QED BY <2>2, <3>1, <3>3 DEF Fetch
  <2>3. CASE FetchFails(s)
    <3>1. sync' \in [Syncs -> Run]
      BY <2>3, <1>a, <1>b DEF FetchFails, Ends
    <3>2. faults' \in 0..FaultBound
      BY <2>3, <1>c DEF FetchFails, Fault
    <3> QED BY <2>3, <3>1, <3>2 DEF FetchFails, Ends
  <2>4. CASE LookUp(s)
    <3>1. PICK m \in Newest(sync[s].page) :
            \/ Runs(s, [sync[s] EXCEPT !.pc = "insert"])
            \/ Runs(s, [sync[s] EXCEPT !.page = @ \ {m}])
      BY <2>4 DEF LookUp
    <3>2. /\ [sync[s] EXCEPT !.pc = "insert"] \in Run
          /\ [sync[s] EXCEPT !.page = @ \ {m}] \in Run
      BY <1>a DEF Run
    <3>3. sync' \in [Syncs -> Run]
      BY <3>1, <3>2, <1>b
    <3> QED BY <2>4, <3>3 DEF LookUp
  <2>5. CASE Insert(s)
    <3>1. PICK m \in Newest(sync[s].page) :
            Runs(s, [sync[s] EXCEPT !.pc = "lookup", !.page = @ \ {m}, !.mine = @ \cup {m}])
      BY <2>5 DEF Insert
    <3>2. m \in Mails
      BY <1>a DEF Newest, Run
    <3>3. [sync[s] EXCEPT !.pc = "lookup", !.page = @ \ {m}, !.mine = @ \cup {m}]
            \in Run
      <4>1. /\ sync[s] \in Run
            /\ sync[s].page \ {m} \in SUBSET Mails /\ sync[s].mine \cup {m} \in SUBSET Mails
        BY <1>a, <3>2 DEF Run
      <4> HIDE DEF TypeOK, Mails
      <4> QED BY <4>1 DEF Run
    <3>4. sync' \in [Syncs -> Run]
      BY <3>1, <3>3, <1>b
    <3> QED BY <2>5, <3>4 DEF Insert
  <2>6. CASE InsertCollides(s) \/ InsertRefused(s)
    <3>1. sync' \in [Syncs -> Run]
      BY <2>6, <1>a, <1>b DEF InsertCollides, InsertRefused, Ends
    <3> QED BY <2>6, <3>1 DEF InsertCollides, InsertRefused, Ends
  <2>7. CASE Commit(s)
    <3>1. [Idle EXCEPT !.pc = "send", !.mine = sync[s].mine] \in Run
      BY <1>a DEF Idle, Run
    <3>2. sync' \in [Syncs -> Run]
      BY <2>7, <3>1, <1>b DEF Commit, StoresMine
    <3> QED BY <2>7, <3>2 DEF Commit, StoresMine, Late
  <2>8. CASE Send(s)
    <3>1. PICK m \in Newest(sync[s].mine) :
            /\ job' = [job EXCEPT ![<<m, 0>>] = "queued"]
            /\ Runs(s, [sync[s] EXCEPT !.mine = @ \ {m}])
      BY <2>8 DEF Send
    <3>2. [sync[s] EXCEPT !.mine = @ \ {m}] \in Run
      BY <1>a DEF Run
    <3>3. sync' \in [Syncs -> Run]
      BY <3>1, <3>2, <1>b
    <3> QED BY <2>8, <3>1, <3>3 DEF Send, Waiting
  <2>9. CASE Finish(s)
    <3>1. sync' \in [Syncs -> Run]
      BY <2>9, <1>a, <1>b DEF Finish, Ends
    <3> QED BY <2>9, <3>1 DEF Finish, Ends
  <2>10. CASE SyncDies(s)
    <3>1. sync' \in [Syncs -> Run]
      BY <2>10, <1>a, <1>b DEF SyncDies
    <3>2. faults' \in 0..FaultBound
      BY <2>10, <1>c DEF SyncDies, Fault
    <3>3. job' \in [Tasks -> {"none", "dropped"} \cup Waiting \cup Answered]
      BY <2>10 DEF SyncDies
    <3> QED BY <2>10, <3>1, <3>2, <3>3 DEF SyncDies
  <2> QED BY <1>3, <2>1, <2>2, <2>3, <2>4, <2>5, <2>6, <2>7, <2>8, <2>9, <2>10 DEF SyncStep
<1>4. ASSUME NEW t \in Tasks, JobStep(t) PROVE TypeInv'
  <2> USE TaskType DEF Waiting, Answered
  <2>0. CASE Redeliver(t)
    BY <1>4, <2>0, <1>c DEF Redeliver, Fault, Job
  <2>1. CASE Admit(t)
    BY <1>4, <2>1 DEF Admit, Job
  <2>2. CASE Refuse(t)
    BY <1>4, <2>2 DEF Refuse, GivesUp
  <2>3. CASE Expire(t)
    BY <1>4, <2>3 DEF Expire, Job
  <2>4. CASE FailOpen(t)
    <3>1. faults' \in 0..FaultBound
      BY <2>4, <1>c DEF FailOpen, Fault
    <3>2. job' \in [Tasks -> {"none", "dropped"} \cup Waiting \cup Answered]
      BY <1>4, <2>4 DEF FailOpen, Job
    <3>3. unexpired' \in BOOLEAN
      BY <2>4 DEF FailOpen
    <3> QED BY <2>4, <3>1, <3>2, <3>3 DEF FailOpen
  <2>5. CASE Classify(t)
    BY <1>4, <2>5 DEF Classify, Job
  <2>6. CASE ClassifyFails(t)
    BY <1>4, <2>6, <1>c DEF ClassifyFails, Fault, GivesUp
  <2>7. CASE Announce(t)
    BY <1>4, <2>7 DEF Announce, Job
  <2>8. CASE AnnounceFails(t)
    BY <1>4, <2>8, <1>c DEF AnnounceFails, Fault, Job
  <2> QED BY <1>4, <2>0, <2>1, <2>2, <2>3, <2>4, <2>5, <2>6, <2>7, <2>8 DEF JobStep
<1>5. ASSUME UNCHANGED vars PROVE TypeInv'
  BY <1>5 DEF vars
<1> QED BY <1>1, <1>2, <1>3, <1>4, <1>5 DEF Next

LEMMA TypeInit == Init => TypeInv
<1> SUFFICES ASSUME Init PROVE TypeInv
  OBVIOUS
<1>1. sync \in [Syncs -> Run]
  BY IdleType DEF Init
<1>2. /\ arrived \in 0..MailBound /\ cursor \in 0..arrived
      /\ token \in 0..TokenBound /\ revoked \in 0..token
      /\ count \in 0..(AiLimit + 1) /\ faults \in 0..FaultBound
  BY BoundsAssumption DEF Init
<1> QED BY <1>1, <1>2 DEF Init, TypeInv, TypeOK, ConsentCounted

\* Every variable keeps its type.
THEOREM TypeCorrect == Spec => []TypeOK
<1>1. TypeInv => TypeOK
  BY DEF TypeInv
<1> QED BY <1>1, TypeInit, TypeStep, PTL DEF Spec

(***************************************************************************)
(* What a run holds.  The rows it has inserted are its own until the       *)
(* commit, and the messages it has still to send are about stored emails   *)
(* that have no task yet.                                                  *)
(***************************************************************************)

Inserting(s) == sync[s].pc \in {"lookup", "insert"}

RowsAreNew == \A s \in Syncs : Inserting(s) => \A m \in sync[s].mine : mail[m] = "none"

MessagesAreFirst ==
  \A s \in Syncs : sync[s].pc = "send" =>
    \A m \in sync[s].mine :
      mail[m] = "stored" /\ \A t \in Tasks : t[1] = m => job[t] = "none"

MinePrivate == \A r, s \in Syncs : r # s => sync[r].mine \cap sync[s].mine = {}

TasksHaveRows == \A t \in Tasks : mail[t[1]] = "none" => job[t] = "none"

MineIsForWork == \A s \in Syncs : sync[s].pc \in {"idle", "fetch"} => sync[s].mine = {}

Held == RowsAreNew /\ MessagesAreFirst /\ MinePrivate /\ TasksHaveRows /\ MineIsForWork

\* What a step of a run does to all of them: only its own record changes.
LEMMA OthersKeep ==
  ASSUME TypeOK, NEW s \in Syncs, NEW run \in Run, Runs(s, run)
  PROVE  /\ sync'[s] = run
         /\ \A r \in Syncs : r # s => sync'[r] = sync[r]
  BY DEF Runs, TypeOK

\* A task's step concerns a stored email with a message, and changes that email only.
LEMMA JobChanges ==
  ASSUME TypeOK, NEW t \in Tasks, JobStep(t)
  PROVE  /\ UNCHANGED sync
         /\ \E u \in Tasks : u[1] = t[1] /\ job[u] # "none"
         /\ \A u \in Tasks : u # t => job'[u] = job[u]
         /\ \A n \in Mails : n # t[1] => mail'[n] = mail[n]
         /\ mail'[t[1]] \in {mail[t[1]], "classified"}
<1> USE TaskType DEF TypeOK
<1>0. CASE Redeliver(t)
  BY <1>0 DEF Redeliver, Job
<1>1. CASE Admit(t)
  BY <1>1 DEF Admit, Job
<1>2. CASE Refuse(t)
  BY <1>2 DEF Refuse, GivesUp
<1>3. CASE Expire(t)
  BY <1>3 DEF Expire, Job
<1>4. CASE FailOpen(t)
  BY <1>4 DEF FailOpen, Job
<1>5. CASE Classify(t)
  BY <1>5 DEF Classify, Job
<1>6. CASE ClassifyFails(t)
  BY <1>6 DEF ClassifyFails, GivesUp, Waiting
<1>7. CASE Announce(t)
  BY <1>7 DEF Announce, Job
<1>8. CASE AnnounceFails(t)
  BY <1>8 DEF AnnounceFails, Job
<1> QED BY <1>0, <1>1, <1>2, <1>3, <1>4, <1>5, <1>6, <1>7, <1>8 DEF JobStep

\* A run that dies sends none of its messages.
LEMMA DyingDrops ==
  ASSUME TypeOK, MessagesAreFirst, NEW s \in Syncs, SyncDies(s)
  PROVE  /\ Runs(s, Idle) /\ mail' = mail
         /\ \A t \in Tasks : \/ /\ sync[s].pc = "send" /\ t[2] = 0 /\ t[1] \in sync[s].mine
                                /\ mail[t[1]] = "stored"
                                /\ job[t] = "none" /\ job'[t] = "dropped"
                             \/ /\ ~(sync[s].pc = "send" /\ t[2] = 0 /\ t[1] \in sync[s].mine)
                                /\ job'[t] = job[t]
<1>1. Runs(s, Idle) /\ mail' = mail
  BY DEF SyncDies
<1>2. \A t \in Tasks : t \in sync[s].mine \X {0} <=> t[2] = 0 /\ t[1] \in sync[s].mine
  BY DEF Tasks
<1>3. ASSUME NEW t \in Tasks, sync[s].pc = "send", t[2] = 0, t[1] \in sync[s].mine
      PROVE  mail[t[1]] = "stored" /\ job[t] = "none" /\ job'[t] = "dropped"
  BY <1>2, <1>3 DEF SyncDies, MessagesAreFirst
<1>4. ASSUME NEW t \in Tasks, ~(sync[s].pc = "send" /\ t[2] = 0 /\ t[1] \in sync[s].mine)
      PROVE  job'[t] = job[t]
  BY <1>2, <1>4 DEF SyncDies
<1> QED BY <1>1, <1>3, <1>4

LEMMA HeldStep == TypeInv /\ Held /\ [Next]_vars => Held'
<1> SUFFICES ASSUME TypeInv, Held, [Next]_vars PROVE Held'
  OBVIOUS
<1> USE DEF inbox, account, limiter, work
<1>t. TypeOK /\ TypeOK'
  BY TypeStep DEF TypeInv
<1>s. \A s \in Syncs : sync[s] \in Run /\ sync[s].mine \subseteq Mails
  BY <1>t DEF TypeOK, Run
<1>h. RowsAreNew /\ MessagesAreFirst /\ MinePrivate /\ TasksHaveRows /\ MineIsForWork
  BY DEF Held
<1>k. ASSUME UNCHANGED <<sync, mail, job>> PROVE Held'
  BY <1>k, <1>h DEF Held, RowsAreNew, MessagesAreFirst, MinePrivate, TasksHaveRows,
                    MineIsForWork, Inserting
<1>i. ASSUME NEW s \in Syncs, NEW run \in Run, Runs(s, run), UNCHANGED <<mail, job>>,
             run.mine \subseteq sync[s].mine,
             run.pc \in {"idle", "fetch"} => run.mine = {},
             run.pc \in {"lookup", "insert"} => Inserting(s) \/ run.mine = {},
             run.pc = "send" => sync[s].pc = "send"
      PROVE  Held'
  <2>1. sync'[s] = run /\ \A r \in Syncs : r # s => sync'[r] = sync[r]
    BY <1>i, <1>t, OthersKeep
  <2>2. RowsAreNew' /\ MessagesAreFirst'
    BY <1>i, <1>h, <2>1 DEF RowsAreNew, MessagesAreFirst, Inserting
  <2>3. MinePrivate'
    BY <1>i, <1>h, <2>1 DEF MinePrivate
  <2>4. TasksHaveRows' /\ MineIsForWork'
    BY <1>i, <1>h, <2>1 DEF TasksHaveRows, MineIsForWork
  <2> QED BY <2>2, <2>3, <2>4 DEF Held
<1>1. ASSUME BeginConsent \/ StateExpires \/ CallbackRefused \/ Connect \/ Revoke
      PROVE  Held'
  BY <1>1, <1>k DEF BeginConsent, StateExpires, CallbackRefused, Connect, Revoke, Returns
<1>2. ASSUME Arrive \/ LockExpires \/ WindowEnds PROVE Held'
  BY <1>2, <1>k DEF Arrive, LockExpires, WindowEnds
<1>3. ASSUME NEW s \in Syncs, SyncStep(s) PROVE Held'
  <2>0. Idle \in Run /\ Idle.pc = "idle" /\ Idle.mine = {}
    BY IdleType DEF Idle
  <2>1. CASE StartSync(s)
    <3> DEFINE run == [Idle EXCEPT !.pc = "fetch", !.token = token, !.from = cursor]
    <3>1. run \in Run
      <4>1. token \in 0..TokenBound /\ cursor \in 0..MailBound /\ {} \in SUBSET Mails
        BY <1>t, BoundsAssumption DEF TypeOK
      <4> QED BY <4>1, EnteredTypes
    <3>2. run.pc = "fetch" /\ run.mine = {}
      BY DEF Idle
    <3>3. Runs(s, run) /\ UNCHANGED <<mail, job>>
      BY <2>1 DEF StartSync
    <3> HIDE DEF run
    <3> QED BY <3>1, <3>2, <3>3, <1>i
  <2>2. CASE Fetch(s)
    <3> DEFINE run == [Idle EXCEPT !.pc = "lookup", !.page = Page(sync[s].from), !.upto = arrived]
    <3>1. run \in Run
      <4>1. 0 \in 0..TokenBound /\ arrived \in 0..MailBound
        BY <1>t, BoundsAssumption DEF TypeOK
      <4>2. Page(sync[s].from) \in SUBSET Mails
        BY <1>t, BoundsAssumption DEF TypeOK, Page, Since, Mails
      <4> QED BY <4>1, <4>2, EnteredTypes
    <3>2. run.pc = "lookup" /\ run.mine = {}
      BY DEF Idle
    <3>3. Runs(s, run) /\ UNCHANGED <<mail, job>>
      BY <2>2 DEF Fetch
    <3> HIDE DEF run
    <3> QED BY <3>1, <3>2, <3>3, <1>i
  <2>3. CASE FetchFails(s) \/ InsertCollides(s) \/ InsertRefused(s) \/ Finish(s)
    <3>1. Runs(s, Idle) /\ UNCHANGED <<mail, job>>
      BY <2>3 DEF FetchFails, InsertCollides, InsertRefused, Finish, Ends
    <3> QED BY <3>1, <2>0, <1>i
  <2>4. CASE SyncDies(s)
    <3>1. Runs(s, Idle) /\ mail' = mail
      BY <2>4 DEF SyncDies
    <3>2. sync'[s] = Idle /\ \A r \in Syncs : r # s => sync'[r] = sync[r]
      BY <3>1, <2>0, <1>t, OthersKeep
    <3>3. ASSUME NEW t \in Tasks, mail[t[1]] = "none" \/ t[1] \notin sync[s].mine
          PROVE  job'[t] = job[t]
      BY <2>4, <3>3, <1>t, <1>h, DyingDrops
    <3>4. RowsAreNew' /\ MinePrivate' /\ MineIsForWork'
      BY <2>0, <3>1, <3>2, <1>h DEF RowsAreNew, MinePrivate, MineIsForWork, Inserting
    <3>5. MessagesAreFirst'
      <4>1. SUFFICES ASSUME NEW r \in Syncs, r # s, sync[r].pc = "send", NEW m \in sync[r].mine
                     PROVE  /\ mail'[m] = "stored"
                            /\ \A t \in Tasks : t[1] = m => job'[t] = "none"
        BY <2>0, <3>2 DEF MessagesAreFirst
      <4>2. m \notin sync[s].mine
        BY <4>1, <1>h DEF MinePrivate
      <4> QED BY <4>1, <4>2, <3>1, <3>3, <1>h DEF MessagesAreFirst
    <3>6. TasksHaveRows'
      BY <3>1, <3>3, <1>h DEF TasksHaveRows
    <3> QED BY <3>4, <3>5, <3>6 DEF Held
  <2>5. CASE LookUp(s)
    <3>1. PICK m \in Newest(sync[s].page) :
            \/ Runs(s, [sync[s] EXCEPT !.pc = "insert"])
            \/ Runs(s, [sync[s] EXCEPT !.page = @ \ {m}])
      BY <2>5 DEF LookUp
    <3>2. PICK run \in Run : /\ Runs(s, run) /\ run.mine = sync[s].mine
                             /\ run.pc \in {"lookup", "insert"}
      <4>1. /\ [sync[s] EXCEPT !.pc = "insert"] \in Run
            /\ [sync[s] EXCEPT !.page = @ \ {m}] \in Run
        BY <1>s DEF Run
      <4>2. /\ [sync[s] EXCEPT !.pc = "insert"].mine = sync[s].mine
            /\ [sync[s] EXCEPT !.page = @ \ {m}].mine = sync[s].mine
            /\ [sync[s] EXCEPT !.pc = "insert"].pc = "insert"
            /\ [sync[s] EXCEPT !.page = @ \ {m}].pc = sync[s].pc
        BY <1>s DEF Run
      <4>3. sync[s].pc = "lookup"
        BY <2>5 DEF LookUp
      <4> QED BY <3>1, <4>1, <4>2, <4>3
    <3>3. Inserting(s) /\ UNCHANGED <<mail, job>>
      BY <2>5 DEF LookUp, Inserting
    <3> QED BY <3>2, <3>3, <1>i
  <2>6. CASE Insert(s)
    <3>1. PICK m \in Newest(sync[s].page) :
            /\ mail[m] = "none"
            /\ \A r \in Syncs : sync[r].pc # "send" => m \notin sync[r].mine
            /\ Runs(s, [sync[s] EXCEPT !.pc = "lookup", !.page = @ \ {m}, !.mine = @ \cup {m}])
      BY <2>6 DEF Insert
    <3> DEFINE run == [sync[s] EXCEPT !.pc = "lookup", !.page = @ \ {m}, !.mine = @ \cup {m}]
    <3>2. m \in Mails
      BY <1>s DEF Newest, Run
    <3>3. run \in Run /\ run.pc = "lookup" /\ run.mine = sync[s].mine \cup {m}
      BY <1>s, <3>2 DEF Run
    <3> HIDE DEF run
    <3>4. sync'[s] = run /\ \A r \in Syncs : r # s => sync'[r] = sync[r]
      BY <3>1, <3>3, <1>t, OthersKeep DEF run
    <3>5. Inserting(s) /\ UNCHANGED <<mail, job>>
      BY <2>6 DEF Insert, Inserting
    <3>6. \A r \in Syncs : m \notin sync[r].mine
      BY <3>1, <1>h DEF MessagesAreFirst
    <3>7. RowsAreNew'
      BY <3>1, <3>3, <3>4, <3>5, <1>h DEF RowsAreNew, Inserting
    <3>8. MessagesAreFirst'
      BY <3>3, <3>4, <3>5, <1>h DEF MessagesAreFirst
    <3>9. MinePrivate'
      BY <3>3, <3>4, <3>6, <1>h DEF MinePrivate
    <3>10. TasksHaveRows' /\ MineIsForWork'
      BY <3>3, <3>4, <3>5, <1>h DEF TasksHaveRows, MineIsForWork
    <3> QED BY <3>7, <3>8, <3>9, <3>10 DEF Held
  <2>7. CASE Commit(s)
    <3> DEFINE run == [Idle EXCEPT !.pc = "send", !.mine = sync[s].mine]
    <3>1. run \in Run
      <4>1. 0 \in 0..TokenBound /\ 0 \in 0..MailBound /\ sync[s].mine \in SUBSET Mails
        BY <1>s, BoundsAssumption
      <4> QED BY <4>1, EnteredTypes
    <3>2. run.pc = "send" /\ run.mine = sync[s].mine
      BY DEF Idle
    <3>3. /\ Runs(s, run) /\ job' = job
          /\ mail' = [m \in Mails |-> IF m \in sync[s].mine THEN "stored" ELSE mail[m]]
      BY <2>7 DEF Commit, StoresMine
    <3> HIDE DEF run
    <3>4. sync'[s] = run /\ \A r \in Syncs : r # s => sync'[r] = sync[r]
      BY <3>1, <3>3, <1>t, OthersKeep
    <3>5. \A m \in sync[s].mine :
            mail[m] = "none" /\ \A t \in Tasks : t[1] = m => job[t] = "none"
      BY <2>7, <1>h, <1>s DEF Commit, RowsAreNew, Inserting, TasksHaveRows
    <3>6. MinePrivate' /\ MineIsForWork'
      BY <3>2, <3>4, <1>h DEF MinePrivate, MineIsForWork
    <3>7. ASSUME NEW r \in Syncs, r # s, NEW m \in sync[r].mine
          PROVE  m \notin sync[s].mine /\ mail'[m] = mail[m]
      BY <3>7, <3>3, <1>h, <1>s DEF MinePrivate
    <3>8. RowsAreNew'
      BY <3>2, <3>4, <3>7, <1>h DEF RowsAreNew, Inserting
    <3>9. MessagesAreFirst'
      BY <3>2, <3>3, <3>4, <3>5, <3>7, <1>h, <1>s DEF MessagesAreFirst
    <3>10. TasksHaveRows'
      BY <3>3, <1>h, TaskType DEF TasksHaveRows
    <3> QED BY <3>6, <3>8, <3>9, <3>10 DEF Held
  <2>8. CASE Send(s)
    <3>1. PICK m \in Newest(sync[s].mine) :
            /\ job' = [job EXCEPT ![<<m, 0>>] = "queued"]
            /\ Runs(s, [sync[s] EXCEPT !.mine = @ \ {m}])
      BY <2>8 DEF Send
    <3> DEFINE run == [sync[s] EXCEPT !.mine = @ \ {m}]
    <3>2. run \in Run /\ run.pc = "send" /\ run.mine = sync[s].mine \ {m}
      BY <2>8, <1>s DEF Send, Run
    <3> HIDE DEF run
    <3>3. sync'[s] = run /\ \A r \in Syncs : r # s => sync'[r] = sync[r]
      BY <3>1, <3>2, <1>t, OthersKeep DEF run
    <3>4. m \in sync[s].mine /\ m \in Mails /\ sync[s].pc = "send" /\ mail' = mail
      BY <2>8, <1>s DEF Send, Newest
    <3>5. \A t \in Tasks : t[1] # m => job'[t] = job[t]
      BY <3>1, <1>t DEF TypeOK
    <3>6. RowsAreNew' /\ MineIsForWork'
      BY <3>2, <3>3, <3>4, <1>h DEF RowsAreNew, Inserting, MineIsForWork
    <3>7. MinePrivate'
      BY <3>2, <3>3, <1>h DEF MinePrivate
    <3>8. \A r \in Syncs : m \notin sync'[r].mine
      BY <3>2, <3>3, <3>4, <1>h DEF MinePrivate
    <3>9. MessagesAreFirst'
      BY <3>2, <3>3, <3>4, <3>5, <3>8, <1>h, <1>s DEF MessagesAreFirst
    <3>10. mail[m] = "stored"
      BY <3>4, <1>h DEF MessagesAreFirst
    <3>11. TasksHaveRows'
      BY <3>4, <3>5, <3>10, <1>h DEF TasksHaveRows
    <3> QED BY <3>6, <3>7, <3>9, <3>11 DEF Held
  <2> QED BY <1>3, <2>1, <2>2, <2>3, <2>4, <2>5, <2>6, <2>7, <2>8 DEF SyncStep
<1>4. ASSUME NEW t \in Tasks, JobStep(t) PROVE Held'
  <2>1. /\ UNCHANGED sync /\ t[1] \in Mails
        /\ \E u \in Tasks : u[1] = t[1] /\ job[u] # "none"
        /\ \A u \in Tasks : u # t => job'[u] = job[u]
        /\ \A n \in Mails : n # t[1] => mail'[n] = mail[n]
        /\ mail'[t[1]] \in {mail[t[1]], "classified"}
    BY <1>4, <1>t, JobChanges, TaskType
  <2>2. mail[t[1]] # "none" /\ mail'[t[1]] # "none"
    BY <2>1, <1>h DEF TasksHaveRows
  <2>3. RowsAreNew'
    BY <2>1, <2>2, <1>h, <1>s DEF RowsAreNew, Inserting
  <2>4. MessagesAreFirst'
    <3>1. SUFFICES ASSUME NEW s \in Syncs, sync[s].pc = "send", NEW m \in sync[s].mine
                   PROVE  /\ mail'[m] = "stored"
                          /\ \A u \in Tasks : u[1] = m => job'[u] = "none"
      BY <2>1 DEF MessagesAreFirst
    <3>2. /\ mail[m] = "stored" /\ m \in Mails
          /\ \A u \in Tasks : u[1] = m => job[u] = "none"
      BY <3>1, <1>h, <1>s DEF MessagesAreFirst
    <3>3. m # t[1]
      BY <2>1, <3>2
    <3> QED BY <2>1, <3>2, <3>3
  <2>5. MinePrivate' /\ MineIsForWork'
    BY <2>1, <1>h DEF MinePrivate, MineIsForWork
  <2>6. TasksHaveRows'
    BY <2>1, <2>2, <1>h, TaskType DEF TasksHaveRows
  <2> QED BY <2>3, <2>4, <2>5, <2>6 DEF Held
<1>5. ASSUME UNCHANGED vars PROVE Held'
  BY <1>5, <1>k DEF vars
<1> QED BY <1>1, <1>2, <1>3, <1>4, <1>5 DEF Next

(***************************************************************************)
(* The theorems.                                                           *)
(***************************************************************************)

Base == TypeInv /\ Held

LEMMA BaseInvariant == Spec => []Base
<1>1. Init => TypeInv
  BY TypeInit
<1>2. Init => Held
  BY DEF Init, Held, RowsAreNew, MessagesAreFirst, MinePrivate, TasksHaveRows,
         MineIsForWork, Inserting, Idle
<1>3. Base /\ [Next]_vars => Base'
  BY TypeStep, HeldStep DEF Base
<1> QED BY <1>1, <1>2, <1>3, PTL DEF Spec, Base

\* The counter: INCR and EXPIRE are two calls, and only a fault comes between them
\* for good.
LEMMA CounterStep == Base /\ CounterExpires /\ [Next]_vars => CounterExpires'
<1> SUFFICES ASSUME Base, CounterExpires, [Next]_vars PROVE CounterExpires'
  OBVIOUS
<1> USE DEF inbox, account, limiter, work
<1>t. TypeOK /\ MessagesAreFirst
  BY DEF Base, TypeInv, Held
<1>k. ASSUME UNCHANGED <<count, ttl, unexpired>>,
             \A t \in Tasks : job[t] = "expire" => job'[t] = "expire"
      PROVE  CounterExpires'
  BY <1>k DEF CounterExpires
<1>1. ASSUME BeginConsent \/ StateExpires \/ CallbackRefused \/ Connect \/ Revoke
      PROVE  CounterExpires'
  BY <1>1, <1>k DEF BeginConsent, StateExpires, CallbackRefused, Connect, Revoke, Returns
<1>2. ASSUME Arrive \/ LockExpires PROVE CounterExpires'
  BY <1>2, <1>k DEF Arrive, LockExpires
<1>3. ASSUME WindowEnds PROVE CounterExpires'
  <2>1. count' = 0
    BY <1>3 DEF WindowEnds
  <2> QED BY <2>1 DEF CounterExpires
<1>4. ASSUME NEW s \in Syncs, SyncStep(s) PROVE CounterExpires'
  <2>1. CASE Send(s)
    <3>1. PICK m \in Newest(sync[s].mine) : job' = [job EXCEPT ![<<m, 0>>] = "queued"]
      BY <2>1 DEF Send
    <3>2. m \in sync[s].mine /\ m \in Mails
      BY <1>t DEF Newest, TypeOK, Run
    <3>3. job[<<m, 0>>] = "none" /\ UNCHANGED <<count, ttl, unexpired>>
      BY <2>1, <3>2, <1>t, TaskType DEF Send, MessagesAreFirst
    <3> QED BY <3>1, <3>3, <1>t, <1>k DEF TypeOK
  <2>3. CASE SyncDies(s)
    BY <2>3, <1>t, <1>k, DyingDrops DEF SyncDies
  <2>2. CASE StartSync(s) \/ Fetch(s) \/ FetchFails(s) \/ LookUp(s) \/ Insert(s)
             \/ InsertCollides(s) \/ InsertRefused(s) \/ Commit(s) \/ Finish(s)
    BY <2>2, <1>k DEF StartSync, Fetch, FetchFails, LookUp, Insert, InsertCollides, InsertRefused,
                      Commit, StoresMine, Finish
  <2> QED BY <1>4, <2>1, <2>2, <2>3 DEF SyncStep
<1>5. ASSUME NEW t \in Tasks, JobStep(t) PROVE CounterExpires'
  <2>o. \A u \in Tasks : u # t => job'[u] = job[u]
    BY <1>5, <1>t, JobChanges
  <2>k. ASSUME UNCHANGED <<count, ttl, unexpired>>, job[t] # "expire" PROVE CounterExpires'
    BY <2>k, <2>o DEF CounterExpires
  <2>1. CASE Admit(t)
    <3>1. CASE count = 0
      <4>1. job'[t] = "expire"
        BY <2>1, <3>1, <1>t DEF Admit, Job, TypeOK
      <4> QED BY <4>1 DEF CounterExpires
    <3>2. CASE count # 0
      <4>1. count > 0
        BY <3>2, <1>t, BoundsAssumption DEF TypeOK
      <4>2. job[t] # "expire" /\ UNCHANGED <<ttl, unexpired>>
        BY <2>1 DEF Admit, Job
      <4> QED BY <4>1, <4>2, <2>o DEF CounterExpires
    <3> QED BY <3>1, <3>2
  <2>2. CASE Refuse(t)
    <3>1. count > 0
      BY <2>2, <1>t, BoundsAssumption DEF Refuse, TypeOK
    <3>2. job[t] # "expire" /\ UNCHANGED <<ttl, unexpired>>
      BY <2>2 DEF Refuse
    <3> QED BY <3>1, <3>2, <2>o DEF CounterExpires
  <2>3. CASE Expire(t)
    BY <2>3 DEF Expire, CounterExpires
  <2>4. CASE FailOpen(t)
    <3>1. CASE job[t] = "expire"
      BY <2>4, <3>1 DEF FailOpen, Job, CounterExpires
    <3>2. CASE job[t] # "expire"
      BY <2>4, <3>2, <2>k DEF FailOpen, Job
    <3> QED BY <3>1, <3>2
  <2>5. CASE ClassifyFails(t)
    <3>1. CASE job[t] = "expire"
      BY <2>5, <3>1 DEF ClassifyFails, CounterExpires
    <3>2. CASE job[t] # "expire"
      BY <2>5, <3>2, <2>o DEF ClassifyFails, CounterExpires
    <3> QED BY <3>1, <3>2
  <2>7. CASE Redeliver(t)
    BY <2>7, <2>k DEF Redeliver, Job
  <2>6. CASE Classify(t) \/ Announce(t) \/ AnnounceFails(t)
    BY <2>6, <2>k DEF Classify, Announce, AnnounceFails, Job
  <2> QED BY <1>5, <2>1, <2>2, <2>3, <2>4, <2>5, <2>6, <2>7 DEF JobStep
<1>6. ASSUME UNCHANGED vars PROVE CounterExpires'
  BY <1>6, <1>k DEF vars
<1> QED BY <1>1, <1>2, <1>3, <1>4, <1>5, <1>6 DEF Next

\* The counter of core/rate_limit.py outlives its window only after a fault between
\* INCR and EXPIRE, however many tasks use it at once.
THEOREM CountersExpire == Spec => []CounterExpires
<1>1. Init => CounterExpires
  BY DEF Init, CounterExpires
<1> QED BY <1>1, BaseInvariant, CounterStep, PTL DEF Spec

(***************************************************************************)
(* Stored emails.                                                          *)
(***************************************************************************)

Awaited(m) ==
  \/ \E t \in Tasks : t[1] = m /\ job[t] \in Waiting \cup {"dropped"}
  \/ \E s \in Syncs : sync[s].pc = "send" /\ m \in sync[s].mine

HasAnswer(m) == \E t \in Tasks : t[1] = m /\ job[t] \in Answered

LEMMA UnsettledStep == Base /\ UnsettledExplained /\ [Next]_vars => UnsettledExplained'
<1> SUFFICES ASSUME Base, UnsettledExplained, [Next]_vars PROVE UnsettledExplained'
  OBVIOUS
<1> USE DEF inbox, account, limiter, work
<1>t. TypeOK /\ MessagesAreFirst /\ RowsAreNew /\ TasksHaveRows
  BY DEF Base, TypeInv, Held
<1>s. \A s \in Syncs : sync[s] \in Run /\ sync[s].mine \subseteq Mails
  BY <1>t DEF TypeOK, Run
<1>u. \A m \in Mails : /\ mail[m] = "stored" => Awaited(m)
                       /\ mail[m] = "classified" <=> HasAnswer(m)
  BY DEF UnsettledExplained, Awaited, HasAnswer
<1>q. SUFFICES \A m \in Mails : /\ mail'[m] = "stored" => Awaited(m)'
                                /\ mail'[m] = "classified" <=> HasAnswer(m)'
  BY DEF UnsettledExplained, Awaited, HasAnswer
<1>g. Next => UNCHANGED <<sync, mail, job>> \/ (\E s \in Syncs : SyncStep(s))
                \/ \E t \in Tasks : JobStep(t)
  BY DEF Next, BeginConsent, StateExpires, CallbackRefused, Connect, Revoke, Returns,
         Arrive, LockExpires, WindowEnds
\* A step of a run that sends nothing, and has nothing to send, changes no task.
<1>i. ASSUME NEW s \in Syncs, NEW run, Runs(s, run), UNCHANGED <<mail, job>>,
             sync[s].pc # "send" \/ sync[s].mine = {}, NEW m \in Mails
      PROVE  /\ mail'[m] = "stored" => Awaited(m)'
             /\ mail'[m] = "classified" <=> HasAnswer(m)'
  <2>1. \A r \in Syncs : r # s => sync'[r] = sync[r]
    BY <1>i, <1>t DEF Runs, TypeOK
  <2>2. Awaited(m) => Awaited(m)'
    BY <1>i, <2>1 DEF Awaited
  <2>3. HasAnswer(m)' <=> HasAnswer(m)
    BY <1>i DEF HasAnswer
  <2> QED BY <1>i, <1>u, <2>2, <2>3
<1>1. ASSUME UNCHANGED <<sync, mail, job>>, NEW m \in Mails
      PROVE  /\ mail'[m] = "stored" => Awaited(m)'
             /\ mail'[m] = "classified" <=> HasAnswer(m)'
  <2>1. (Awaited(m)' <=> Awaited(m)) /\ (HasAnswer(m)' <=> HasAnswer(m))
    BY <1>1 DEF Awaited, HasAnswer
  <2> QED BY <1>1, <1>u, <2>1
<1>2. ASSUME NEW s \in Syncs, SyncStep(s), NEW m \in Mails
      PROVE  /\ mail'[m] = "stored" => Awaited(m)'
             /\ mail'[m] = "classified" <=> HasAnswer(m)'
  <2>1. CASE StartSync(s)
    BY <2>1, <1>i DEF StartSync
  <2>2. CASE Fetch(s)
    BY <2>2, <1>i DEF Fetch
  <2>3. CASE FetchFails(s) \/ InsertCollides(s) \/ InsertRefused(s)
    BY <2>3, <1>i DEF FetchFails, InsertCollides, InsertRefused, Ends
  <2>4. CASE LookUp(s)
    BY <2>4, <1>i DEF LookUp
  <2>5. CASE Insert(s)
    BY <2>5, <1>i DEF Insert
  <2>6. CASE Finish(s)
    BY <2>6, <1>i DEF Finish, Ends
  <2>7. CASE SyncDies(s)
    <3>1. /\ Runs(s, Idle) /\ mail' = mail
          /\ \A t \in Tasks : \/ /\ sync[s].pc = "send" /\ t[2] = 0 /\ t[1] \in sync[s].mine
                                 /\ job[t] = "none" /\ job'[t] = "dropped"
                              \/ /\ ~(sync[s].pc = "send" /\ t[2] = 0 /\ t[1] \in sync[s].mine)
                                 /\ job'[t] = job[t]
      BY <2>7, <1>t, DyingDrops
    <3>2. \A r \in Syncs : r # s => sync'[r] = sync[r]
      BY <3>1, IdleType, <1>t, OthersKeep
    <3>3. HasAnswer(m)' <=> HasAnswer(m)
      BY <3>1 DEF HasAnswer, Answered
    <3>4. Awaited(m) => Awaited(m)'
      <4>1. CASE \E t \in Tasks : t[1] = m /\ job[t] \in Waiting \cup {"dropped"}
        BY <4>1, <3>1 DEF Awaited, Waiting
      <4>2. CASE \E r \in Syncs : r # s /\ sync[r].pc = "send" /\ m \in sync[r].mine
        BY <4>2, <3>2 DEF Awaited
      <4>3. CASE sync[s].pc = "send" /\ m \in sync[s].mine
        <5>1. <<m, 0>> \in Tasks /\ <<m, 0>>[1] = m /\ <<m, 0>>[2] = 0
          BY TaskType
        <5>2. job'[<<m, 0>>] = "dropped"
          BY <4>3, <5>1, <3>1
        <5> QED BY <5>1, <5>2 DEF Awaited
      <4> QED BY <4>1, <4>2, <4>3 DEF Awaited
    <3> QED BY <3>1, <3>3, <3>4, <1>u
  <2>8. CASE Commit(s)
    <3> DEFINE run == [Idle EXCEPT !.pc = "send", !.mine = sync[s].mine]
    <3>1. run \in Run
      <4>1. 0 \in 0..TokenBound /\ 0 \in 0..MailBound /\ sync[s].mine \in SUBSET Mails
        BY <1>s, BoundsAssumption
      <4> QED BY <4>1, EnteredTypes
    <3>2. run.pc = "send" /\ run.mine = sync[s].mine
      BY DEF Idle
    <3>3. /\ Runs(s, run) /\ job' = job /\ sync[s].pc = "lookup"
          /\ mail'[m] = IF m \in sync[s].mine THEN "stored" ELSE mail[m]
      BY <2>8 DEF Commit, StoresMine
    <3> HIDE DEF run
    <3>4. sync'[s] = run /\ \A r \in Syncs : r # s => sync'[r] = sync[r]
      BY <3>1, <3>3, <1>t, OthersKeep
    <3>5. Awaited(m) \/ m \in sync[s].mine => Awaited(m)'
      BY <3>2, <3>3, <3>4 DEF Awaited
    <3>6. m \in sync[s].mine => mail[m] = "none"
      BY <3>3, <1>t DEF RowsAreNew, Inserting
    <3>7. HasAnswer(m)' <=> HasAnswer(m)
      BY <3>3 DEF HasAnswer
    <3> QED BY <3>3, <3>5, <3>6, <3>7, <1>u
  <2>9. CASE Send(s)
    <3>1. PICK n \in Newest(sync[s].mine) :
            /\ job' = [job EXCEPT ![<<n, 0>>] = "queued"]
            /\ Runs(s, [sync[s] EXCEPT !.mine = @ \ {n}])
      BY <2>9 DEF Send
    <3> DEFINE run == [sync[s] EXCEPT !.mine = @ \ {n}]
    <3>2. run \in Run /\ run.pc = "send" /\ run.mine = sync[s].mine \ {n}
      BY <2>9, <1>s DEF Send, Run
    <3> HIDE DEF run
    <3>3. sync'[s] = run /\ \A r \in Syncs : r # s => sync'[r] = sync[r]
      BY <3>1, <3>2, <1>t, OthersKeep DEF run
    <3>4. /\ n \in sync[s].mine /\ n \in Mails /\ sync[s].pc = "send" /\ mail' = mail
          /\ <<n, 0>> \in Tasks /\ <<n, 0>>[1] = n
      BY <2>9, <1>s, TaskType DEF Send, Newest
    <3>5. job[<<n, 0>>] = "none"
      BY <3>4, <1>t DEF MessagesAreFirst
    <3>6. job'[<<n, 0>>] = "queued" /\ \A t \in Tasks : t # <<n, 0>> => job'[t] = job[t]
      BY <3>1, <3>4, <1>t DEF TypeOK
    <3>7. HasAnswer(m)' <=> HasAnswer(m)
      BY <3>5, <3>6 DEF HasAnswer, Answered
    <3>8. Awaited(m) => Awaited(m)'
      <4>1. CASE m = n
        BY <4>1, <3>4, <3>6 DEF Awaited, Waiting
      <4>2. CASE m # n
        BY <4>2, <3>2, <3>3, <3>4, <3>6 DEF Awaited
      <4> QED BY <4>1, <4>2
    <3> QED BY <3>4, <3>7, <3>8, <1>u
  <2> QED BY <1>2, <2>1, <2>2, <2>3, <2>4, <2>5, <2>6, <2>7, <2>8, <2>9 DEF SyncStep
<1>3. ASSUME NEW t \in Tasks, JobStep(t), NEW m \in Mails
      PROVE  /\ mail'[m] = "stored" => Awaited(m)'
             /\ mail'[m] = "classified" <=> HasAnswer(m)'
  <2>o. /\ UNCHANGED sync /\ t[1] \in Mails
        /\ \A u \in Tasks : u # t => job'[u] = job[u]
        /\ \A n \in Mails : n # t[1] => mail'[n] = mail[n]
        /\ mail'[t[1]] \in {mail[t[1]], "classified"}
    BY <1>3, <1>t, JobChanges, TaskType
  <2>1. CASE m # t[1]
    <3>1. \A u \in Tasks : u[1] = m => job'[u] = job[u]
      BY <2>1, <2>o
    <3>2. (Awaited(m) => Awaited(m)') /\ (HasAnswer(m)' <=> HasAnswer(m))
      BY <3>1, <2>o DEF Awaited, HasAnswer
    <3> QED BY <2>1, <2>o, <3>2, <1>u
  \* The email is answered, and stays so, or has a task that waits or is given up.
  <2>a. ASSUME job'[t] \in Answered, mail'[t[1]] = "classified"
        PROVE  /\ mail'[t[1]] = "stored" => Awaited(t[1])'
               /\ mail'[t[1]] = "classified" <=> HasAnswer(t[1])'
    BY <2>a, <2>o DEF HasAnswer
  <2>w. ASSUME job'[t] \in Waiting \cup {"dropped"}, job[t] \notin Answered, mail' = mail
        PROVE  /\ mail'[t[1]] = "stored" => Awaited(t[1])'
               /\ mail'[t[1]] = "classified" <=> HasAnswer(t[1])'
    <3>1. Awaited(t[1])'
      BY <2>w, <2>o DEF Awaited
    <3>2. job'[t] \notin Answered
      BY <2>w DEF Answered, Waiting
    <3>3. HasAnswer(t[1])' <=> HasAnswer(t[1])
      BY <2>w, <2>o, <3>2 DEF HasAnswer
    <3> QED BY <2>w, <2>o, <3>1, <3>3, <1>u
  <2>2. CASE Redeliver(t) \/ Admit(t) \/ Refuse(t) \/ Expire(t) \/ FailOpen(t) \/ ClassifyFails(t)
    <3>1. job'[t] \in Waiting \cup {"dropped"} /\ job[t] \notin Answered /\ mail' = mail
      BY <2>2, <1>t DEF Redeliver, Admit, Refuse, Expire, FailOpen, ClassifyFails, GivesUp, Job,
                        TypeOK, Waiting, Answered
    <3> QED BY <3>1, <2>w, <2>1
  <2>3. CASE Classify(t)
    <3>1. job'[t] \in Answered /\ mail'[t[1]] = "classified"
      BY <2>3, <2>o, <1>t DEF Classify, Job, TypeOK, Answered
    <3> QED BY <3>1, <2>a, <2>1
  <2>4. CASE Announce(t) \/ AnnounceFails(t)
    <3>1. job[t] \in Answered /\ job'[t] \in Answered /\ mail' = mail
      BY <2>4, <1>t DEF Announce, AnnounceFails, Job, TypeOK, Answered
    <3>2. mail[t[1]] = "classified"
      BY <3>1, <2>o, <1>u DEF HasAnswer
    <3> QED BY <3>1, <3>2, <2>a, <2>1
  <2> QED BY <1>3, <2>2, <2>3, <2>4 DEF JobStep
<1> QED BY <1>g, <1>1, <1>2, <1>3 DEF vars

\* What stays unclassified has a task or a message to come, or was given up, and what
\* is classified was answered first: gmail_tasks.py loses nothing without a fault or a
\* full window, however often a message is delivered.
THEOREM NothingForgotten == Spec => []UnsettledExplained
<1>1. Init => UnsettledExplained
  BY DEF Init, UnsettledExplained, Answered
<1> QED BY <1>1, BaseInvariant, UnsettledStep, PTL DEF Spec

(***************************************************************************)
(* The cursor.  A run accounts for what had arrived when it fetched: each  *)
(* such email is stored, or still on its page, or among its rows, or known *)
(* to be missed; and no cursor is ahead of what had arrived.               *)
(***************************************************************************)

Accounted ==
  \A s \in Syncs : Inserting(s) =>
    \A m \in 1..sync[s].upto :
      mail[m] = "none" => m \in missed \cup sync[s].page \cup sync[s].mine

FromThePast == \A s \in Syncs : sync[s].pc = "fetch" => sync[s].from <= cursor

Fetched == MissedExplained /\ Accounted /\ FromThePast

LEMMA FetchedStep == Base /\ Fetched /\ [Next]_vars => Fetched'
<1> SUFFICES ASSUME Base, Fetched, [Next]_vars PROVE Fetched'
  OBVIOUS
<1> USE DEF inbox, account, limiter, work
<1>t. TypeOK /\ TypeOK' /\ TasksHaveRows
  BY TypeStep DEF Base, TypeInv, Held
<1>s. \A s \in Syncs : sync[s] \in Run /\ sync[s].mine \subseteq Mails
  BY <1>t DEF TypeOK, Run
<1>n. arrived \in Nat /\ cursor \in Nat /\ cursor <= arrived /\ arrived <= MailBound
  BY <1>t, BoundsAssumption DEF TypeOK
<1>h. MissedExplained /\ Accounted /\ FromThePast
  BY DEF Fetched
<1>k. ASSUME UNCHANGED <<cursor, sync, mail, missed>> PROVE Fetched'
  BY <1>k, <1>h DEF Fetched, MissedExplained, Accounted, FromThePast, Inserting
<1>i. ASSUME NEW s \in Syncs, NEW run \in Run, Runs(s, run), UNCHANGED <<cursor, mail>>,
             missed \subseteq missed',
             run.pc \in {"lookup", "insert"} =>
               \A m \in 1..run.upto : mail[m] = "none" => m \in missed' \cup run.page \cup run.mine,
             run.pc = "fetch" => run.from <= cursor
      PROVE  Fetched'
  <2>1. sync'[s] = run /\ \A r \in Syncs : r # s => sync'[r] = sync[r]
    BY <1>i, <1>t, OthersKeep
  <2>2. MissedExplained'
    BY <1>i, <1>h DEF MissedExplained
  <2>3. Accounted'
    BY <1>i, <1>h, <2>1 DEF Accounted, Inserting
  <2>4. FromThePast'
    BY <1>i, <1>h, <2>1 DEF FromThePast
  <2> QED BY <2>2, <2>3, <2>4 DEF Fetched
<1>1. ASSUME BeginConsent \/ StateExpires \/ CallbackRefused \/ Connect \/ Revoke
      PROVE  Fetched'
  BY <1>1, <1>k DEF BeginConsent, StateExpires, CallbackRefused, Connect, Revoke, Returns
<1>2. ASSUME Arrive \/ LockExpires \/ WindowEnds PROVE Fetched'
  BY <1>2, <1>k DEF Arrive, LockExpires, WindowEnds
<1>3. ASSUME NEW s \in Syncs, SyncStep(s) PROVE Fetched'
  <2>0. Idle \in Run /\ Idle.pc = "idle"
    BY IdleType DEF Idle
  <2>1. CASE StartSync(s)
    <3> DEFINE run == [Idle EXCEPT !.pc = "fetch", !.token = token, !.from = cursor]
    <3>1. run \in Run
      <4>1. token \in 0..TokenBound /\ cursor \in 0..MailBound /\ {} \in SUBSET Mails
        BY <1>t, BoundsAssumption DEF TypeOK
      <4> QED BY <4>1, EnteredTypes
    <3>2. run.pc = "fetch" /\ run.from = cursor
      BY DEF Idle
    <3>3. Runs(s, run) /\ UNCHANGED <<cursor, mail, missed>>
      BY <2>1 DEF StartSync
    <3> HIDE DEF run
    <3>4. run.from <= cursor
      BY <3>2, <1>n
    <3> QED BY <3>1, <3>2, <3>3, <3>4, <1>i
  <2>2. CASE Fetch(s)
    <3> DEFINE from == sync[s].from
               run  == [Idle EXCEPT !.pc = "lookup", !.page = Page(from), !.upto = arrived]
    <3>0. Page(from) \subseteq Since(from)
      BY DEF Page
    <3>1. run \in Run
      <4>1. 0 \in 0..TokenBound /\ arrived \in 0..MailBound
        BY <1>t, BoundsAssumption DEF TypeOK
      <4>2. Page(from) \in SUBSET Mails
        BY <1>t, BoundsAssumption DEF TypeOK, Page, Since, Mails
      <4> QED BY <4>1, <4>2, EnteredTypes
    <3>2. run.pc = "lookup" /\ run.page = Page(from) /\ run.upto = arrived
      BY DEF Idle
    <3>3. /\ Runs(s, run) /\ UNCHANGED <<cursor, mail>>
          /\ missed' = missed \cup (Since(from) \ Page(from))
      BY <2>2 DEF Fetch
    <3>4. from \in Nat /\ from <= cursor
      BY <2>2, <1>h, <1>s, BoundsAssumption DEF Fetch, FromThePast, Run
    <3>5. ASSUME NEW m \in 1..arrived, mail[m] = "none" PROVE m \in missed' \cup Page(from)
      <4>1. CASE m <= from
        <5>1. m \in 1..cursor
          BY <4>1, <3>4, <1>n
        <5> QED BY <5>1, <3>3, <3>5, <1>h DEF MissedExplained
      <4>2. CASE m > from
        BY <4>2, <3>3, <3>5 DEF Since
      <4> QED BY <4>1, <4>2, <3>4, <1>n
    <3> HIDE DEF run, from
    <3> QED BY <3>1, <3>2, <3>3, <3>5, <1>i
  <2>3. CASE FetchFails(s) \/ InsertCollides(s) \/ InsertRefused(s) \/ Finish(s) \/ SyncDies(s)
    <3>1. Runs(s, Idle) /\ UNCHANGED <<cursor, mail, missed>>
      BY <2>3 DEF FetchFails, InsertCollides, InsertRefused, Finish, SyncDies, Ends
    <3> QED BY <3>1, <2>0, <1>i
  <2>4. CASE LookUp(s)
    <3>1. PICK m \in Newest(sync[s].page) :
            \/ Runs(s, [sync[s] EXCEPT !.pc = "insert"])
            \/ mail[m] # "none" /\ Runs(s, [sync[s] EXCEPT !.page = @ \ {m}])
      BY <2>4 DEF LookUp
    <3>2. \A n \in 1..sync[s].upto :
            mail[n] = "none" => n \in missed \cup sync[s].page \cup sync[s].mine
      BY <2>4, <1>h DEF LookUp, Accounted, Inserting
    <3>3. UNCHANGED <<cursor, mail, missed>>
      BY <2>4 DEF LookUp
    <3>4. CASE Runs(s, [sync[s] EXCEPT !.pc = "insert"])
      <4> DEFINE run == [sync[s] EXCEPT !.pc = "insert"]
      <4>1. /\ run \in Run /\ run.pc = "insert" /\ run.upto = sync[s].upto
            /\ run.page = sync[s].page /\ run.mine = sync[s].mine
        BY <1>s DEF Run
      <4> HIDE DEF run
      <4>2. Runs(s, run)
        BY <3>4 DEF run
      <4> QED BY <4>1, <4>2, <3>2, <3>3, <1>i
    <3>5. CASE mail[m] # "none" /\ Runs(s, [sync[s] EXCEPT !.page = @ \ {m}])
      <4> DEFINE run == [sync[s] EXCEPT !.page = @ \ {m}]
      <4>1. /\ run \in Run /\ run.pc = sync[s].pc /\ run.upto = sync[s].upto
            /\ run.page = sync[s].page \ {m} /\ run.mine = sync[s].mine
        BY <1>s DEF Run
      <4> HIDE DEF run
      <4>2. Runs(s, run) /\ sync[s].pc = "lookup"
        BY <3>5, <2>4 DEF run, LookUp
      <4> QED BY <4>1, <4>2, <3>2, <3>3, <3>5, <1>i
    <3> QED BY <3>1, <3>4, <3>5
  <2>5. CASE Insert(s)
    <3>1. PICK m \in Newest(sync[s].page) :
            Runs(s, [sync[s] EXCEPT !.pc = "lookup", !.page = @ \ {m}, !.mine = @ \cup {m}])
      BY <2>5 DEF Insert
    <3>2. \A n \in 1..sync[s].upto :
            mail[n] = "none" => n \in missed \cup sync[s].page \cup sync[s].mine
      BY <2>5, <1>h DEF Insert, Accounted, Inserting
    <3>3. UNCHANGED <<cursor, mail, missed>> /\ m \in Mails
      BY <2>5, <1>s DEF Insert, Newest, Run
    <3> DEFINE run == [sync[s] EXCEPT !.pc = "lookup", !.page = @ \ {m}, !.mine = @ \cup {m}]
    <3>4. /\ run \in Run /\ run.pc = "lookup" /\ run.upto = sync[s].upto
          /\ run.page = sync[s].page \ {m} /\ run.mine = sync[s].mine \cup {m}
      BY <1>s, <3>3 DEF Run
    <3> HIDE DEF run
    <3>5. Runs(s, run)
      BY <3>1 DEF run
    <3> QED BY <3>2, <3>3, <3>4, <3>5, <1>i
  <2>6. CASE Commit(s)
    <3> DEFINE run == [Idle EXCEPT !.pc = "send", !.mine = sync[s].mine]
    <3>1. run \in Run
      <4>1. 0 \in 0..TokenBound /\ 0 \in 0..MailBound /\ sync[s].mine \in SUBSET Mails
        BY <1>s, BoundsAssumption
      <4> QED BY <4>1, EnteredTypes
    <3>2. run.pc = "send"
      BY DEF Idle
    <3>3. /\ Runs(s, run) /\ sync[s].pc = "lookup" /\ sync[s].page = {}
          /\ cursor' = arrived /\ missed' = (missed \cup Late(s)) \ sync[s].mine
          /\ mail' = [m \in Mails |-> IF m \in sync[s].mine THEN "stored" ELSE mail[m]]
      BY <2>6 DEF Commit, StoresMine
    <3> HIDE DEF run
    <3>4. sync'[s] = run /\ \A r \in Syncs : r # s => sync'[r] = sync[r]
      BY <3>1, <3>3, <1>t, OthersKeep
    <3>5. \A m \in Mails : mail'[m] = "none" => mail[m] = "none" /\ m \notin sync[s].mine
      BY <3>3
    <3>6. \A m \in 1..sync[s].upto : mail[m] = "none" => m \in missed \cup sync[s].mine
      BY <3>3, <1>h DEF Accounted, Inserting
    <3>7. sync[s].upto \in Nat
      BY <1>s, BoundsAssumption DEF Run
    <3>8. MissedExplained'
      <4>1. SUFFICES ASSUME NEW m \in 1..arrived, mail'[m] = "none" PROVE m \in missed'
        BY <3>3 DEF MissedExplained
      <4>2. m \in Mails /\ m \in Nat
        BY <1>n, BoundsAssumption DEF Mails
      <4>3. mail[m] = "none" /\ m \notin sync[s].mine
        BY <4>1, <4>2, <3>5
      <4>4. CASE m <= sync[s].upto
        <5>1. m \in 1..sync[s].upto
          BY <4>4, <3>7, <1>n
        <5> QED BY <5>1, <4>3, <3>3, <3>6
      <4>5. CASE sync[s].upto < m
        BY <4>2, <4>3, <4>5, <3>3, <1>n DEF Late
      <4> QED BY <4>2, <4>4, <4>5, <3>7
    <3>9. Accounted'
      <4>1. SUFFICES ASSUME NEW r \in Syncs, Inserting(r)', NEW m \in 1..sync'[r].upto,
                            mail'[m] = "none"
                     PROVE  m \in missed' \cup sync'[r].page \cup sync'[r].mine
        BY DEF Accounted
      <4>2. r # s /\ sync'[r] = sync[r] /\ Inserting(r)
        BY <4>1, <3>2, <3>4 DEF Inserting
      <4>3. m \in Mails
        <5>1. sync[r].upto \in 0..MailBound
          BY <1>s DEF Run
        <5> QED BY <5>1, <4>2, BoundsAssumption DEF Mails
      <4>4. mail[m] = "none" /\ m \notin sync[s].mine
        BY <4>1, <4>3, <3>5
      <4> QED BY <4>2, <4>4, <3>3, <1>h DEF Accounted
    <3>10. FromThePast'
      <4>1. SUFFICES ASSUME NEW r \in Syncs, sync'[r].pc = "fetch"
                     PROVE  sync'[r].from <= cursor'
        BY DEF FromThePast
      <4>2. sync'[r] = sync[r] /\ sync[r].pc = "fetch"
        BY <4>1, <3>2, <3>4
      <4>3. sync[r].from \in Nat /\ sync[r].from <= cursor
        BY <4>2, <1>h, <1>s, BoundsAssumption DEF FromThePast, Run
      <4> QED BY <4>2, <4>3, <3>3, <1>n
    <3> QED BY <3>8, <3>9, <3>10 DEF Fetched
  <2>7. CASE Send(s)
    <3>1. PICK m \in Newest(sync[s].mine) : Runs(s, [sync[s] EXCEPT !.mine = @ \ {m}])
      BY <2>7 DEF Send
    <3> DEFINE run == [sync[s] EXCEPT !.mine = @ \ {m}]
    <3>2. run \in Run /\ run.pc = "send"
      BY <2>7, <1>s DEF Send, Run
    <3> HIDE DEF run
    <3>3. Runs(s, run) /\ UNCHANGED <<cursor, mail, missed>>
      BY <2>7, <3>1 DEF Send, run
    <3> QED BY <3>2, <3>3, <1>i
  <2> QED BY <1>3, <2>1, <2>2, <2>3, <2>4, <2>5, <2>6, <2>7 DEF SyncStep
<1>4. ASSUME NEW t \in Tasks, JobStep(t) PROVE Fetched'
  <2>1. /\ UNCHANGED sync /\ t[1] \in Mails
        /\ \E u \in Tasks : u[1] = t[1] /\ job[u] # "none"
        /\ \A n \in Mails : n # t[1] => mail'[n] = mail[n]
        /\ mail'[t[1]] \in {mail[t[1]], "classified"}
    BY <1>4, <1>t, JobChanges, TaskType
  <2>2. mail'[t[1]] # "none" /\ \A n \in Mails : mail'[n] = "none" => mail[n] = "none"
    BY <2>1, <1>t DEF TasksHaveRows
  <2>3. UNCHANGED <<cursor, missed>>
    BY <1>4 DEF JobStep, Redeliver, Admit, Refuse, Expire, FailOpen, Classify, ClassifyFails,
                Announce, AnnounceFails
  <2>4. \A n \in 1..cursor : n \in Mails
    BY <1>n, BoundsAssumption DEF Mails
  <2>5. \A s \in Syncs : \A n \in 1..sync[s].upto : n \in Mails
    <3>1. \A s \in Syncs : sync[s].upto \in 0..MailBound
      BY <1>s DEF Run
    <3> QED BY <3>1, BoundsAssumption DEF Mails
  <2>6. MissedExplained'
    BY <2>2, <2>3, <2>4, <1>h DEF MissedExplained
  <2>7. Accounted' /\ FromThePast'
    BY <2>1, <2>2, <2>3, <2>5, <1>h DEF Accounted, FromThePast, Inserting
  <2> QED BY <2>6, <2>7 DEF Fetched
<1>5. ASSUME UNCHANGED vars PROVE Fetched'
  BY <1>5, <1>k DEF vars
<1> QED BY <1>1, <1>2, <1>3, <1>4, <1>5 DEF Next

\* email_service.py loses an email to a page that was too small, or to the time
\* between fetch and commit, and in no other way, whatever runs overlap or die.
THEOREM LossesExplained == Spec => []MissedExplained
<1>1. Init => Fetched
  <2> SUFFICES ASSUME Init PROVE Fetched
    OBVIOUS
  <2>1. MissedExplained
    BY DEF Init, MissedExplained
  <2>2. Accounted /\ FromThePast
    BY DEF Init, Accounted, FromThePast, Inserting, Idle
  <2> QED BY <2>1, <2>2 DEF Fetched
<1>2. Fetched => MissedExplained
  BY DEF Fetched
<1> QED BY <1>1, <1>2, BaseInvariant, FetchedStep, PTL DEF Spec

(***************************************************************************)
(* The life of an email.  What the runs and the tasks hold is enough for   *)
(* each of their steps to be one of EmailLifecycle's, or none.             *)
(***************************************************************************)

Tries == [t \in Tasks |-> IF job[t] \in Waiting THEN "open" ELSE job[t]]

\* A step of one task is a step of its try.
LEMMA TryChanges ==
  ASSUME TypeOK, NEW t \in Tasks, NEW v, job' = [job EXCEPT ![t] = v]
  PROVE  Tries' = [Tries EXCEPT ![t] = IF v \in Waiting THEN "open" ELSE v]
  BY DEF Tries, TypeOK

LEMMA LifecycleStep == Base /\ [Next]_vars => [Lifecycle!Next]_(Lifecycle!vars)
<1> SUFFICES ASSUME Base, [Next]_vars PROVE [Lifecycle!Next]_(Lifecycle!vars)
  OBVIOUS
<1> USE DEF inbox, account, limiter, work
<1>t. TypeOK /\ MessagesAreFirst /\ RowsAreNew
  BY DEF Base, TypeInv, Held
<1>s. \A s \in Syncs : sync[s] \in Run /\ sync[s].mine \subseteq Mails
  BY <1>t DEF TypeOK, Run
<1>k. ASSUME UNCHANGED <<mail, job>> PROVE UNCHANGED Lifecycle!vars
  BY <1>k DEF Lifecycle!vars
<1>g. Next => UNCHANGED <<mail, job>> \/ (\E s \in Syncs : SyncStep(s))
                \/ \E t \in Tasks : JobStep(t)
  BY DEF Next, BeginConsent, StateExpires, CallbackRefused, Connect, Revoke, Returns,
         Arrive, LockExpires, WindowEnds
<1>1. ASSUME NEW s \in Syncs, SyncStep(s) PROVE [Lifecycle!Next]_(Lifecycle!vars)
  <2>1. CASE Commit(s)
    <3>1. \A m \in sync[s].mine : mail[m] = "none"
      BY <2>1, <1>t DEF Commit, RowsAreNew, Inserting
    <3>2. /\ job' = job
          /\ mail' = [m \in Mails |-> IF m \in sync[s].mine THEN "stored" ELSE mail[m]]
      BY <2>1 DEF Commit, StoresMine
    <3>3. Lifecycle!Store(sync[s].mine) /\ sync[s].mine \in SUBSET Mails
      BY <3>1, <3>2, <1>s DEF Lifecycle!Store
    <3> QED BY <3>3 DEF Lifecycle!Next
  <2>2. CASE Send(s)
    <3>1. PICK m \in Newest(sync[s].mine) : job' = [job EXCEPT ![<<m, 0>>] = "queued"]
      BY <2>2 DEF Send
    <3> DEFINE t == <<m, 0>>
    <3>2. m \in sync[s].mine /\ m \in Mails /\ sync[s].pc = "send" /\ mail' = mail
      BY <2>2, <1>s DEF Send, Newest
    <3>3. t \in Tasks /\ t[1] = m /\ t[2] = 0
      BY <3>2, TaskType
    <3>4. mail[m] = "stored" /\ job[t] = "none"
      BY <3>2, <3>3, <1>t DEF MessagesAreFirst
    <3>5. Tries' = [Tries EXCEPT ![t] = "open"] /\ Tries[t] = "none"
      BY <3>1, <3>3, <3>4, <1>t, TryChanges DEF Tries, Waiting
    <3> HIDE DEF t
    <3>6. Lifecycle!Deliver(t)
      BY <3>2, <3>3, <3>4, <3>5 DEF Lifecycle!Deliver, Lifecycle!Becomes, Tries
    <3> QED BY <3>3, <3>6 DEF Lifecycle!Next
  <2>3. CASE SyncDies(s)
    <3>0. PICK lost \in SUBSET Tasks :
            \A t \in Tasks : t \in lost <=> sync[s].pc = "send" /\ t[2] = 0 /\ t[1] \in sync[s].mine
      <4>1. {t \in Tasks : sync[s].pc = "send" /\ t[2] = 0 /\ t[1] \in sync[s].mine} \in SUBSET Tasks
        OBVIOUS
      <4> QED BY <4>1
    <3>1. /\ mail' = mail
          /\ \A t \in Tasks :
               \/ t \in lost /\ t[2] = 0 /\ mail[t[1]] = "stored" /\ job[t] = "none"
                    /\ job'[t] = "dropped"
               \/ t \notin lost /\ job'[t] = job[t]
      BY <2>3, <3>0, <1>t, DyingDrops
    <3>2. \A t \in lost : t[2] = 0 /\ mail[t[1]] = "stored" /\ Tries[t] = "none"
      BY <3>1 DEF Tries, Waiting
    <3>3. Tries' = [t \in Tasks |-> IF t \in lost THEN "dropped" ELSE Tries[t]]
      BY <3>1 DEF Tries, Waiting
    <3>4. Lifecycle!NeverSend(lost)
      BY <3>1, <3>2, <3>3 DEF Lifecycle!NeverSend, Tries
    <3> QED BY <3>4 DEF Lifecycle!Next
  <2>4. CASE StartSync(s) \/ Fetch(s) \/ FetchFails(s) \/ LookUp(s) \/ Insert(s)
             \/ InsertCollides(s) \/ InsertRefused(s) \/ Finish(s)
    BY <2>4, <1>k DEF StartSync, Fetch, FetchFails, LookUp, Insert, InsertCollides, InsertRefused,
                   Finish
  <2> QED BY <1>1, <2>1, <2>2, <2>3, <2>4 DEF SyncStep
<1>2. ASSUME NEW t \in Tasks, JobStep(t) PROVE [Lifecycle!Next]_(Lifecycle!vars)
  <2>n. ASSUME Lifecycle!Redeliver(t) \/ Lifecycle!Classify(t) \/ Lifecycle!Announce(t)
               \/ Lifecycle!GiveUp(t)
        PROVE  Lifecycle!Next
    BY <2>n DEF Lifecycle!Next
  <2>1. CASE Redeliver(t)
    <3>1. job' = [job EXCEPT ![t] = "queued"] /\ job[t] = "none" /\ mail' = mail
      BY <2>1 DEF Redeliver, Job
    <3>2. Tries' = [Tries EXCEPT ![t] = "open"] /\ Tries[t] = "none"
      BY <3>1, <1>t, TryChanges DEF Tries, Waiting
    <3>3. t[2] # 0
      BY <2>1, <1>t, BoundsAssumption DEF Redeliver, Fault, TypeOK
    <3>4. PICK u \in Tasks : u[1] = t[1] /\ job[u] = "queued"
      BY <2>1 DEF Redeliver
    <3>5. Tries[u] = "open"
      BY <3>4 DEF Tries, Waiting
    <3>6. Lifecycle!Redeliver(t)
      BY <3>1, <3>2, <3>3, <3>4, <3>5 DEF Lifecycle!Redeliver, Lifecycle!Becomes, Tries
    <3> QED BY <3>6, <2>n
  \* A call of the limiter leaves the try open.
  <2>2. CASE Admit(t) \/ Expire(t) \/ FailOpen(t)
    <3>1. PICK v \in {"expire", "ask"} :
            job' = [job EXCEPT ![t] = v] /\ job[t] \in Waiting /\ mail' = mail
      BY <2>2 DEF Admit, Expire, FailOpen, Job, Waiting
    <3>2. Tries' = [Tries EXCEPT ![t] = "open"] /\ Tries[t] = "open"
      BY <3>1, <1>t, TryChanges DEF Tries, Waiting
    <3>3. Tries' = Tries
      BY <3>2 DEF Tries
    <3> QED BY <3>1, <3>3 DEF Lifecycle!vars, Tries
  <2>3. CASE Refuse(t) \/ ClassifyFails(t)
    <3>1. job' = [job EXCEPT ![t] = "dropped"] /\ job[t] \in Waiting /\ mail' = mail
      BY <2>3 DEF Refuse, ClassifyFails, GivesUp, Waiting
    <3>2. Tries' = [Tries EXCEPT ![t] = "dropped"] /\ Tries[t] = "open"
      BY <3>1, <1>t, TryChanges DEF Tries, Waiting
    <3>3. Lifecycle!GiveUp(t)
      BY <3>1, <3>2 DEF Lifecycle!GiveUp, Lifecycle!Becomes, Tries
    <3> QED BY <3>3, <2>n
  <2>4. CASE Classify(t)
    <3>1. PICK v \in {"announce", "plain"} : job' = [job EXCEPT ![t] = v]
      BY <2>4 DEF Classify, Job
    <3>2. job[t] = "ask" /\ mail' = [mail EXCEPT ![t[1]] = "classified"]
      BY <2>4 DEF Classify, Job
    <3>3. Tries' = [Tries EXCEPT ![t] = v] /\ Tries[t] = "open"
      BY <3>1, <3>2, <1>t, TryChanges DEF Tries, Waiting
    <3>4. Lifecycle!Classify(t)
      BY <3>2, <3>3 DEF Lifecycle!Classify, Lifecycle!Becomes, Tries
    <3> QED BY <3>4, <2>n
  <2>5. CASE Announce(t) \/ AnnounceFails(t)
    <3>1. PICK v \in {"announced", "untold"} :
            job' = [job EXCEPT ![t] = v] /\ job[t] = "announce" /\ mail' = mail
      BY <2>5 DEF Announce, AnnounceFails, Job
    <3>2. Tries' = [Tries EXCEPT ![t] = v] /\ Tries[t] = "announce"
      BY <3>1, <1>t, TryChanges DEF Tries, Waiting
    <3>3. Lifecycle!Announce(t)
      BY <3>1, <3>2 DEF Lifecycle!Announce, Lifecycle!Becomes, Tries
    <3> QED BY <3>3, <2>n
  <2> QED BY <1>2, <2>1, <2>2, <2>3, <2>4, <2>5 DEF JobStep
<1>3. CASE UNCHANGED vars
  BY <1>3, <1>k DEF vars
<1> QED BY <1>g, <1>k, <1>1, <1>2, <1>3

\* gmail_tasks.py and notification_service.py try once for each delivery of a message:
\* an email is stored once, each delivery is classified and announced at most once, in
\* this order, and what was given up stays so, whatever runs overlap, collide or die.
\* More than one delivery is the broker's, since `processed` is not looked at.
THEOREM MailIsTheLifecycle == Spec => LifecycleSafe
<1>1. Init => Lifecycle!Init
  BY DEF Init, Lifecycle!Init, Waiting
<1> QED BY <1>1, BaseInvariant, LifecycleStep, PTL DEF Spec, LifecycleSafe, Lifecycle!Safe

(***************************************************************************)
(* The lock of sync_gmail.                                                 *)
(***************************************************************************)

Under == {s \in Syncs : sync[s].pc # "idle"}

\* The runs of sync_gmail use task_lock as TaskLock says, as the links of a chain do.
THEOREM SyncsUseTheLock == Spec => LockSafe
<1>1. Init => Lock!Init
  BY DEF Init, Lock!Init, Idle
<1>2. ASSUME TypeInv, [Next]_vars PROVE [Lock!Next]_(Lock!vars)
  <2> USE DEF Lock!vars
  <2>t. TypeOK
    BY <1>2 DEF TypeInv
  <2>s. \A s \in Syncs : sync[s] \in Run
    BY <2>t DEF TypeOK
  <2>1. CASE UNCHANGED <<sync, lock>>
    BY <2>1
  \* A run under way goes on.
  <2>i. ASSUME NEW s \in Syncs, NEW run \in Run, Runs(s, run), lock' = lock,
               sync[s].pc # "idle", run.pc # "idle"
        PROVE  UNCHANGED Lock!vars
    <3>1. Under' = Under
      BY <2>i, <2>t, OthersKeep DEF Under
    <3> QED BY <2>i, <3>1 DEF Under
  \* A run ends.
  <2>e. ASSUME NEW s \in Syncs, Runs(s, Idle), lock' \in {lock, FALSE}, sync[s].pc # "idle"
        PROVE  Lock!Next
    <3>1. sync'[s] = Idle /\ \A r \in Syncs : r # s => sync'[r] = sync[r]
      BY <2>e, <2>t, IdleType, OthersKeep
    <3>2. Under' = Under \ {s}
      BY <3>1 DEF Under, Idle
    <3>3. Lock!Leave(s)
      BY <2>e, <3>2 DEF Lock!Leave, Under
    <3> QED BY <3>3 DEF Lock!Next
  <2>2. CASE LockExpires
    <3>1. Lock!Expire
      BY <2>2 DEF LockExpires, Lock!Expire
    <3> QED BY <3>1 DEF Lock!Next
  <2>3. ASSUME NEW s \in Syncs, SyncStep(s) PROVE [Lock!Next]_(Lock!vars)
    <3>1. CASE StartSync(s)
      <4> DEFINE run == [Idle EXCEPT !.pc = "fetch", !.token = token, !.from = cursor]
      <4>1. run \in Run
        <5>1. token \in 0..TokenBound /\ cursor \in 0..MailBound /\ {} \in SUBSET Mails
          BY <2>t, BoundsAssumption DEF TypeOK
        <5> QED BY <5>1, EnteredTypes
      <4>2. run.pc = "fetch"
        BY DEF Idle
      <4>3. Runs(s, run) /\ ~lock /\ lock' = TRUE /\ sync[s].pc = "idle"
        BY <3>1 DEF StartSync
      <4> HIDE DEF run
      <4>4. sync'[s] = run /\ \A r \in Syncs : r # s => sync'[r] = sync[r]
        BY <4>1, <4>3, <2>t, OthersKeep
      <4>5. Under' = Under \cup {s} /\ s \notin Under
        BY <4>2, <4>3, <4>4 DEF Under
      <4>6. Lock!Enter(s)
        BY <4>3, <4>5 DEF Lock!Enter, Under
      <4> QED BY <4>6 DEF Lock!Next
    <3>2. CASE Fetch(s)
      <4> DEFINE run == [Idle EXCEPT !.pc = "lookup", !.page = Page(sync[s].from), !.upto = arrived]
      <4>1. run \in Run
        <5>1. 0 \in 0..TokenBound /\ arrived \in 0..MailBound
          BY <2>t, BoundsAssumption DEF TypeOK
        <5>2. Page(sync[s].from) \in SUBSET Mails
          BY <2>t, BoundsAssumption DEF TypeOK, Page, Since, Mails
        <5> QED BY <5>1, <5>2, EnteredTypes
      <4>2. run.pc = "lookup"
        BY DEF Idle
      <4>3. Runs(s, run) /\ lock' = lock /\ sync[s].pc = "fetch"
        BY <3>2 DEF Fetch
      <4> HIDE DEF run
      <4> QED BY <4>1, <4>2, <4>3, <2>i
    <3>3. CASE FetchFails(s) \/ InsertCollides(s) \/ InsertRefused(s) \/ Finish(s) \/ SyncDies(s)
      BY <3>3, <2>e DEF FetchFails, InsertCollides, InsertRefused, Finish, SyncDies, Ends
    <3>4. CASE LookUp(s)
      <4>1. PICK m \in Newest(sync[s].page) :
              \/ Runs(s, [sync[s] EXCEPT !.pc = "insert"])
              \/ Runs(s, [sync[s] EXCEPT !.page = @ \ {m}])
        BY <3>4 DEF LookUp
      <4>2. /\ [sync[s] EXCEPT !.pc = "insert"] \in Run
            /\ [sync[s] EXCEPT !.page = @ \ {m}] \in Run
        BY <2>s DEF Run
      <4>3. /\ [sync[s] EXCEPT !.pc = "insert"].pc = "insert"
            /\ [sync[s] EXCEPT !.page = @ \ {m}].pc = sync[s].pc
        BY <2>s DEF Run
      <4>4. lock' = lock /\ sync[s].pc = "lookup"
        BY <3>4 DEF LookUp
      <4> QED BY <4>1, <4>2, <4>3, <4>4, <2>i
    <3>5. CASE Insert(s)
      <4>1. PICK m \in Newest(sync[s].page) :
              Runs(s, [sync[s] EXCEPT !.pc = "lookup", !.page = @ \ {m}, !.mine = @ \cup {m}])
        BY <3>5 DEF Insert
      <4> DEFINE run == [sync[s] EXCEPT !.pc = "lookup", !.page = @ \ {m}, !.mine = @ \cup {m}]
      <4>2. run \in Run /\ run.pc = "lookup"
        BY <2>s DEF Newest, Run
      <4> HIDE DEF run
      <4>3. Runs(s, run) /\ lock' = lock /\ sync[s].pc = "insert"
        BY <3>5, <4>1 DEF Insert, run
      <4> QED BY <4>2, <4>3, <2>i
    <3>6. CASE Commit(s)
      <4> DEFINE run == [Idle EXCEPT !.pc = "send", !.mine = sync[s].mine]
      <4>1. run \in Run
        <5>1. 0 \in 0..TokenBound /\ 0 \in 0..MailBound /\ sync[s].mine \in SUBSET Mails
          BY <2>s, BoundsAssumption DEF Run
        <5> QED BY <5>1, EnteredTypes
      <4>2. run.pc = "send"
        BY DEF Idle
      <4>3. Runs(s, run) /\ lock' = lock /\ sync[s].pc = "lookup"
        BY <3>6 DEF Commit, StoresMine
      <4> HIDE DEF run
      <4> QED BY <4>1, <4>2, <4>3, <2>i
    <3>7. CASE Send(s)
      <4>1. PICK m \in Newest(sync[s].mine) : Runs(s, [sync[s] EXCEPT !.mine = @ \ {m}])
        BY <3>7 DEF Send
      <4> DEFINE run == [sync[s] EXCEPT !.mine = @ \ {m}]
      <4>2. run \in Run /\ run.pc = sync[s].pc
        BY <2>s DEF Run
      <4> HIDE DEF run
      <4>3. Runs(s, run) /\ lock' = lock /\ sync[s].pc = "send"
        BY <3>7, <4>1 DEF Send, run
      <4> QED BY <4>2, <4>3, <2>i
    <3> QED BY <2>3, <3>1, <3>2, <3>3, <3>4, <3>5, <3>6, <3>7 DEF SyncStep
  <2>4. ASSUME NEW t \in Tasks, JobStep(t) PROVE UNCHANGED <<sync, lock>>
    BY <2>4 DEF JobStep, Redeliver, Admit, Refuse, Expire, FailOpen, Classify, ClassifyFails, Announce,
                AnnounceFails
  <2>5. BeginConsent \/ StateExpires \/ CallbackRefused \/ Connect \/ Revoke \/ Arrive
          \/ WindowEnds \/ UNCHANGED vars => UNCHANGED <<sync, lock>>
    BY DEF BeginConsent, StateExpires, CallbackRefused, Connect, Revoke, Returns, Arrive,
           WindowEnds, vars
  <2> QED BY <1>2, <2>1, <2>2, <2>3, <2>4, <2>5 DEF Next
<1>3. TypeInv /\ [Next]_vars => TypeInv' /\ [Lock!Next]_(Lock!vars)
  BY <1>2, TypeStep
<1> QED BY <1>1, <1>3, TypeInit, PTL DEF Spec, LockSafe, Lock!Safe
=============================================================================
