----------------------------- MODULE ScheduledTasks -----------------------------
(***************************************************************************)
(* Scheduled work: the chains the orchestrator tasks start (search, then   *)
(* score, then report; search, then retry), the scheduled_tasks row that   *)
(* track_scheduled_task keeps for every link, and the Redis key task_lock  *)
(* takes around the links that must not overlap.                           *)
(*                                                                         *)
(* The key holds the constant "1" with a time to live.  Nothing ties it to *)
(* the run that set it: when it has expired, another run can set it anew,  *)
(* and the first run's DEL then removes the second run's key.              *)
(***************************************************************************)
EXTENDS Naturals, FiniteSets

CONSTANTS
  Cycles,     \* runs of a chain: beat's, the API's and the operator's
  LinkCount,  \* tasks in the chain
  Locked,     \* the links that run the locked task
  NoCycle,    \* no owner
  Failures    \* what may go wrong: "crash", "redis", "database", "task"

ASSUME CyclesAssumption == IsFiniteSet(Cycles)
ASSUME NoCycleAssumption == NoCycle \notin Cycles
ASSUME LinksAssumption  == LinkCount \in Nat \ {0} /\ Locked \subseteq 1..LinkCount

VARIABLES
  pc,         \* pc[c]: where cycle c is
  link,       \* link[c]: the task of the chain it is at
  outcome,    \* outcome[c]: what the wrapped function did
  row,        \* row[c][i]: status of the scheduled_tasks row of link i
  held,       \* the key is in Redis
  owner,      \* history: the cycle whose SET made the key
  expiries,   \* history: times the key has expired
  abandoned,  \* history: cycles that left the locked task without their DEL
  lost        \* history: rows whose run died before its last update

vars == <<pc, link, outcome, row, held, owner, expiries, abandoned, lost>>

Links   == 1..LinkCount
Running == {"begun", "body", "release", "record"}
PC      == {"idle", "queued", "next", "stopped"} \cup Running

\* The cycles inside the locked task: between their SET and their DEL.
Inside == {c \in Cycles : link[c] \in Locked /\ pc[c] \in {"body", "release"}}

Init ==
  /\ pc = [c \in Cycles |-> "idle"]
  /\ link = [c \in Cycles |-> 1]
  /\ outcome = [c \in Cycles |-> "none"]
  /\ row = [c \in Cycles |-> [i \in Links |-> "none"]]
  /\ held = FALSE
  /\ owner = NoCycle
  /\ expiries = 0
  /\ abandoned = {}
  /\ lost = {}

Goto(c, p) == pc' = [pc EXCEPT ![c] = p]
End(c, o)  == outcome' = [outcome EXCEPT ![c] = o]

\* Beat, POST /jobs/search or an operator sends the first message.
Trigger(c) ==
  /\ pc[c] = "idle"
  /\ Goto(c, "queued")
  /\ UNCHANGED <<link, outcome, row, held, owner, expiries, abandoned, lost>>

\* The wrapper commits the row before it calls the function.
Begin(c) ==
  /\ pc[c] = "queued"
  /\ row' = [row EXCEPT ![c][link[c]] = "running"]
  /\ Goto(c, "begun")
  /\ UNCHANGED <<link, outcome, held, owner, expiries, abandoned, lost>>

BeginFails(c) ==
  /\ "database" \in Failures
  /\ pc[c] = "queued"
  /\ Goto(c, "stopped")
  /\ UNCHANGED <<link, outcome, row, held, owner, expiries, abandoned, lost>>

Enter(c) ==
  /\ pc[c] = "begun" /\ link[c] \notin Locked
  /\ Goto(c, "body")
  /\ UNCHANGED <<link, outcome, row, held, owner, expiries, abandoned, lost>>

\* Variant: SET without NX.
AcquireRegardless(c) ==
  /\ pc[c] = "begun" /\ link[c] \in Locked
  /\ held' = TRUE
  /\ owner' = c
  /\ Goto(c, "body")
  /\ UNCHANGED <<link, outcome, row, expiries, abandoned, lost>>

\* SET key "1" NX EX ttl.
Acquire(c) ==
  /\ pc[c] = "begun" /\ link[c] \in Locked
  /\ ~held
  /\ held' = TRUE
  /\ owner' = c
  /\ Goto(c, "body")
  /\ UNCHANGED <<link, outcome, row, expiries, abandoned, lost>>

\* Variants: the early return leaves the wrapper's row as it is, or gives it a
\* status of its own.
SkipUnrecorded(c) ==
  /\ pc[c] = "begun" /\ link[c] \in Locked
  /\ held
  /\ Goto(c, "next")
  /\ UNCHANGED <<link, outcome, row, held, owner, expiries, abandoned, lost>>

SkipMarked(c) ==
  /\ pc[c] = "begun" /\ link[c] \in Locked
  /\ held
  /\ End(c, "skipped")
  /\ Goto(c, "record")
  /\ UNCHANGED <<link, row, held, owner, expiries, abandoned, lost>>

\* Another run holds the key: return at once, which counts as a success.
Skip(c) ==
  /\ pc[c] = "begun" /\ link[c] \in Locked
  /\ held
  /\ End(c, "success")
  /\ Goto(c, "record")
  /\ UNCHANGED <<link, row, held, owner, expiries, abandoned, lost>>

\* The SET raises, whether or not Redis carried it out.
AcquireFails(c) ==
  /\ "redis" \in Failures
  /\ pc[c] = "begun" /\ link[c] \in Locked
  /\ \/ UNCHANGED <<held, owner, abandoned>>
     \/ /\ ~held /\ held' = TRUE
        /\ owner' = c
        /\ abandoned' = abandoned \cup {c}
  /\ End(c, "failed")
  /\ Goto(c, "record")
  /\ UNCHANGED <<link, row, expiries, lost>>

\* The function returns or raises.
Finish(c) ==
  /\ pc[c] = "body"
  /\ \E o \in {"success", "failed"} :
       /\ o = "failed" => "task" \in Failures
       /\ End(c, o)
  /\ Goto(c, IF link[c] \in Locked THEN "release" ELSE "record")
  /\ UNCHANGED <<link, row, held, owner, expiries, abandoned, lost>>

\* Variant: the DEL is not in a finally clause.
ReleaseOnSuccess(c) ==
  /\ pc[c] = "release"
  /\ held' = (held /\ outcome[c] # "success")
  /\ Goto(c, "record")
  /\ UNCHANGED <<link, outcome, row, owner, expiries, abandoned, lost>>

\* DEL key, whoever set it.
Release(c) ==
  /\ pc[c] = "release"
  /\ held' = FALSE
  /\ Goto(c, "record")
  /\ UNCHANGED <<link, outcome, row, owner, expiries, abandoned, lost>>

ReleaseFails(c) ==
  /\ "redis" \in Failures
  /\ pc[c] = "release"
  /\ held' \in {held, FALSE}
  /\ abandoned' = IF held' THEN abandoned \cup {c} ELSE abandoned
  /\ End(c, "failed")
  /\ Goto(c, "record")
  /\ UNCHANGED <<link, row, owner, expiries, lost>>

\* Variant: the wrapper does not re-raise, so the chain goes on.
RecordAndGoOn(c) ==
  /\ pc[c] = "record"
  /\ row' = [row EXCEPT ![c][link[c]] = outcome[c]]
  /\ Goto(c, IF link[c] < LinkCount THEN "next" ELSE "stopped")
  /\ UNCHANGED <<link, outcome, held, owner, expiries, abandoned, lost>>

\* The wrapper writes the row and re-raises what the function raised.
Record(c) ==
  /\ pc[c] = "record"
  /\ row' = [row EXCEPT ![c][link[c]] = outcome[c]]
  /\ Goto(c, IF outcome[c] = "success" /\ link[c] < LinkCount THEN "next" ELSE "stopped")
  /\ UNCHANGED <<link, outcome, held, owner, expiries, abandoned, lost>>

RecordFails(c) ==
  /\ "database" \in Failures
  /\ pc[c] = "record"
  /\ lost' = lost \cup {<<c, link[c]>>}
  /\ Goto(c, "stopped")
  /\ UNCHANGED <<link, outcome, row, held, owner, expiries, abandoned>>

\* Celery sends the next link of the chain once a task has succeeded.
SendNext(c) ==
  /\ pc[c] = "next"
  /\ link' = [link EXCEPT ![c] = @ + 1]
  /\ outcome' = [outcome EXCEPT ![c] = "none"]
  /\ Goto(c, "queued")
  /\ UNCHANGED <<row, held, owner, expiries, abandoned, lost>>

\* The worker dies: no finally clause runs, and the message is not sent again.
Crash(c) ==
  /\ "crash" \in Failures
  /\ pc[c] \in Running \cup {"next"}
  /\ lost' = IF pc[c] \in Running THEN lost \cup {<<c, link[c]>>} ELSE lost
  /\ abandoned' = IF c \in Inside THEN abandoned \cup {c} ELSE abandoned
  /\ Goto(c, "stopped")
  /\ UNCHANGED <<link, outcome, row, held, owner, expiries>>

\* Variant: the key has no time to live.
NeverExpires == FALSE /\ UNCHANGED vars

\* The time to live runs out, whatever its run is doing.
Expire ==
  /\ held
  /\ held' = FALSE
  /\ expiries' = expiries + 1
  /\ UNCHANGED <<pc, link, outcome, row, owner, abandoned, lost>>

Step(c) ==
  \/ Begin(c) \/ Enter(c) \/ Acquire(c) \/ Skip(c) \/ Finish(c) \/ Release(c)
  \/ Record(c) \/ SendNext(c)

Failure(c) ==
  BeginFails(c) \/ AcquireFails(c) \/ ReleaseFails(c) \/ RecordFails(c) \/ Crash(c)

Next ==
  \/ \E c \in Cycles : Trigger(c) \/ Step(c) \/ Failure(c)
  \/ Expire

Spec == Init /\ [][Next]_vars

\* Redis expires keys, and a task that has started goes on.
FairSpec == Spec /\ WF_vars(Expire) /\ \A c \in Cycles : WF_vars(Step(c))

(***************************************************************************)
(* Properties.                                                             *)
(***************************************************************************)

\* Every variable has its type.
TypeOK ==
  /\ pc \in [Cycles -> PC]
  /\ link \in [Cycles -> Links]
  /\ outcome \in [Cycles -> {"none", "success", "failed"}]
  /\ row \in [Cycles -> [Links -> {"none", "running", "success", "failed"}]]
  /\ held \in BOOLEAN
  /\ owner \in Cycles \cup {NoCycle}
  /\ expiries \in Nat
  /\ abandoned \in SUBSET Cycles
  /\ lost \in SUBSET (Cycles \X Links)

\* Runs of the locked task overlap only after the key has expired, and each
\* expiry lets in one more at most: the key that a late DEL removes is the one
\* that a run let in by an expiry had set.
OverlapNeedsExpiry ==
  Cardinality(Inside) <= expiries + (IF held THEN 1 ELSE 0)

\* A run is skipped only because the run that set the key is still inside the
\* locked task, or crashed there or lost Redis there and its key has not expired
\* yet: no path the code handles leaks the key.
HeldExplained == held => owner \in Inside \cup abandoned

\* A link starts only if the link before it is on record as a success.
ChainHalts ==
  \A c \in Cycles : \A i \in Links :
    i > 1 /\ row[c][i] # "none" => row[c][i - 1] = "success"

\* A row that says "running" has a run at work, or one that died at work.
RunningRowsExplained ==
  \A c \in Cycles : \A i \in Links :
    row[c][i] = "running" => <<c, i>> \in lost \/ (i = link[c] /\ pc[c] \in Running)

\* The key is always freed in the end, whoever crashed with it.
LockFreed == held ~> ~held

\* The cycles inside the locked task are the users of its lock.
Lock == INSTANCE TaskLock WITH Users <- Cycles, inside <- Inside
LockSafe == Lock!Safe
=============================================================================
