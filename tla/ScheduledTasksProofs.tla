-------------------------- MODULE ScheduledTasksProofs --------------------------
(***************************************************************************)
(* Proofs about ScheduledTasks, for any number of cycles, any chain and    *)
(* any set of failures.                                                    *)
(***************************************************************************)
EXTENDS ScheduledTasks, FiniteSetTheorems, TLAPS

\* The rows follow the chain: the links before the current one succeeded, those
\* after it have not started; a cycle about to send the next message has one to
\* send; and only a locked link has a key to release.
Progress ==
  \A c \in Cycles :
    /\ \A i \in Links : i < link[c] => row[c][i] = "success"
    /\ \A i \in Links : i > link[c] => row[c][i] = "none"
    /\ pc[c] = "next" => row[c][link[c]] = "success" /\ link[c] < LinkCount
    /\ pc[c] = "release" => link[c] \in Locked

ChainInv == TypeOK /\ Progress

\* Skipping a link needs an outcome the row can hold; Record leaves for the next
\* link only from a success.  Every step keeps the types and the progress.
LEMMA ChainStep == ChainInv /\ [Next]_vars => ChainInv'
<1> SUFFICES ASSUME TypeOK, Progress, [Next]_vars
             PROVE  TypeOK' /\ Progress'
  BY DEF ChainInv
<1> USE LinksAssumption DEF TypeOK, Progress, Links, PC, Running, Goto, End
<1>1. ASSUME NEW c \in Cycles, Trigger(c) PROVE TypeOK' /\ Progress'
  BY <1>1 DEF Trigger
<1>2. ASSUME NEW c \in Cycles, Begin(c) PROVE TypeOK' /\ Progress'
  <2>1. TypeOK'
    BY <1>2 DEF Begin
  <2>2. Progress'
    BY <1>2 DEF Begin
  <2> QED BY <2>1, <2>2
<1>3. ASSUME NEW c \in Cycles, Enter(c) PROVE TypeOK' /\ Progress'
  BY <1>3 DEF Enter
<1>4. ASSUME NEW c \in Cycles, Acquire(c) PROVE TypeOK' /\ Progress'
  BY <1>4 DEF Acquire
<1>5. ASSUME NEW c \in Cycles, Skip(c) PROVE TypeOK' /\ Progress'
  BY <1>5 DEF Skip
<1>6. ASSUME NEW c \in Cycles, Finish(c) PROVE TypeOK' /\ Progress'
  BY <1>6 DEF Finish
<1>7. ASSUME NEW c \in Cycles, Release(c) PROVE TypeOK' /\ Progress'
  BY <1>7 DEF Release
<1>8. ASSUME NEW c \in Cycles, Record(c) PROVE TypeOK' /\ Progress'
  <2>1. PICK p \in {"next", "stopped"} :
          /\ pc' = [pc EXCEPT ![c] = p]
          /\ p = "next" => outcome[c] = "success" /\ link[c] < LinkCount
    BY <1>8 DEF Record
  <2>2. outcome[c] \in {"success", "failed", "none"} /\ link[c] \in Links
    OBVIOUS
  <2>3. row' = [row EXCEPT ![c][link[c]] = outcome[c]]
    BY <1>8 DEF Record
  <2>4. UNCHANGED <<link, outcome, held, owner, expiries, abandoned, lost>>
    BY <1>8 DEF Record
  <2>5. TypeOK'
    BY <2>1, <2>2, <2>3, <2>4
  <2>6. Progress'
    BY <2>1, <2>2, <2>3, <2>4
  <2> QED BY <2>5, <2>6
<1>9. ASSUME NEW c \in Cycles, SendNext(c) PROVE TypeOK' /\ Progress'
  <2>1. link[c] \in Links /\ link[c] < LinkCount /\ link[c] + 1 \in Links
    BY <1>9 DEF SendNext
  <2>2. TypeOK'
    BY <1>9, <2>1 DEF SendNext
  <2>3. Progress'
    BY <1>9, <2>1 DEF SendNext
  <2> QED BY <2>2, <2>3
<1>10. ASSUME NEW c \in Cycles, BeginFails(c) PROVE TypeOK' /\ Progress'
  BY <1>10 DEF BeginFails
<1>11. ASSUME NEW c \in Cycles, AcquireFails(c) PROVE TypeOK' /\ Progress'
  <2>1. held' \in BOOLEAN /\ owner' \in Cycles \cup {NoCycle} /\ abandoned' \in SUBSET Cycles
    <3>1. CASE UNCHANGED <<held, owner, abandoned>>
      BY <3>1
    <3>2. CASE held' = TRUE /\ owner' = c /\ abandoned' = abandoned \cup {c}
      BY <3>2
    <3> QED BY <1>11, <3>1, <3>2 DEF AcquireFails
  <2>2. pc' \in [Cycles -> PC] /\ outcome' \in [Cycles -> {"none", "success", "failed"}]
    BY <1>11 DEF AcquireFails
  <2>3. UNCHANGED <<link, row, expiries, lost>>
    BY <1>11 DEF AcquireFails
  <2>4. Progress'
    BY <1>11, <2>3 DEF AcquireFails
  <2> QED BY <2>1, <2>2, <2>3, <2>4
<1>12. ASSUME NEW c \in Cycles, ReleaseFails(c) PROVE TypeOK' /\ Progress'
  <2>1. held' \in BOOLEAN /\ abandoned' \in SUBSET Cycles
    <3>1. held' \in BOOLEAN
      BY <1>12 DEF ReleaseFails
    <3>2. abandoned' = IF held' THEN abandoned \cup {c} ELSE abandoned
      BY <1>12 DEF ReleaseFails
    <3> QED BY <3>1, <3>2
  <2> QED BY <1>12, <2>1 DEF ReleaseFails
<1>13. ASSUME NEW c \in Cycles, RecordFails(c) PROVE TypeOK' /\ Progress'
  BY <1>13 DEF RecordFails
<1>14. ASSUME NEW c \in Cycles, Crash(c) PROVE TypeOK' /\ Progress'
  <2>1. lost' \in SUBSET (Cycles \X Links) /\ abandoned' \in SUBSET Cycles
    BY <1>14 DEF Crash
  <2> QED BY <1>14, <2>1 DEF Crash
<1>15. ASSUME Expire PROVE TypeOK' /\ Progress'
  <2>1. held' = FALSE /\ expiries' = expiries + 1
    BY <1>15 DEF Expire
  <2>2. UNCHANGED <<pc, link, outcome, row, owner, abandoned, lost>>
    BY <1>15 DEF Expire
  <2>3. held' \in BOOLEAN /\ expiries' \in Nat
    <3>1. held' \in BOOLEAN
      BY <2>1
    <3>2. expiries' \in Nat
      <4>1. expiries \in Nat
        OBVIOUS
      <4> QED BY <4>1, <2>1
    <3> QED BY <3>1, <3>2
  <2>4. TypeOK'
    BY <2>2, <2>3
  <2>5. Progress'
    BY <2>2
  <2> QED BY <2>4, <2>5
<1>16. ASSUME UNCHANGED vars PROVE TypeOK' /\ Progress'
  BY <1>16 DEF vars
<1> QED
  BY <1>1, <1>2, <1>3, <1>4, <1>5, <1>6, <1>7, <1>8, <1>9, <1>10, <1>11, <1>12,
     <1>13, <1>14, <1>15, <1>16 DEF Next, Step, Failure

\* The shape of the chain is an invariant.
LEMMA ChainCorrect == Spec => []ChainInv
<1>1. Init => ChainInv
  <2> SUFFICES ASSUME Init PROVE ChainInv
    OBVIOUS
  <2>1. 1 \in Links /\ \A i \in Links : ~(i < 1)
    BY LinksAssumption DEF Links
  <2>2. TypeOK
    BY <2>1 DEF Init, TypeOK, PC, Running
  <2>3. Progress
    BY <2>1 DEF Init, Progress
  <2> QED BY <2>2, <2>3 DEF ChainInv
<1> QED
  BY <1>1, ChainStep, PTL DEF Spec

\* Every variable keeps its type.
THEOREM TypeCorrect == Spec => []TypeOK
<1>1. ChainInv => TypeOK
  BY DEF ChainInv
<1> QED
  BY <1>1, ChainCorrect, PTL

\* A link of a chain starts only after the link before it succeeded.
THEOREM ChainHaltsOnFailure == Spec => []ChainHalts
<1>1. ChainInv => ChainHalts
  <2> SUFFICES ASSUME TypeOK, Progress, NEW c \in Cycles, NEW i \in Links, i > 1,
                      row[c][i] # "none"
               PROVE  row[c][i - 1] = "success"
    BY DEF ChainInv, ChainHalts
  <2>1. i - 1 \in Links /\ link[c] \in Links /\ i <= link[c]
    BY LinksAssumption DEF TypeOK, Progress, Links
  <2> QED BY <2>1 DEF Progress, Links
<1> QED
  BY <1>1, ChainCorrect, PTL

(***************************************************************************)
(* The set of cycles inside the locked task.                               *)
(***************************************************************************)

\* How each step changes the set Inside: only an acquired key lets a cycle in,
\* and only a release, its failure or a crash takes one out.
LEMMA InsideStep ==
  ASSUME ChainInv, [Next]_vars
  PROVE  \/ Inside' = Inside /\ expiries' = expiries /\ held' = held /\ owner' = owner
            /\ abandoned \subseteq abandoned'
         \/ \E c \in Cycles : AcquireFails(c) /\ Inside' = Inside
         \/ \E c \in Cycles : Acquire(c) /\ Inside' = Inside \cup {c}
         \/ \E c \in Inside : (Release(c) \/ ReleaseFails(c)) /\ Inside' = Inside \ {c}
         \/ \E c \in Inside : Crash(c) /\ Inside' = Inside \ {c}
         \/ Expire /\ Inside' = Inside
<1> USE DEF ChainInv, TypeOK, Progress, Inside, Goto, End
<1>1. ASSUME NEW c \in Cycles,
             Trigger(c) \/ Begin(c) \/ BeginFails(c) \/ Enter(c) \/ Skip(c) \/ Finish(c)
               \/ Record(c) \/ RecordFails(c) \/ SendNext(c)
      PROVE  Inside' = Inside /\ expiries' = expiries /\ held' = held /\ owner' = owner
               /\ abandoned \subseteq abandoned'
  <2>1. CASE Trigger(c) BY <2>1 DEF Trigger
  <2>2. CASE Begin(c) BY <2>2 DEF Begin
  <2>3. CASE BeginFails(c) BY <2>3 DEF BeginFails
  <2>4. CASE Enter(c) BY <2>4 DEF Enter
  <2>5. CASE Skip(c) BY <2>5 DEF Skip
  <2>6. CASE Finish(c) BY <2>6 DEF Finish
  <2>7. CASE Record(c) BY <2>7 DEF Record
  <2>8. CASE RecordFails(c) BY <2>8 DEF RecordFails
  <2>9. CASE SendNext(c) BY <2>9 DEF SendNext
  <2> QED BY <1>1, <2>1, <2>2, <2>3, <2>4, <2>5, <2>6, <2>7, <2>8, <2>9
<1>2. ASSUME NEW c \in Cycles, AcquireFails(c) PROVE Inside' = Inside
  BY <1>2 DEF AcquireFails
<1>3. ASSUME NEW c \in Cycles, Acquire(c) PROVE Inside' = Inside \cup {c}
  BY <1>3 DEF Acquire
<1>4. ASSUME NEW c \in Cycles, Release(c) \/ ReleaseFails(c)
      PROVE  c \in Inside /\ Inside' = Inside \ {c}
  BY <1>4 DEF Release, ReleaseFails
<1>5. ASSUME NEW c \in Cycles, Crash(c), c \in Inside PROVE Inside' = Inside \ {c}
  BY <1>5 DEF Crash
<1>6. ASSUME NEW c \in Cycles, Crash(c), c \notin Inside
      PROVE  Inside' = Inside /\ expiries' = expiries /\ held' = held /\ owner' = owner
               /\ abandoned \subseteq abandoned'
  BY <1>6 DEF Crash
<1>7. ASSUME Expire PROVE Inside' = Inside
  BY <1>7 DEF Expire
<1>8. ASSUME UNCHANGED vars
      PROVE  Inside' = Inside /\ expiries' = expiries /\ held' = held /\ owner' = owner
               /\ abandoned \subseteq abandoned'
  BY <1>8 DEF vars
<1>9. CASE \E c \in Cycles : Trigger(c) \/ Step(c) \/ Failure(c)
  <2>1. PICK c \in Cycles : Trigger(c) \/ Step(c) \/ Failure(c)
    BY <1>9
  <2>2. CASE Trigger(c) \/ Begin(c) \/ BeginFails(c) \/ Enter(c) \/ Skip(c) \/ Finish(c)
               \/ Record(c) \/ RecordFails(c) \/ SendNext(c)
    BY <2>2, <1>1
  <2>3. CASE AcquireFails(c) BY <2>3, <1>2
  <2>4. CASE Acquire(c) BY <2>4, <1>3
  <2>5. CASE Release(c) \/ ReleaseFails(c) BY <2>5, <1>4
  <2>6. CASE Crash(c) BY <2>6, <1>5, <1>6
  <2> QED
    BY <2>1, <2>2, <2>3, <2>4, <2>5, <2>6 DEF Step, Failure
<1> QED
  BY <1>7, <1>8, <1>9 DEF Next

\* A set of cycles is finite, and adding or removing one cycle changes its size
\* by at most one.
LEMMA InsideSize ==
  ASSUME NEW S \in SUBSET Cycles
  PROVE  /\ IsFiniteSet(S) /\ Cardinality(S) \in Nat
         /\ \A c \in Cycles : Cardinality(S \cup {c}) \in Nat
                              /\ Cardinality(S \cup {c}) <= Cardinality(S) + 1
         /\ \A c \in S : Cardinality(S \ {c}) = Cardinality(S) - 1
<1>1. IsFiniteSet(S) /\ Cardinality(S) \in Nat
  BY CyclesAssumption, FS_Subset, FS_CardinalityType
<1>2. ASSUME NEW c \in Cycles
      PROVE  /\ Cardinality(S \cup {c}) \in Nat
             /\ Cardinality(S \cup {c}) <= Cardinality(S) + 1
  <2>1. IsFiniteSet(S \cup {c})
           /\ Cardinality(S \cup {c}) = IF c \in S THEN Cardinality(S) ELSE Cardinality(S) + 1
    BY <1>1, FS_AddElement
  <2> QED BY <1>1, <2>1
<1>3. ASSUME NEW c \in S PROVE Cardinality(S \ {c}) = Cardinality(S) - 1
  BY <1>1, FS_RemoveElement
<1> QED
  BY <1>1, <1>2, <1>3

\* A step that may take one more cycle in pays for it with the key, and an expiry
\* frees the key at the price of one overlap.
LEMMA OverlapStep ==
  ASSUME ChainInv, OverlapNeedsExpiry, [Next]_vars
  PROVE  OverlapNeedsExpiry'
<1> DEFINE K == IF held THEN 1 ELSE 0
<1>1. /\ Inside \in SUBSET Cycles
      /\ Cardinality(Inside) \in Nat
      /\ expiries \in Nat /\ held \in BOOLEAN
  BY InsideSize DEF Inside, ChainInv, TypeOK
<1>2. Cardinality(Inside) <= expiries + K
  BY DEF OverlapNeedsExpiry
<1>3. held' \in BOOLEAN
  BY ChainStep DEF ChainInv, TypeOK
<1>4. CASE Inside' = Inside /\ expiries' = expiries /\ held' = held
  BY <1>4, <1>2 DEF OverlapNeedsExpiry
<1>5. ASSUME NEW c \in Cycles, AcquireFails(c), Inside' = Inside PROVE OverlapNeedsExpiry'
  <2>1. expiries' = expiries /\ (held => held')
    BY <1>5, <1>1 DEF AcquireFails
  <2> QED BY <1>1, <1>2, <1>3, <1>5, <2>1 DEF OverlapNeedsExpiry
<1>6. ASSUME NEW c \in Cycles, Acquire(c), Inside' = Inside \cup {c} PROVE OverlapNeedsExpiry'
  <2>1. expiries' = expiries /\ ~held /\ held'
    BY <1>6 DEF Acquire
  <2>2. Cardinality(Inside') <= Cardinality(Inside) + 1 /\ Cardinality(Inside') \in Nat
    BY <1>1, <1>6, InsideSize
  <2> QED BY <1>1, <1>2, <2>1, <2>2 DEF OverlapNeedsExpiry
<1>7. ASSUME NEW c \in Inside, Release(c) \/ ReleaseFails(c) \/ Crash(c),
             Inside' = Inside \ {c}
      PROVE  OverlapNeedsExpiry'
  <2>1. expiries' = expiries
    BY <1>7 DEF Release, ReleaseFails, Crash
  <2>2. Cardinality(Inside') = Cardinality(Inside) - 1
    BY <1>1, <1>7, InsideSize
  <2> QED BY <1>1, <1>2, <1>3, <2>1, <2>2 DEF OverlapNeedsExpiry
<1>8. ASSUME Expire, Inside' = Inside PROVE OverlapNeedsExpiry'
  BY <1>1, <1>2, <1>8 DEF Expire, OverlapNeedsExpiry
<1> QED
  BY InsideStep, <1>4, <1>5, <1>6, <1>7, <1>8

\* Runs of the locked task overlap only as often as the key expired.
THEOREM OverlapBounded == Spec => []OverlapNeedsExpiry
<1>1. Init => OverlapNeedsExpiry
  <2> SUFFICES ASSUME Init PROVE OverlapNeedsExpiry
    OBVIOUS
  <2>1. Inside = {}
    BY DEF Init, Inside
  <2> QED BY <2>1, FS_EmptySet DEF Init, OverlapNeedsExpiry
<1>2. ChainInv /\ OverlapNeedsExpiry /\ [Next]_vars => OverlapNeedsExpiry'
  BY OverlapStep
<1> QED
  BY <1>1, <1>2, ChainCorrect, PTL DEF Spec

\* A key that is held was set by a run still inside, or by one that a crash or a
\* lost Redis connection kept from deleting it.
THEOREM KeyNeverLeaks == Spec => []HeldExplained
<1>1. Init => HeldExplained
  BY DEF Init, HeldExplained
<1>2. ChainInv /\ HeldExplained /\ [Next]_vars => HeldExplained'
  <2> SUFFICES ASSUME ChainInv, HeldExplained, [Next]_vars PROVE HeldExplained'
    OBVIOUS
  <2> USE DEF HeldExplained
  <2>1. CASE Inside' = Inside /\ held' = held /\ owner' = owner
               /\ abandoned \subseteq abandoned'
    BY <2>1
  <2>2. ASSUME NEW c \in Cycles, AcquireFails(c), Inside' = Inside PROVE HeldExplained'
    BY <2>2 DEF AcquireFails
  <2>3. ASSUME NEW c \in Cycles, Acquire(c), Inside' = Inside \cup {c} PROVE HeldExplained'
    BY <2>3 DEF Acquire
  <2>4. ASSUME NEW c \in Inside, Release(c), Inside' = Inside \ {c} PROVE HeldExplained'
    BY <2>4 DEF Release
  <2>5. ASSUME NEW c \in Inside, ReleaseFails(c), Inside' = Inside \ {c} PROVE HeldExplained'
    BY <2>5 DEF ReleaseFails, ChainInv, TypeOK
  <2>6. ASSUME NEW c \in Inside, Crash(c), Inside' = Inside \ {c} PROVE HeldExplained'
    BY <2>6 DEF Crash
  <2>7. CASE Expire
    BY <2>7 DEF Expire
  <2> QED
    BY InsideStep, <2>1, <2>2, <2>3, <2>4, <2>5, <2>6, <2>7
<1> QED
  BY <1>1, <1>2, ChainCorrect, PTL DEF Spec

(***************************************************************************)
(* The scheduled_tasks rows.                                               *)
(***************************************************************************)

\* A row left at "running" is one whose run died before its last update.
THEOREM RunningRowsHaveARun == Spec => []RunningRowsExplained
<1>1. Init => RunningRowsExplained
  BY DEF Init, RunningRowsExplained
<1>2. ChainInv /\ RunningRowsExplained /\ [Next]_vars => RunningRowsExplained'
  <2> SUFFICES ASSUME TypeOK, RunningRowsExplained, [Next]_vars
               PROVE  RunningRowsExplained'
    BY DEF ChainInv
  <2> USE DEF RunningRowsExplained, TypeOK, Running, Goto, End
  <2>1. ASSUME NEW c \in Cycles, Trigger(c) PROVE RunningRowsExplained'
    BY <2>1 DEF Trigger
  <2>2. ASSUME NEW c \in Cycles, Begin(c) PROVE RunningRowsExplained'
    BY <2>2 DEF Begin
  <2>3. ASSUME NEW c \in Cycles, Enter(c) PROVE RunningRowsExplained'
    BY <2>3 DEF Enter
  <2>4. ASSUME NEW c \in Cycles, Acquire(c) PROVE RunningRowsExplained'
    BY <2>4 DEF Acquire
  <2>5. ASSUME NEW c \in Cycles, Skip(c) PROVE RunningRowsExplained'
    BY <2>5 DEF Skip
  <2>6. ASSUME NEW c \in Cycles, Finish(c) PROVE RunningRowsExplained'
    BY <2>6 DEF Finish
  <2>7. ASSUME NEW c \in Cycles, Release(c) PROVE RunningRowsExplained'
    BY <2>7 DEF Release
  <2>8. ASSUME NEW c \in Cycles, Record(c) PROVE RunningRowsExplained'
    BY <2>8 DEF Record
  <2>9. ASSUME NEW c \in Cycles, SendNext(c) PROVE RunningRowsExplained'
    BY <2>9 DEF SendNext
  <2>10. ASSUME NEW c \in Cycles, BeginFails(c) PROVE RunningRowsExplained'
    BY <2>10 DEF BeginFails
  <2>11. ASSUME NEW c \in Cycles, AcquireFails(c) PROVE RunningRowsExplained'
    BY <2>11 DEF AcquireFails
  <2>12. ASSUME NEW c \in Cycles, ReleaseFails(c) PROVE RunningRowsExplained'
    BY <2>12 DEF ReleaseFails
  <2>13. ASSUME NEW c \in Cycles, RecordFails(c) PROVE RunningRowsExplained'
    BY <2>13 DEF RecordFails
  <2>14. ASSUME NEW c \in Cycles, Crash(c) PROVE RunningRowsExplained'
    BY <2>14 DEF Crash
  <2>15. CASE Expire
    BY <2>15 DEF Expire
  <2>16. CASE UNCHANGED vars
    BY <2>16 DEF vars
  <2> QED
    BY <2>1, <2>2, <2>3, <2>4, <2>5, <2>6, <2>7, <2>8, <2>9, <2>10, <2>11, <2>12,
       <2>13, <2>14, <2>15, <2>16 DEF Next, Step, Failure
<1> QED
  BY <1>1, <1>2, ChainCorrect, PTL DEF Spec

(***************************************************************************)
(* The lock by itself.                                                     *)
(***************************************************************************)

\* The cycles use task_lock as TaskLock says: none enters while the key is there,
\* and the key goes only with a run that leaves or with its time to live.
THEOREM ChainsUseTheLock == Spec => LockSafe
<1>1. Init => Lock!Init
  BY DEF Init, Lock!Init, Inside
<1>2. ASSUME ChainInv, [Next]_vars PROVE [Lock!Next]_(Lock!vars)
  <2> USE DEF Lock!vars
  <2>0. held \in BOOLEAN /\ held' \in BOOLEAN /\ Inside \subseteq Cycles
    BY <1>2, ChainStep DEF ChainInv, TypeOK, Inside
  <2>1. CASE Inside' = Inside /\ held' = held
    BY <2>1
  <2>2. ASSUME NEW c \in Cycles, AcquireFails(c), Inside' = Inside
        PROVE  [Lock!Next]_(Lock!vars)
    <3>1. held' = held \/ (~held /\ held')
      BY <2>2 DEF AcquireFails
    <3>2. held' = held \/ Lock!SetUnanswered
      BY <2>0, <2>2, <3>1 DEF Lock!SetUnanswered
    <3> QED BY <2>2, <3>2 DEF Lock!Next
  <2>3. ASSUME NEW c \in Cycles, Acquire(c), Inside' = Inside \cup {c}
        PROVE  Lock!Next
    <3>1. c \notin Inside
      BY <2>3 DEF Acquire, Inside
    <3>2. Lock!Enter(c)
      BY <2>3, <3>1 DEF Acquire, Lock!Enter
    <3> QED BY <3>2 DEF Lock!Next
  <2>4. ASSUME NEW c \in Inside, Release(c) \/ ReleaseFails(c) \/ Crash(c), Inside' = Inside \ {c}
        PROVE  Lock!Next
    <3>1. held' \in {held, FALSE}
      BY <2>4 DEF Release, ReleaseFails, Crash
    <3>2. Lock!Leave(c) /\ c \in Cycles
      BY <2>0, <2>4, <3>1 DEF Lock!Leave
    <3> QED BY <3>2 DEF Lock!Next
  <2>5. CASE Expire /\ Inside' = Inside
    BY <2>5 DEF Expire, Lock!Expire, Lock!Next
  <2> QED BY <1>2, InsideStep, <2>1, <2>2, <2>3, <2>4, <2>5
<1> QED BY <1>1, <1>2, ChainCorrect, PTL DEF Spec, LockSafe, Lock!Safe
=============================================================================
