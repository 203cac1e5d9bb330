----------------------------- MODULE TelegramProofs -----------------------------
(***************************************************************************)
(* Proofs about Telegram, for any number of updates, deliveries and        *)
(* dashboard requests, and any kinds of update.                            *)
(***************************************************************************)
EXTENDS Telegram, FiniteSetTheorems, TLAPS

USE DEF HasRow, Seeded

\* A webhook request in use is about an update the user has sent.
InUse == \A d \in Deliveries : IF at[d].pc = "free" THEN at[d] = Free ELSE at[d].u \in Sent

\* The idle records and an update's number are well typed.
LEMMA IdleTypes ==
  /\ Free \in Delivery /\ NoForm \in Form
  /\ \A u \in Updates : u \in 0..UpdateBound /\ u \in Nat
  BY BoundsAssumption DEF Free, NoForm, Delivery, Form, Updates, FlagValues, Statuses

(***************************************************************************)
(* What one step of a webhook request does to it.                          *)
(***************************************************************************)

Handled(d) == Handle(d) \/ Throttled(d) \/ Fails(d)

\* It goes on with the same update, as long heard as before ...
GoesOn(d) ==
  /\ \E rec \in Delivery : /\ rec.pc # "free" /\ rec.u = at[d].u /\ rec.heard = at[d].heard
                           /\ at' = [at EXCEPT ![d] = rec]
  /\ UNCHANGED <<acked, strayed>>

\* ... or ends: with an answer, if anyone still listens, or with a failure.
Ends(d) ==
  /\ at' = [at EXCEPT ![d] = Free]
  /\ \/ /\ acked' = IF at[d].heard THEN acked \cup {at[d].u} ELSE acked
        /\ UNCHANGED strayed
     \/ /\ strayed' = strayed \cup {at[d].u}
        /\ UNCHANGED acked

\* A reply goes on with the same update.
LEMMA RepliesGoOn ==
  ASSUME TypeOK, NEW d \in Deliveries, NEW k, Replies(d, k)
  PROVE  GoesOn(d) /\ UNCHANGED <<role, kind, tried, web>>
<1> DEFINE rec(n) == [at[d] EXCEPT !.pc = "reply", !.left = n, !.seen = "none", !.edits = 0]
<1>1. PICK n \in 1..ReviewBound : Moves(d, rec(n))
  <2> DEFINE To(n) == Moves(d, rec(n))
  <2>1. \E n \in IF k = "review" THEN 1..ReviewBound ELSE {1} : To(n)
    BY DEF Replies
  <2>2. (IF k = "review" THEN 1..ReviewBound ELSE {1}) \subseteq 1..ReviewBound
    BY BoundsAssumption
  <2> HIDE DEF To
  <2>3. \E n \in 1..ReviewBound : To(n)
    BY <2>1, <2>2
  <2> QED BY <2>3 DEF To
<1>2. rec(n) \in Delivery
  <2>1. at[d] \in Delivery /\ n \in 0..ReviewBound
    BY BoundsAssumption DEF TypeOK
  <2> QED BY <2>1 DEF Delivery, FlagValues
<1>3. rec(n).pc = "reply" /\ rec(n).u = at[d].u /\ rec(n).heard = at[d].heard
  BY DEF TypeOK, Delivery
<1> QED
  BY <1>1, <1>2, <1>3 DEF Moves, GoesOn

\* Every step of a request in use lets it go on or ends it.
LEMMA HandledStep ==
  ASSUME TypeOK, NEW d \in Deliveries, Handled(d)
  PROVE  /\ at[d].pc # "free"
         /\ GoesOn(d) \/ Ends(d)
         /\ UNCHANGED <<role, kind, tried, web>>
<1> DEFINE Goal == /\ GoesOn(d) \/ Ends(d)
                   /\ UNCHANGED <<role, kind, tried, web>>
<1>1. at[d].pc # "free"
  BY DEF Handled, Handle, Dispatch, Assist, LookUpFlag, WriteFlag, FlagCollides, Searched, NoWord,
         TurnedAway, LookUpJob, Skip, Apply, SendReply, Answer, Throttled, Fails, Routed
<1>2. ASSUME NEW seen \in FlagValues \cup Statuses, NEW ed \in Nat,
             Moves(d, [at[d] EXCEPT !.pc = "write", !.seen = seen, !.edits = ed])
      PROVE  Goal
  <2> DEFINE rec == [at[d] EXCEPT !.pc = "write", !.seen = seen, !.edits = ed]
  <2>1. rec \in Delivery /\ rec.pc # "free" /\ rec.u = at[d].u /\ rec.heard = at[d].heard
    BY DEF TypeOK, Delivery
  <2> QED BY <1>2, <2>1 DEF Moves, GoesOn
<1>3. ASSUME Moves(d, [at[d] EXCEPT !.pc = "search"]) PROVE Goal
  <2> DEFINE rec == [at[d] EXCEPT !.pc = "search"]
  <2>1. rec \in Delivery /\ rec.pc # "free" /\ rec.u = at[d].u /\ rec.heard = at[d].heard
    BY DEF TypeOK, Delivery
  <2> QED BY <1>3, <2>1 DEF Moves, GoesOn
<1>4. ASSUME Abandons(d) PROVE Goal
  BY <1>4 DEF Abandons, Ends
<1>5. ASSUME Dispatch(d) PROVE Goal
  BY <1>3, <1>5, RepliesGoOn DEF Dispatch
<1>6. ASSUME Assist(d) \/ WriteFlag(d) \/ Searched(d) \/ TurnedAway(d) \/ Skip(d) \/ Apply(d)
               \/ Throttled(d)
      PROVE  Goal
  BY <1>6, RepliesGoOn DEF Assist, WriteFlag, Searched, TurnedAway, Skip, Apply, Throttled
<1>7. ASSUME LookUpFlag(d) PROVE Goal
  BY <1>2, <1>7 DEF LookUpFlag, TypeOK
<1>8. ASSUME LookUpJob(d) PROVE Goal
  <2>1. CASE Moves(d, [at[d] EXCEPT !.pc = "write", !.seen = job])
    <3>1. [at[d] EXCEPT !.pc = "write", !.seen = job]
            = [at[d] EXCEPT !.pc = "write", !.seen = job, !.edits = at[d].edits]
      BY DEF TypeOK, Delivery
    <3>2. at[d].edits \in Nat /\ job \in Statuses
      BY DEF TypeOK, Delivery
    <3> QED BY <1>2, <2>1, <3>1, <3>2
  <2> QED BY <1>8, <2>1, RepliesGoOn DEF LookUpJob
<1>9. ASSUME FlagCollides(d) \/ NoWord(d) \/ Fails(d) PROVE Goal
  BY <1>4, <1>9 DEF FlagCollides, NoWord, Fails
<1>10. ASSUME SendReply(d) PROVE Goal
  <2>1. at[d].left > 1 /\ at[d].left \in 0..ReviewBound /\ at[d].pc = "reply"
          /\ Moves(d, [at[d] EXCEPT !.left = at[d].left - 1])
    BY <1>10 DEF SendReply, TypeOK, Delivery
  <2>2. /\ [at[d] EXCEPT !.left = at[d].left - 1] \in Delivery
        /\ [at[d] EXCEPT !.left = at[d].left - 1].pc # "free"
        /\ [at[d] EXCEPT !.left = at[d].left - 1].u = at[d].u
        /\ [at[d] EXCEPT !.left = at[d].left - 1].heard = at[d].heard
    BY <2>1, BoundsAssumption DEF TypeOK, Delivery
  <2> QED BY <2>1, <2>2 DEF Moves, GoesOn
<1>11. ASSUME Answer(d) PROVE Goal
  BY <1>11 DEF Answer, Ends
<1> QED
  BY <1>1, <1>5, <1>6, <1>7, <1>8, <1>9, <1>10, <1>11 DEF Handled, Handle

\* Of the flag and its history only writing a flag touches anything.
LEMMA OnlyWritesTouchFlags ==
  ASSUME NEW d \in Deliveries, Handled(d)
  PROVE  WriteFlag(d) \/ UNCHANGED <<flag, by, newest, edits, base>>
  BY DEF Handled, Handle, Dispatch, Assist, LookUpFlag, FlagCollides, Searched, NoWord,
         TurnedAway, LookUpJob, Skip, Apply, SendReply, Answer, Throttled, Fails, Abandons, store

(***************************************************************************)
(* Types.                                                                  *)
(***************************************************************************)

\* Every step keeps the types, and requests in use about updates that were sent.
LEMMA TypeStep == TypeOK /\ InUse /\ [Next]_vars => TypeOK' /\ InUse'
<1> SUFFICES ASSUME TypeOK, InUse, [Next]_vars PROVE TypeOK' /\ InUse'
  OBVIOUS
<1> USE IdleTypes, BoundsAssumption
<1>1. ASSUME NEW u \in Updates, NEW k \in Kinds, UserSends(u, k) PROVE TypeOK' /\ InUse'
  <2>1. Sent \subseteq Sent' /\ kind' \in [Updates -> Kinds \cup {"none"}]
    BY <1>1, KindsAssumption DEF UserSends, Sent, TypeOK
  <2> QED BY <1>1, <2>1 DEF UserSends, TypeOK, InUse, store
<1>2. ASSUME NEW d \in Deliveries, NEW u \in Updates, Deliver(d, u) PROVE TypeOK' /\ InUse'
  <2> DEFINE rec == [Free EXCEPT !.pc = "routed", !.u = u, !.heard = TRUE]
  <2>1. /\ at' = [at EXCEPT ![d] = rec] /\ u \in Sent /\ Sent' = Sent
        /\ tried' = (IF u > tried THEN u ELSE tried)
    BY <1>2 DEF Deliver, Sent
  <2>2. rec \in Delivery /\ rec.u = u /\ rec.pc = "routed"
    BY DEF Free, Delivery
  <2>3. \A e \in Active : at[e].u \in Sent
    BY DEF InUse, Active
  <2>4. strayed' \in SUBSET Sent
    BY <1>2, <2>1, <2>3 DEF Deliver, TypeOK
  <2>5. InUse'
    BY <2>1, <2>2 DEF InUse, TypeOK
  <2>6. at' \in [Deliveries -> Delivery] /\ tried' \in 0..UpdateBound
    BY <2>1, <2>2 DEF TypeOK
  <2> QED BY <1>2, <2>1, <2>4, <2>5, <2>6 DEF Deliver, TypeOK, store
<1>3. ASSUME NEW d \in Deliveries, TimesOut(d) PROVE TypeOK' /\ InUse'
  <2>1. at[d].pc # "free" /\ at[d].u \in Sent /\ Sent' = Sent
    BY <1>3 DEF TimesOut, InUse, Free, Sent
  <2>2. at' = [at EXCEPT ![d] = [at[d] EXCEPT !.heard = FALSE]]
    BY <1>3 DEF TimesOut
  <2>3. /\ [at[d] EXCEPT !.heard = FALSE] \in Delivery
        /\ [at[d] EXCEPT !.heard = FALSE].pc = at[d].pc
        /\ [at[d] EXCEPT !.heard = FALSE].u = at[d].u
    BY DEF TypeOK, Delivery
  <2>4. InUse' /\ at' \in [Deliveries -> Delivery]
    BY <2>1, <2>2, <2>3 DEF InUse, TypeOK
  <2>5. faults' \in 0..FaultBound
    BY <1>3 DEF TimesOut, Fault, TypeOK
  <2> QED BY <1>3, <2>1, <2>4, <2>5 DEF TimesOut, TypeOK, store
<1>4. ASSUME NEW d \in Deliveries, Handled(d) PROVE TypeOK' /\ InUse'
  <2>1. /\ at[d].pc # "free" /\ at[d].u \in Sent
        /\ GoesOn(d) \/ Ends(d)
        /\ UNCHANGED <<role, kind, tried, web>> /\ Sent' = Sent
    BY <1>4, HandledStep DEF InUse, Sent
  <2>2. InUse' /\ at' \in [Deliveries -> Delivery]
    <3>1. PICK rec \in Delivery : /\ at' = [at EXCEPT ![d] = rec]
                                  /\ rec = Free \/ (rec.pc # "free" /\ rec.u = at[d].u)
      BY <2>1 DEF GoesOn, Ends
    <3>2. at \in [Deliveries -> Delivery] /\ at' = [at EXCEPT ![d] = rec]
      BY <3>1 DEF TypeOK
    <3>3. at' \in [Deliveries -> Delivery]
      BY <3>2
    <3>4. IF rec.pc = "free" THEN rec = Free ELSE rec.u \in Sent
      BY <2>1, <3>1 DEF Free
    <3>5. \A e \in Deliveries : IF at'[e].pc = "free" THEN at'[e] = Free ELSE at'[e].u \in Sent
      BY <3>2, <3>4 DEF InUse
    <3> QED BY <2>1, <3>3, <3>5 DEF InUse
  <2>3. acked' \in SUBSET Sent /\ strayed' \in SUBSET Sent
    BY <2>1 DEF GoesOn, Ends, TypeOK
  <2>4. faults' \in 0..FaultBound
    BY <1>4 DEF Handled, Handle, Dispatch, Assist, LookUpFlag, WriteFlag, FlagCollides, Searched,
                NoWord, TurnedAway, LookUpJob, Skip, Apply, SendReply, Answer, Throttled, Fails,
                Fault, TypeOK
  <2>5. /\ flag' \in FlagValues /\ by' \in 0..UpdateBound
        /\ newest' \in 0..UpdateBound /\ edits' \in Nat /\ base' \in Nat
    <3>1. CASE WriteFlag(d)
      BY <2>1, <3>1 DEF WriteFlag, Written, CarriedOut, Value, TypeOK, Sent, FlagValues, Delivery
    <3> QED BY <1>4, <3>1, OnlyWritesTouchFlags DEF TypeOK
  <2>6. job' \in Statuses /\ rows' \in Nat
    BY <1>4 DEF Handled, Handle, Dispatch, Assist, LookUpFlag, WriteFlag, FlagCollides, Searched,
                NoWord, TurnedAway, LookUpJob, Skip, Apply, SendReply, Answer, Throttled, Fails,
                Abandons, store, TypeOK, Written, Statuses
  <2> QED BY <2>1, <2>2, <2>3, <2>4, <2>5, <2>6 DEF TypeOK
<1>5. ASSUME NEW r \in Requests, WebLookUp(r) PROVE TypeOK' /\ InUse'
  <2>1. web' \in [Requests -> Form]
    BY <1>5 DEF WebLookUp, TypeOK, Form, FlagValues
  <2> QED BY <1>5, <2>1 DEF WebLookUp, TypeOK, InUse, Sent, store
<1>6. ASSUME NEW r \in Requests, WebWrite(r) PROVE TypeOK' /\ InUse'
  <2>1. web' \in [Requests -> Form]
    BY <1>6 DEF WebWrite, TypeOK, Form, NoForm, FlagValues
  <2>2. flag' \in FlagValues /\ by' \in 0..UpdateBound /\ edits' \in Nat
    BY <1>6 DEF WebWrite, TypeOK, Form
  <2> QED BY <1>6, <2>1, <2>2 DEF WebWrite, TypeOK, InUse, Sent
<1>7. CASE UNCHANGED vars
  BY <1>7 DEF vars, store, TypeOK, InUse, Sent
<1> QED
  BY <1>1, <1>2, <1>3, <1>4, <1>5, <1>6, <1>7 DEF Next, Handled

\* The initial states are well typed.
LEMMA TypeInit == Init => TypeOK /\ InUse
<1> SUFFICES ASSUME Init PROVE TypeOK /\ InUse
  OBVIOUS
<1>1. TypeOK
  BY IdleTypes, BoundsAssumption, DefaultAssumption DEF Init, TypeOK, FlagValues, Statuses
<1>2. InUse
  BY DEF Init, InUse, Free
<1> QED BY <1>1, <1>2

\* Both facts together, for the proof that follows.
LEMMA ShapeCorrect == Spec => [](TypeOK /\ InUse)
  BY TypeInit, TypeStep, PTL DEF Spec

\* Every variable keeps its type.
THEOREM TypeCorrect == Spec => []TypeOK
  BY ShapeCorrect, PTL

(***************************************************************************)
(* The order in which updates are handled.                                 *)
(***************************************************************************)

\* An update that has been delivered was answered, went astray, or is being handled
\* while Telegram waits; two that are handled together are astray; and one that is
\* not astray is no older than any flag command that was carried out.
InOrder ==
  /\ newest <= tried
  /\ \A u \in Updates : u <= tried =>
       u \in acked \cup strayed \/ \E d \in Active : at[d].u = u /\ at[d].heard
  /\ \A d, e \in Active : d # e => at[d].u \in strayed
  /\ \A d \in Active : at[d].u <= tried
  /\ \A d \in Active : at[d].u \notin strayed => newest <= at[d].u

\* Every step keeps the order.
LEMMA InOrderStep == TypeOK /\ InUse /\ InOrder /\ [Next]_vars => InOrder'
<1> SUFFICES ASSUME TypeOK, InUse, InOrder, [Next]_vars PROVE InOrder'
  OBVIOUS
<1> USE IdleTypes, BoundsAssumption
<1>0. /\ tried \in Nat /\ newest \in Nat
      /\ \A d \in Active : at[d].u \in Nat /\ at[d].u \in Sent
      /\ \A u \in Updates : u \in Nat
  BY DEF TypeOK, InUse, Active, Sent
<1>1. ASSUME NEW u \in Updates, NEW k \in Kinds, UserSends(u, k)
      PROVE  InOrder'
  <2>1. UNCHANGED <<tried, acked, at, newest, strayed>> /\ Active' = Active
    BY <1>1 DEF UserSends, store, Active
  <2> QED BY <2>1 DEF InOrder
<1>2. ASSUME NEW d \in Deliveries, NEW u \in Updates, Deliver(d, u)
      PROVE  InOrder'
  <2>1. /\ d \notin Active /\ u \in Sent \ acked /\ u <= tried + 1
        /\ \A e \in Active : at[e].u = u => ~at[e].heard
        /\ tried' = (IF u > tried THEN u ELSE tried)
        /\ strayed' = IF Active = {} THEN strayed
                      ELSE strayed \cup {u} \cup {at[e].u : e \in Active}
        /\ UNCHANGED <<acked, newest>> /\ Sent' = Sent
    BY <1>2 DEF Deliver, store, Sent
  <2>2. /\ Active' = Active \cup {d} /\ at'[d].u = u /\ at'[d].heard
        /\ \A e \in Active : at'[e] = at[e]
    BY <1>2 DEF Deliver, Active, TypeOK, Free
  <2>3. strayed \subseteq strayed' /\ tried <= tried' /\ u <= tried'
    BY <1>0, <2>1
  <2>4. newest <= tried'
    BY <1>0, <2>1 DEF InOrder
  <2>5. \A v \in Updates : v <= tried' =>
          v \in acked \cup strayed' \/ \E e \in Active' : at'[e].u = v /\ at'[e].heard
    BY <1>0, <2>1, <2>2, <2>3 DEF InOrder
  <2>6. \A e, f \in Active' : e # f => at'[e].u \in strayed'
    BY <2>1, <2>2, <2>3 DEF InOrder
  <2>7. \A e \in Active' : at'[e].u <= tried'
    BY <1>0, <2>1, <2>2, <2>3 DEF InOrder
  <2>8. u \notin strayed => newest <= u
    BY <1>0, <2>1 DEF InOrder
  <2>9. \A e \in Active' : at'[e].u \notin strayed' => newest <= at'[e].u
    BY <2>2, <2>3, <2>8 DEF InOrder
  <2> QED
    BY <2>1, <2>3, <2>4, <2>5, <2>6, <2>7, <2>9 DEF InOrder
<1>3. ASSUME NEW d \in Deliveries, TimesOut(d) PROVE InOrder'
  <2>1. /\ strayed' = strayed \cup {at[d].u}
        /\ UNCHANGED <<acked, tried, newest>> /\ Sent' = Sent
    BY <1>3 DEF TimesOut, store, Sent
  <2>2. /\ Active' = Active
        /\ \A e \in Active : at'[e].u = at[e].u /\ (e # d => at'[e].heard = at[e].heard)
    BY <1>3 DEF TimesOut, Active, TypeOK, Delivery
  <2> QED BY <2>1, <2>2 DEF InOrder
<1>4. ASSUME NEW d \in Deliveries, Handled(d) PROVE InOrder'
  <2>1. /\ d \in Active
        /\ GoesOn(d) \/ Ends(d)
        /\ tried' = tried /\ Sent' = Sent
    BY <1>4, HandledStep DEF Active, Sent
  <2>2. \/ newest' = newest
        \/ newest' = IF at[d].u >= newest THEN at[d].u ELSE newest
    BY <1>4, OnlyWritesTouchFlags DEF WriteFlag, CarriedOut
  <2>3. /\ Active' \subseteq Active /\ strayed \subseteq strayed' /\ acked \subseteq acked'
        /\ \A e \in Active' : at'[e].u = at[e].u /\ at'[e].heard = at[e].heard
        /\ \A e \in Active \ {d} : e \in Active'
        /\ d \notin Active' => (at[d].heard => at[d].u \in acked' \cup strayed')
    <3>1. CASE GoesOn(d)
      BY <2>1, <3>1 DEF GoesOn, Active, TypeOK
    <3>2. CASE Ends(d)
      BY <2>1, <3>2 DEF Ends, Active, TypeOK, Free
    <3> QED BY <2>1, <3>1, <3>2
  <2>4. newest' <= tried
    BY <1>0, <2>1, <2>2 DEF InOrder
  <2>5. \A u \in Updates : u <= tried =>
          u \in acked' \cup strayed' \/ \E e \in Active' : at'[e].u = u /\ at'[e].heard
    BY <2>3 DEF InOrder
  <2>6. \A e, f \in Active' : e # f => at'[e].u \in strayed'
    BY <2>3 DEF InOrder
  <2>7. \A e \in Active' : at'[e].u <= tried
    BY <2>3 DEF InOrder
  <2>8. \A e \in Active' : at'[e].u \notin strayed' => newest' <= at'[e].u
    <3> SUFFICES ASSUME NEW e \in Active', at[e].u \notin strayed PROVE newest' <= at[e].u
      BY <2>3
    <3>1. e = d /\ newest <= at[d].u
      BY <2>1, <2>3 DEF InOrder
    <3> QED BY <1>0, <2>1, <2>2, <3>1
  <2> QED BY <2>1, <2>4, <2>5, <2>6, <2>7, <2>8 DEF InOrder
<1>5. ASSUME NEW r \in Requests, WebLookUp(r) \/ WebWrite(r) PROVE InOrder'
  <2>1. UNCHANGED <<tried, acked, at, newest, strayed>> /\ Sent' = Sent /\ Active' = Active
    BY <1>5 DEF WebLookUp, WebWrite, store, Sent, Active
  <2> QED BY <2>1 DEF InOrder
<1>6. CASE UNCHANGED vars
  BY <1>6 DEF vars, store, InOrder, Sent, Active
<1> QED
  BY <1>1, <1>2, <1>3, <1>4, <1>5, <1>6 DEF Next, Handled

\* The order holds from the start.
LEMMA InOrderCorrect == Spec => []InOrder
<1>1. Init => InOrder
  BY BoundsAssumption DEF Init, InOrder, Updates, Active, Free
<1> QED
  BY <1>1, InOrderStep, ShapeCorrect, PTL DEF Spec

\* Updates are sent in their order, so what an update is never changes.
SentInOrder == \E n \in 0..UpdateBound : Sent = 1..n

\* Every step keeps that order.
LEMMA SentInOrderStep ==
  ASSUME TypeOK, SentInOrder, [Next]_vars
  PROVE  SentInOrder' /\ \A u \in Sent : kind'[u] = kind[u]
<1> USE BoundsAssumption, KindsAssumption
<1>1. ASSUME NEW u \in Updates, NEW k \in Kinds, UserSends(u, k)
      PROVE  SentInOrder' /\ \A v \in Sent : kind'[v] = kind[v]
  <2>1. PICK n \in 0..UpdateBound : Sent = 1..n
    BY DEF SentInOrder
  <2>2. Cardinality(Sent) = n
    BY <2>1, FS_Interval
  <2>3. u = n + 1 /\ kind' = [kind EXCEPT ![u] = k]
    BY <1>1, <2>2 DEF UserSends
  <2>4. Sent' = Sent \cup {u}
    BY <2>3 DEF Sent, TypeOK
  <2>5. u \in 0..UpdateBound /\ Sent' = 1..u
    BY <2>1, <2>3, <2>4 DEF Updates
  <2>6. u \notin Sent
    BY <2>1, <2>3
  <2> QED BY <2>3, <2>5, <2>6 DEF SentInOrder, TypeOK, Sent
<1>2. CASE kind' = kind
  BY <1>2 DEF SentInOrder, Sent
<1>3. ASSUME NEW d \in Deliveries, Handled(d) PROVE kind' = kind
  BY <1>3, HandledStep
<1>4. ASSUME NEW d \in Deliveries, NEW u \in Updates, Deliver(d, u) PROVE kind' = kind
  BY <1>4 DEF Deliver
<1>5. ASSUME NEW d \in Deliveries, TimesOut(d) PROVE kind' = kind
  BY <1>5 DEF TimesOut
<1>6. ASSUME NEW r \in Requests, WebLookUp(r) \/ WebWrite(r) PROVE kind' = kind
  BY <1>6 DEF WebLookUp, WebWrite
<1>7. UNCHANGED vars => kind' = kind
  BY DEF vars
<1> QED BY <1>1, <1>2, <1>3, <1>4, <1>5, <1>6, <1>7 DEF Next, Handled

\* Updates are sent in order from the start.
LEMMA SentInOrderCorrect == Spec => []SentInOrder
<1>1. Init => SentInOrder
  <2> SUFFICES ASSUME Init PROVE Sent = 1..0 /\ 0 \in 0..UpdateBound
    BY DEF SentInOrder
  <2> QED BY BoundsAssumption DEF Init, Sent
<1> QED
  BY <1>1, SentInOrderStep, ShapeCorrect, PTL DEF Spec

(***************************************************************************)
(* The flag follows the newest command.                                    *)
(***************************************************************************)

\* The command of this request has looked the flag up and has still to commit.
Commits(d) == at[d].pc = "write" /\ kind[at[d].u] \in FlagCommands

\* A command that has still to commit finds the flag as it was read, unless the
\* dashboard, or a command that went astray, has written it since.
FlagKept ==
  /\ FlagFollowsNewest
  /\ base <= edits
  /\ newest # 0 => newest \in Sent
  /\ \A d \in Active : Commits(d) =>
       at[d].edits <= edits /\ (flag = at[d].seen \/ edits > at[d].edits \/ by \in strayed)

\* Every step keeps the flag explained.
LEMMA FlagStep ==
  TypeOK /\ InUse /\ InOrder /\ SentInOrder /\ FlagKept /\ [Next]_vars => FlagKept'
<1> SUFFICES ASSUME TypeOK, InUse, InOrder, SentInOrder, FlagKept, [Next]_vars PROVE FlagKept'
  OBVIOUS
<1>0. /\ \A u \in Sent : kind'[u] = kind[u] /\ u \in Sent'
      /\ \A d \in Active : at[d].u \in Sent /\ at[d].u \in Nat /\ at[d].edits \in Nat
      /\ edits \in Nat /\ base \in Nat /\ newest \in Nat /\ strayed \subseteq Sent
  <2>1. \A u \in Sent : kind'[u] = kind[u] /\ kind'[u] # "none"
    BY SentInOrderStep DEF Sent
  <2>2. Sent \subseteq Sent'
    BY <2>1 DEF Sent
  <2> QED BY <2>1, <2>2 DEF TypeOK, InUse, Active, Delivery, Updates
\* A step that leaves the flag and its history alone, and lets none but those go on
\* that have read the flag.
<1>a. ASSUME UNCHANGED <<flag, by, newest, edits, base>>, strayed \subseteq strayed',
             \A d \in Active' : Commits(d)' =>
               \/ /\ d \in Active /\ Commits(d)
                  /\ at'[d].seen = at[d].seen /\ at'[d].edits = at[d].edits
               \/ at'[d].seen = flag /\ at'[d].edits = edits
      PROVE  FlagKept'
  <2>1. FlagFollowsNewest'
    BY <1>a, <1>0 DEF FlagKept, FlagFollowsNewest
  <2>2. newest' # 0 => newest' \in Sent'
    BY <1>a, <1>0 DEF FlagKept
  <2>3. base' <= edits'
    BY <1>a DEF FlagKept
  <2>4. ASSUME NEW d \in Active', Commits(d)'
        PROVE  /\ at'[d].edits <= edits'
               /\ flag' = at'[d].seen \/ edits' > at'[d].edits \/ by' \in strayed'
    BY <1>a, <1>0, <2>4 DEF FlagKept
  <2> QED BY <2>1, <2>2, <2>3, <2>4 DEF FlagKept
<1>1. ASSUME NEW u \in Updates, NEW k \in Kinds, UserSends(u, k) PROVE FlagKept'
  <2>1. UNCHANGED <<at, flag, by, newest, edits, base, strayed>>
    BY <1>1 DEF UserSends, store
  <2>2. \A d \in Active' : d \in Active /\ (Commits(d)' => Commits(d))
    BY <2>1, <1>0 DEF Active, Commits
  <2> QED BY <1>a, <2>1, <2>2
<1>2. ASSUME NEW d \in Deliveries, NEW u \in Updates, Deliver(d, u) PROVE FlagKept'
  <2>1. UNCHANGED <<kind, flag, by, newest, edits, base>> /\ strayed \subseteq strayed'
    BY <1>2 DEF Deliver, store
  <2>2. at'[d].pc = "routed" /\ \A e \in Deliveries : e # d => at'[e] = at[e]
    BY <1>2 DEF Deliver, TypeOK, Free
  <2>3. \A e \in Active' : Commits(e)' => e \in Active /\ Commits(e) /\ at'[e] = at[e]
    BY <2>1, <2>2 DEF Active, Commits
  <2> QED BY <1>a, <2>1, <2>3
<1>3. ASSUME NEW d \in Deliveries, TimesOut(d) PROVE FlagKept'
  <2>1. UNCHANGED <<kind, flag, by, newest, edits, base>> /\ strayed \subseteq strayed'
    BY <1>3 DEF TimesOut, store
  <2>2. \A e \in Deliveries : /\ at'[e].pc = at[e].pc /\ at'[e].u = at[e].u
                              /\ at'[e].seen = at[e].seen /\ at'[e].edits = at[e].edits
    BY <1>3 DEF TimesOut, TypeOK, Delivery
  <2>3. \A e \in Active' : Commits(e)' =>
          /\ e \in Active /\ Commits(e)
          /\ at'[e].seen = at[e].seen /\ at'[e].edits = at[e].edits
    BY <2>1, <2>2 DEF Active, Commits
  <2> QED BY <1>a, <2>1, <2>3
<1>4. ASSUME NEW d \in Deliveries, Handled(d) PROVE FlagKept'
  <2>1. /\ d \in Active /\ kind' = kind
        /\ GoesOn(d) \/ Ends(d)
    BY <1>4, HandledStep DEF Active
  <2>2. /\ strayed \subseteq strayed'
        /\ \A e \in Deliveries : e # d => at'[e] = at[e]
        /\ at'[d].pc # "free" => at'[d].u = at[d].u
    <3>1. CASE GoesOn(d)
      BY <3>1 DEF GoesOn, TypeOK
    <3>2. CASE Ends(d)
      BY <3>2 DEF Ends, TypeOK, Free
    <3> QED BY <2>1, <3>1, <3>2
  <2>3. \A e \in Active' : e # d /\ Commits(e)' => e \in Active /\ Commits(e) /\ at'[e] = at[e]
    BY <2>1, <2>2 DEF Active, Commits
  <2>r. ASSUME NEW k, Replies(d, k) PROVE at'[d].pc = "reply"
    BY <2>r DEF Replies, Moves, TypeOK, Delivery
  <2>4. CASE WriteFlag(d)
    <3> DEFINE u == at[d].u
               v == Value(kind[u])
    <3>1. /\ Commits(d) /\ ~Commits(d)' /\ edits' = edits /\ u \in Sent
          /\ CarriedOut(u, at[d].edits)
      BY <2>r, <2>1, <2>4, <1>0 DEF WriteFlag, Commits
    <3>2. u >= newest \/ u \in strayed
      BY <1>0, <2>1 DEF InOrder
    <3>3. \A e \in Active : e # d => u \in strayed
      BY <2>1 DEF InOrder
    <3>4. /\ newest' # 0 => newest' \in Sent'
          /\ base' <= edits'
          /\ u >= newest => newest' = u /\ base' = at[d].edits
          /\ ~(u >= newest) => newest' = newest /\ base' = base
      BY <1>0, <2>1, <3>1 DEF CarriedOut, FlagKept
    <3>5. CASE at[d].seen = v
      <4>1. flag' = flag /\ by' = by
        BY <2>4, <3>5 DEF WriteFlag, Written
      <4>2. FlagFollowsNewest'
        BY <1>0, <2>1, <2>2, <3>1, <3>4, <3>5, <4>1 DEF FlagKept, FlagFollowsNewest
      <4>3. ASSUME NEW e \in Active', Commits(e)'
            PROVE  /\ at'[e].edits <= edits'
                   /\ flag' = at'[e].seen \/ edits' > at'[e].edits \/ by' \in strayed'
        BY <2>2, <2>3, <3>1, <4>1, <4>3 DEF FlagKept
      <4> QED BY <3>4, <4>2, <4>3 DEF FlagKept
    <3>6. CASE at[d].seen # v
      <4>1. flag' = v /\ by' = u
        BY <2>4, <3>6 DEF WriteFlag, Written
      <4>2. FlagFollowsNewest'
        BY <1>0, <2>1, <2>2, <3>2, <3>4, <4>1 DEF FlagFollowsNewest
      <4>3. ASSUME NEW e \in Active', Commits(e)'
            PROVE  /\ at'[e].edits <= edits'
                   /\ flag' = at'[e].seen \/ edits' > at'[e].edits \/ by' \in strayed'
        BY <2>2, <2>3, <3>1, <3>3, <4>1, <4>3 DEF FlagKept
      <4> QED BY <3>4, <4>2, <4>3 DEF FlagKept
    <3> QED BY <3>5, <3>6
  <2>5. CASE LookUpFlag(d)
    <3>1. UNCHANGED <<flag, by, newest, edits, base>>
      BY <2>5 DEF LookUpFlag, store
    <3>2. at'[d].seen = flag /\ at'[d].edits = edits
      BY <2>5 DEF LookUpFlag, Moves, TypeOK, Delivery
    <3> QED BY <1>a, <2>2, <2>3, <3>1, <3>2
  <2>6. CASE ~WriteFlag(d) /\ ~LookUpFlag(d)
    <3>1. UNCHANGED <<flag, by, newest, edits, base>>
      BY <1>4, <2>6, OnlyWritesTouchFlags
    <3>2. ~Commits(d)'
      <4>1. ASSUME Ends(d) PROVE at'[d].pc = "free"
        BY <4>1 DEF Ends, TypeOK, Free
      <4>2. ASSUME Dispatch(d) PROVE at'[d].pc # "write"
        <5>1. CASE Moves(d, [at[d] EXCEPT !.pc = "search"])
          BY <5>1 DEF Moves, TypeOK, Delivery
        <5>2. CASE \E k \in Commands \cup {"denied"} : Replies(d, k)
          BY <2>r, <5>2
        <5> QED BY <4>2, <5>1, <5>2 DEF Dispatch, Routed
      <4>3. ASSUME LookUpJob(d) PROVE kind[at[d].u] \notin FlagCommands
        BY <4>3 DEF LookUpJob, Routed, Buttons, FlagCommands
      <4>4. ASSUME SendReply(d) PROVE at'[d].pc = "reply"
        BY <4>4 DEF SendReply, Moves, TypeOK, Delivery
      <4>5. ASSUME Answer(d) \/ FlagCollides(d) \/ NoWord(d) \/ Fails(d) PROVE Ends(d)
        BY <4>5 DEF Answer, FlagCollides, NoWord, Fails, Abandons, Ends
      <4>6. ASSUME Assist(d) \/ Searched(d) \/ TurnedAway(d) \/ Skip(d) \/ Apply(d) \/ Throttled(d)
            PROVE  at'[d].pc = "reply"
        BY <2>r, <4>6 DEF Assist, Searched, TurnedAway, Skip, Apply, Throttled
      <4> QED
        BY <1>4, <2>1, <2>2, <2>6, <4>1, <4>2, <4>3, <4>4, <4>5, <4>6 DEF Handled, Handle, Commits
    <3> QED BY <1>a, <2>2, <2>3, <3>1, <3>2
  <2> QED BY <2>4, <2>5, <2>6
<1>5. ASSUME NEW r \in Requests, WebLookUp(r) \/ WebWrite(r) PROVE FlagKept'
  <2>1. UNCHANGED <<at, kind, newest, base, strayed>> /\ Active' = Active
          /\ \A d \in Active : Commits(d)' => Commits(d)
    BY <1>5 DEF WebLookUp, WebWrite, store, Active, Commits
  <2>2. UNCHANGED <<flag, by, edits>> \/ edits' = edits + 1
    BY <1>5 DEF WebLookUp, WebWrite, store
  <2>3. CASE UNCHANGED <<flag, by, edits>>
    BY <1>a, <2>1, <2>3
  <2>4. CASE edits' = edits + 1
    <3>1. edits' > base' /\ \A d \in Active : Commits(d) => edits' > at[d].edits
      BY <1>0, <2>1, <2>4 DEF FlagKept
    <3>2. newest' # 0 => newest' \in Sent'
      BY <1>0, <2>1 DEF FlagKept
    <3> QED BY <1>0, <2>1, <2>4, <3>1, <3>2 DEF FlagKept, FlagFollowsNewest
  <2> QED BY <2>2, <2>3, <2>4
<1>6. CASE UNCHANGED vars
  <2>1. UNCHANGED <<at, kind, flag, by, newest, edits, base, strayed>>
    BY <1>6 DEF vars, store
  <2> QED BY <1>a, <2>1 DEF Active, Commits
<1> QED
  BY <1>1, <1>2, <1>3, <1>4, <1>5, <1>6 DEF Next, Handled

\* Failures, time-outs and redeliveries included, and although nothing is written that
\* equals what was read: the flag has the newest command's value, unless the dashboard
\* wrote it after that command had looked it up, or a command astray wrote it last.
THEOREM NewestCommandHolds == Spec => []FlagFollowsNewest
<1>1. Init => FlagKept
  BY DEF Init, FlagKept, FlagFollowsNewest, Active, Free
<1>2. FlagKept => FlagFollowsNewest
  BY DEF FlagKept
<1> QED
  BY <1>1, <1>2, FlagStep, InOrderCorrect, SentInOrderCorrect, ShapeCorrect, PTL DEF Spec

(***************************************************************************)
(* The assistant.                                                          *)
(***************************************************************************)

\* Whatever command the model names, words change neither a flag nor a job.
THEOREM WordsChangeNothing == Spec => AssistantReadsOnly
<1> DEFINE Step == \A d \in Deliveries : at[d].u # 0 /\ kind[at[d].u] = "words" /\ at'[d] # at[d]
                                         => UNCHANGED <<flag, job, rows>>
<1>1. ASSUME TypeOK, Next PROVE Step
  <2>1. ASSUME NEW d \in Deliveries, Handled(d) PROVE Step
    <3>1. \A e \in Deliveries : e # d => at'[e] = at[e]
      BY <1>1, <2>1, HandledStep DEF GoesOn, Ends, TypeOK
    <3>2. kind[at[d].u] = "words" => UNCHANGED <<flag, job, rows>>
      BY <2>1 DEF Handled, Handle, Dispatch, Assist, LookUpFlag, WriteFlag, FlagCollides, Searched,
                  NoWord, TurnedAway, LookUpJob, Skip, Apply, SendReply, Answer, Throttled, Fails,
                  Abandons, FlagCommands, store
    <3> QED BY <3>1, <3>2
  <2>2. ASSUME NEW d \in Deliveries, NEW u \in Updates, Deliver(d, u) \/ TimesOut(d) PROVE Step
    BY <2>2 DEF Deliver, TimesOut, store
  <2>3. ASSUME NEW u \in Updates, NEW k \in Kinds, UserSends(u, k) PROVE Step
    BY <2>3 DEF UserSends, store
  <2>4. ASSUME NEW r \in Requests, WebLookUp(r) \/ WebWrite(r) PROVE Step
    BY <2>4 DEF WebLookUp, WebWrite
  <2>5. ASSUME NEW d \in Deliveries, TimesOut(d) PROVE Step
    BY <2>5 DEF TimesOut, store
  <2> QED BY <1>1, <2>1, <2>2, <2>3, <2>4, <2>5 DEF Next, Handled
<1>2. TypeOK /\ [Next]_vars => [Step]_vars
  BY <1>1
<1> QED
  BY <1>2, TypeCorrect, PTL DEF Spec, AssistantReadsOnly

(***************************************************************************)
(* The Apply button.                                                       *)
(***************************************************************************)

\* A press that found no application and has still to write finds none now, or it is
\* astray.
Writing(d) == at[d].pc = "write" /\ kind[at[d].u] = "apply"

Applied ==
  /\ SecondNeedsStray
  /\ \A d \in Active : Writing(d) => rows = 0 \/ at[d].u \in strayed

LEMMA AppliedStep ==
  TypeOK /\ InUse /\ InOrder /\ SentInOrder /\ Applied /\ [Next]_vars => Applied'
<1> SUFFICES ASSUME TypeOK, InUse, InOrder, SentInOrder, Applied, [Next]_vars PROVE Applied'
  OBVIOUS
<1> USE BoundsAssumption
<1>0. /\ \A d \in Active : at[d].u \in Sent
      /\ \A u \in Sent : kind'[u] = kind[u]
      /\ strayed \subseteq Sent /\ rows \in Nat
  BY SentInOrderStep DEF TypeOK, InUse, Active
\* The press that writes is the only one, or astray.
<1>a. ASSUME strayed \subseteq strayed', rows' = rows,
             \A d \in Active' : Writing(d)' => d \in Active /\ Writing(d) /\ at'[d].u = at[d].u
      PROVE  Applied'
  <2>1. SecondNeedsStray'
    BY <1>a, <1>0 DEF Applied, SecondNeedsStray
  <2> QED BY <1>a, <2>1 DEF Applied
<1>1. ASSUME NEW u \in Updates, NEW k \in Kinds, UserSends(u, k) PROVE Applied'
  <2>1. UNCHANGED <<at, rows, strayed>>
    BY <1>1 DEF UserSends, store
  <2>2. \A d \in Active' : d \in Active /\ (Writing(d)' => Writing(d))
    BY <2>1, <1>0 DEF Active, Writing
  <2> QED BY <1>a, <2>1, <2>2
<1>2. ASSUME NEW d \in Deliveries, NEW u \in Updates, Deliver(d, u) PROVE Applied'
  <2>1. strayed \subseteq strayed' /\ rows' = rows /\ kind' = kind
    BY <1>2 DEF Deliver, store
  <2>2. at'[d].pc = "routed" /\ \A e \in Deliveries : e # d => at'[e] = at[e]
    BY <1>2 DEF Deliver, TypeOK, Free
  <2>3. \A e \in Active' : Writing(e)' => e \in Active /\ Writing(e) /\ at'[e].u = at[e].u
    BY <2>1, <2>2 DEF Active, Writing
  <2> QED BY <1>a, <2>1, <2>3
<1>3. ASSUME NEW d \in Deliveries, TimesOut(d) PROVE Applied'
  <2>1. strayed \subseteq strayed' /\ rows' = rows /\ kind' = kind
    BY <1>3 DEF TimesOut, store
  <2>2. \A e \in Deliveries : at'[e].pc = at[e].pc /\ at'[e].u = at[e].u
    BY <1>3 DEF TimesOut, TypeOK, Delivery
  <2>3. \A e \in Active' : Writing(e)' => e \in Active /\ Writing(e) /\ at'[e].u = at[e].u
    BY <2>1, <2>2 DEF Active, Writing
  <2> QED BY <1>a, <2>1, <2>3
<1>4. ASSUME NEW d \in Deliveries, Handled(d) PROVE Applied'
  <2>1. /\ d \in Active /\ kind' = kind
        /\ GoesOn(d) \/ Ends(d)
    BY <1>4, HandledStep DEF Active
  <2>2. /\ strayed \subseteq strayed'
        /\ \A e \in Deliveries : e # d => at'[e] = at[e]
        /\ at'[d].pc # "free" => at'[d].u = at[d].u
    <3>1. CASE GoesOn(d)
      BY <3>1 DEF GoesOn, TypeOK
    <3>2. CASE Ends(d)
      BY <3>2 DEF Ends, TypeOK, Free
    <3> QED BY <2>1, <3>1, <3>2
  \* What the others are writing.
  <2>3. \A e \in Active' : e # d /\ Writing(e)' =>
          e \in Active /\ Writing(e) /\ at'[e].u = at[e].u /\ at[e].u \in strayed
    BY <2>1, <2>2 DEF Active, Writing, InOrder
  <2>4. CASE Apply(d)
    <3>1. Writing(d) /\ rows' = rows + 1
      BY <2>4 DEF Apply, Writing
    <3>2. at'[d].pc = "reply"
      BY <2>4 DEF Apply, Replies, Moves, TypeOK, Delivery
    <3>3. rows = 0 \/ at[d].u \in strayed
      BY <2>1, <3>1 DEF Applied
    <3>4. SecondNeedsStray'
      BY <1>0, <2>1, <2>2, <3>1, <3>3 DEF SecondNeedsStray, Writing
    <3> QED BY <2>2, <2>3, <3>2, <3>4 DEF Applied, Writing
  <2>5. CASE LookUpJob(d)
    <3>1. rows' = rows
      BY <2>5 DEF LookUpJob, store
    <3>2. SecondNeedsStray'
      BY <1>0, <2>2, <3>1 DEF Applied, SecondNeedsStray
    <3>3. Writing(d)' => rows = 0
      <4>1. SUFFICES ASSUME rows # 0, kind[at[d].u] = "apply", at'[d].pc = "write" PROVE FALSE
        BY <2>1, <2>2, <3>1 DEF Writing
      <4>2. Replies(d, "view")
        BY <1>0, <2>5, <4>1 DEF LookUpJob
      <4>3. at'[d].pc = "reply"
        BY <4>2 DEF Replies, Moves, TypeOK, Delivery
      <4> QED BY <4>1, <4>3
    <3> QED BY <2>2, <2>3, <3>1, <3>2, <3>3 DEF Applied
  <2>6. CASE ~Apply(d) /\ ~LookUpJob(d)
    <3>1. rows' = rows
      BY <1>4, <2>6 DEF Handled, Handle, Dispatch, Assist, LookUpFlag, WriteFlag, FlagCollides,
                        Searched, NoWord, TurnedAway, Skip, SendReply, Answer, Throttled, Fails,
                        Abandons, store
    <3>2. SecondNeedsStray'
      BY <1>0, <2>2, <3>1 DEF Applied, SecondNeedsStray
    <3>3. ~Writing(d)'
      <4>1. ASSUME NEW k, Replies(d, k) PROVE at'[d].pc = "reply"
        BY <4>1 DEF Replies, Moves, TypeOK, Delivery
      <4>2. ASSUME Ends(d) PROVE at'[d].pc = "free"
        BY <4>2 DEF Ends, TypeOK, Free
      <4>3. ASSUME Dispatch(d) PROVE at'[d].pc # "write"
        <5>1. CASE Moves(d, [at[d] EXCEPT !.pc = "search"])
          BY <5>1 DEF Moves, TypeOK, Delivery
        <5>2. CASE \E k \in Commands \cup {"denied"} : Replies(d, k)
          BY <4>1, <5>2
        <5> QED BY <4>3, <5>1, <5>2 DEF Dispatch, Routed
      <4>4. ASSUME LookUpFlag(d) PROVE kind[at[d].u] # "apply"
        BY <4>4 DEF LookUpFlag, Routed, FlagCommands
      <4>5. ASSUME SendReply(d) PROVE at'[d].pc = "reply"
        BY <4>5 DEF SendReply, Moves, TypeOK, Delivery
      <4>6. ASSUME Answer(d) \/ FlagCollides(d) \/ NoWord(d) \/ Fails(d) PROVE Ends(d)
        BY <4>6 DEF Answer, FlagCollides, NoWord, Fails, Abandons, Ends
      <4>7. ASSUME Assist(d) \/ WriteFlag(d) \/ Searched(d) \/ TurnedAway(d) \/ Skip(d) \/ Throttled(d)
            PROVE  at'[d].pc = "reply"
        BY <4>1, <4>7 DEF Assist, WriteFlag, Searched, TurnedAway, Skip, Throttled
      <4> QED
        BY <1>4, <2>1, <2>2, <2>6, <4>2, <4>3, <4>4, <4>5, <4>6, <4>7 DEF Handled, Handle, Writing
    <3> QED BY <2>2, <2>3, <3>1, <3>2, <3>3 DEF Applied
  <2> QED BY <2>4, <2>5, <2>6
<1>5. ASSUME NEW r \in Requests, WebLookUp(r) \/ WebWrite(r) PROVE Applied'
  <2>1. UNCHANGED <<at, kind, rows, strayed>>
    BY <1>5 DEF WebLookUp, WebWrite, store
  <2> QED BY <1>a, <2>1 DEF Active, Writing
<1>6. CASE UNCHANGED vars
  <2>1. UNCHANGED <<at, kind, rows, strayed>>
    BY <1>6 DEF vars, store
  <2> QED BY <1>a, <2>1 DEF Active, Writing
<1> QED
  BY <1>1, <1>2, <1>3, <1>4, <1>5, <1>6 DEF Next, Handled

\* handle_job_review_callback asks for an application before it creates one, without
\* a lock: pressing Apply again makes no second one, only Telegram's delivering a
\* press twice, or together with another update, does.
THEOREM SecondApplicationExplained == Spec => []SecondNeedsStray
<1>1. Init => Applied
  BY DEF Init, Applied, SecondNeedsStray, Active, Free
<1>2. Applied => SecondNeedsStray
  BY DEF Applied
<1> QED
  BY <1>1, <1>2, AppliedStep, InOrderCorrect, SentInOrderCorrect, ShapeCorrect, PTL DEF Spec
=============================================================================
